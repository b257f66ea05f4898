--------------------------- MODULE Open5GSPlanProofs ---------------------------
(***************************************************************************)
(* What is true of the sequence of calls of every pass, whatever the spec: *)
(* which names a call uses, that what is listed is deleted before anything *)
(* else is listed, and that a Deployment comes after its ConfigMap. Each   *)
(* of these holds of a concatenation if it holds of both parts, so it is   *)
(* shown for the pieces and follows for the whole.                         *)
(***************************************************************************)
EXTENDS Open5GSPlan, TLAPS

Fields == {"labels", "annotations", "spec", "rest", "template", "hash"}
IsBody(body) == body = [f \in Fields |-> body[f]]
LabelsOf(i) == {[instance |-> i, name |-> c] : c \in Names}

Ports == {"sbi", "ngap", "gtpc", "gtpu", "pfcp", "http", "metrics"}
NameSuffixes == {<<>>, <<"entrypoint">>, <<"common", "scripts">>} \cup {<<port>> : port \in Ports}

\* The name is one that the components of an instance use.
OfInstance(key, i) ==
  \E c \in Names, suffix \in NameSuffixes : key.name = Append(i, c) \o suffix

ListedKinds == {"Service", "ServiceMonitor", "ServiceAccount"}
Lists == {"list", "listOwned"}

SoundStep(step, i) ==
  /\ step.do \in Applies => /\ OfInstance(step.key, i)
                            /\ IsBody(step.body) /\ step.body.labels \in LabelsOf(i)
  /\ step.do \in Lists => step.key.kind \in ListedKinds
  /\ step.do = "list" => step.body \in LabelsOf(i)
  /\ step.do = "delete" => OfInstance(step.key, i)

AppliesDeployment(step) == step.do \in Applies /\ step.key.kind = "Deployment"
Announces(before, step, i) ==
  /\ before.do = "apply" /\ step.do = "apply"
  /\ before.body.spec = step.body.hash
  /\ \E c \in Names : step.key = Key("Deployment", i, c, <<>>) /\ before.key = ConfigMapKey(i, c)

\* An "applyMonitor" lists as well, if the API was away when its component began.
MayList(step) == step.do \in Lists \cup {"applyMonitor"}
DeletedFrom(s, n) ==
  \E m \in n..Len(s) : s[m].do = "deleteListed" /\ \A k \in n..m : s[k].do \notin Lists

IsSequence(s) == \E S : s \in Seq(S)

IsPlan(s, i) ==
  /\ IsSequence(s)
  /\ \A n \in 1..Len(s) : SoundStep(s[n], i)
  /\ \A n \in 1..Len(s) : AppliesDeployment(s[n]) => n > 1 /\ Announces(s[n-1], s[n], i)
  /\ \A n \in 1..Len(s) : MayList(s[n]) => DeletedFrom(s, n + 1)

-------------------------------------------------------------------------------
(* Concatenation. *)

LEMMA Concatenation ==
  ASSUME NEW s, NEW t, IsSequence(s), IsSequence(t)
  PROVE  /\ IsSequence(s \o t)
         /\ Len(s) \in Nat /\ Len(t) \in Nat /\ Len(s \o t) = Len(s) + Len(t)
         /\ \A n \in 1..Len(s) : (s \o t)[n] = s[n]
         /\ \A n \in 1..Len(t) : (s \o t)[Len(s) + n] = t[n]
         /\ \A n \in 1..Len(s \o t) : n \in 1..Len(s) \/ \E m \in 1..Len(t) : n = Len(s) + m
<1>1. PICK S : s \in Seq(S) BY DEF IsSequence
<1>2. PICK T : t \in Seq(T) BY DEF IsSequence
<1>3. s \in Seq(S \cup T) /\ t \in Seq(S \cup T) BY <1>1, <1>2
<1>4. s \o t \in Seq(S \cup T) BY <1>3
<1>5. Len(s) \in Nat /\ Len(t) \in Nat /\ Len(s \o t) = Len(s) + Len(t) BY <1>3
<1>6. \A n \in 1..Len(s) : (s \o t)[n] = s[n] BY <1>3
<1>7. \A n \in 1..Len(t) : (s \o t)[Len(s) + n] = t[n] BY <1>3
<1>8. ASSUME NEW n \in 1..Len(s \o t) PROVE n \in 1..Len(s) \/ \E m \in 1..Len(t) : n = Len(s) + m
  <2>1. CASE n > Len(s)
    <3>1. n - Len(s) \in 1..Len(t) /\ n = Len(s) + (n - Len(s)) BY <1>5, <2>1
    <3> QED BY <3>1
  <2>2. CASE ~(n > Len(s)) BY <1>5, <2>2
  <2> QED BY <2>1, <2>2
<1> QED BY <1>4, <1>5, <1>6, <1>7, <1>8 DEF IsSequence

\* Parts of a pass, one after the other, make a part of a pass.
LEMMA PlanConcatenation ==
  ASSUME NEW i, NEW s, NEW t, IsPlan(s, i), IsPlan(t, i)
  PROVE  IsPlan(s \o t, i)
<1> DEFINE st == s \o t
<1>1. IsSequence(s) /\ IsSequence(t) BY DEF IsPlan
<1>2. /\ IsSequence(st)
      /\ Len(s) \in Nat /\ Len(t) \in Nat /\ Len(st) = Len(s) + Len(t)
      /\ \A n \in 1..Len(s) : st[n] = s[n]
      /\ \A n \in 1..Len(t) : st[Len(s) + n] = t[n]
      /\ \A n \in 1..Len(st) : n \in 1..Len(s) \/ \E m \in 1..Len(t) : n = Len(s) + m
  BY <1>1, Concatenation
<1> HIDE DEF st
<1>3. ASSUME NEW n \in 1..Len(st)
      PROVE  /\ SoundStep(st[n], i)
             /\ AppliesDeployment(st[n]) => n > 1 /\ Announces(st[n-1], st[n], i)
             /\ MayList(st[n]) => DeletedFrom(st, n + 1)
  <2>1. CASE n \in 1..Len(s)
    <3>1. st[n] = s[n] BY <1>2, <2>1
    <3>2. SoundStep(s[n], i) BY <2>1 DEF IsPlan
    <3>3. ASSUME AppliesDeployment(st[n]) PROVE n > 1 /\ Announces(st[n-1], st[n], i)
      <4>1. n > 1 /\ Announces(s[n-1], s[n], i) BY <2>1, <3>1, <3>3 DEF IsPlan
      <4>2. n - 1 \in 1..Len(s) BY <1>2, <2>1, <4>1
      <4>3. st[n-1] = s[n-1] BY <1>2, <4>2
      <4> QED BY <3>1, <4>1, <4>3
    <3>4. ASSUME MayList(st[n]) PROVE DeletedFrom(st, n + 1)
      <4>1. PICK m \in (n + 1)..Len(s) :
              s[m].do = "deleteListed" /\ \A k \in (n + 1)..m : s[k].do \notin Lists
        BY <2>1, <3>1, <3>4 DEF IsPlan, DeletedFrom
      <4>2. m \in (n + 1)..Len(st) BY <1>2, <4>1
      <4>3. \A k \in (n + 1)..m : k \in 1..Len(s) BY <1>2, <2>1, <4>1
      <4>4. m \in 1..Len(s) BY <1>2, <2>1, <4>1
      <4>5. st[m] = s[m] /\ \A k \in (n + 1)..m : st[k] = s[k] BY <1>2, <4>3, <4>4
      <4> QED BY <4>1, <4>2, <4>5 DEF DeletedFrom
    <3> QED BY <3>1, <3>2, <3>3, <3>4
  <2>2. ASSUME NEW m \in 1..Len(t), n = Len(s) + m
        PROVE  /\ SoundStep(st[n], i)
               /\ AppliesDeployment(st[n]) => n > 1 /\ Announces(st[n-1], st[n], i)
               /\ MayList(st[n]) => DeletedFrom(st, n + 1)
    <3>1. st[n] = t[m] BY <1>2, <2>2
    <3>2. SoundStep(t[m], i) BY DEF IsPlan
    <3>3. ASSUME AppliesDeployment(st[n]) PROVE n > 1 /\ Announces(st[n-1], st[n], i)
      <4>1. m > 1 /\ Announces(t[m-1], t[m], i) BY <3>1, <3>3 DEF IsPlan
      <4>2. m - 1 \in 1..Len(t) /\ n - 1 = Len(s) + (m - 1) /\ n > 1 BY <1>2, <2>2, <4>1
      <4>3. st[n-1] = t[m-1] BY <1>2, <4>2
      <4> QED BY <3>1, <4>1, <4>2, <4>3
    <3>4. ASSUME MayList(st[n]) PROVE DeletedFrom(st, n + 1)
      <4>1. PICK d \in (m + 1)..Len(t) :
              t[d].do = "deleteListed" /\ \A k \in (m + 1)..d : t[k].do \notin Lists
        BY <3>1, <3>4 DEF IsPlan, DeletedFrom
      <4>2. d \in 1..Len(t) /\ Len(s) + d \in (n + 1)..Len(st) BY <1>2, <2>2, <4>1
      <4>3. st[Len(s) + d] = t[d] BY <1>2, <4>2
      <4>4. ASSUME NEW k \in (n + 1)..(Len(s) + d) PROVE st[k].do \notin Lists
        <5>1. k - Len(s) \in (m + 1)..d /\ k - Len(s) \in 1..Len(t) /\ k = Len(s) + (k - Len(s))
          BY <1>2, <2>2, <4>1
        <5>2. st[k] = t[k - Len(s)] BY <1>2, <5>1
        <5> QED BY <4>1, <5>1, <5>2
      <4> QED BY <4>1, <4>2, <4>3, <4>4 DEF DeletedFrom
    <3> QED BY <3>1, <3>2, <3>3, <3>4
  <2> QED BY <1>2, <2>1, <2>2
<1> QED BY <1>2, <1>3 DEF IsPlan, st

-------------------------------------------------------------------------------
(* The pieces. *)

\* Calls that neither list nor apply a Deployment are fit for any place.
Plain(step, i) == SoundStep(step, i) /\ ~AppliesDeployment(step) /\ ~MayList(step)

LEMMA PlainCalls ==
  ASSUME NEW i, NEW s, IsSequence(s), \A n \in 1..Len(s) : Plain(s[n], i)
  PROVE  IsPlan(s, i)
BY DEF IsPlan, Plain

LEMMA OneCall ==
  ASSUME NEW step
  PROVE  IsSequence(<<step>>) /\ Len(<<step>>) = 1 /\ <<step>>[1] = step
<1>1. <<step>> \in Seq({step}) OBVIOUS
<1> QED BY <1>1 DEF IsSequence

LEMMA OnePlainCall ==
  ASSUME NEW i, NEW step, Plain(step, i)
  PROVE  IsPlan(<<step>>, i)
<1>1. \A n \in 1..Len(<<step>>) : <<step>>[n] = step BY OneCall
<1> QED BY <1>1, OneCall, PlainCalls

LEMMA NoCalls == ASSUME NEW i PROVE IsPlan(<<>>, i)
<1>1. <<>> \in Seq({}) /\ Len(<<>>) = 0 OBVIOUS
<1>2. IsSequence(<<>>) BY <1>1 DEF IsSequence
<1> QED BY <1>1, <1>2, PlainCalls

\* What a call lists is deleted by the next.
LEMMA ListThenDelete ==
  ASSUME NEW i, NEW step, SoundStep(step, i), ~AppliesDeployment(step)
  PROVE  IsPlan(<<step, DeleteListed>>, i)
<1> DEFINE s == <<step, DeleteListed>>
<1>1. s \in Seq({step, DeleteListed}) /\ Len(s) = 2 /\ s[1] = step /\ s[2] = DeleteListed OBVIOUS
<1>2. DeleteListed.do = "deleteListed" BY DEF DeleteListed, Step
<1>3. Plain(DeleteListed, i)
  BY <1>2 DEF Plain, SoundStep, AppliesDeployment, MayList, Applies, Lists
<1>4. DeletedFrom(s, 2)
  <2>1. 2 \in 2..Len(s) /\ \A k \in 2..2 : k = 2 BY <1>1
  <2> QED BY <1>1, <1>2, <2>1 DEF DeletedFrom, Lists
<1> HIDE DEF s
<1>5. \A n \in 1..Len(s) : n = 1 \/ n = 2 BY <1>1
<1>6. IsSequence(s) BY <1>1 DEF IsSequence
<1>7. \A n \in 1..Len(s) : SoundStep(s[n], i) /\ ~AppliesDeployment(s[n])
  BY <1>1, <1>3, <1>5 DEF Plain
<1>8. \A n \in 1..Len(s) : MayList(s[n]) => DeletedFrom(s, n + 1)
  BY <1>1, <1>3, <1>4, <1>5 DEF Plain
<1>9. IsPlan(s, i) BY <1>6, <1>7, <1>8 DEF IsPlan
<1> QED BY <1>9 DEF s

\* A Deployment is applied right after its ConfigMap.
LEMMA ConfigMapThenDeployment ==
  ASSUME NEW i, NEW before, NEW step, SoundStep(before, i), SoundStep(step, i),
         before.do = "apply", before.key.kind = "ConfigMap", Announces(before, step, i)
  PROVE  IsPlan(<<before, step>>, i)
<1> DEFINE s == <<before, step>>
<1>1. s \in Seq({before, step}) /\ Len(s) = 2 /\ s[1] = before /\ s[2] = step OBVIOUS
<1> HIDE DEF s
<1>2. \A n \in 1..Len(s) : n = 1 \/ n = 2 BY <1>1
<1>3. IsSequence(s) BY <1>1 DEF IsSequence
<1>4. \A n \in 1..Len(s) : SoundStep(s[n], i) BY <1>1, <1>2
<1>5. \A n \in 1..Len(s) : AppliesDeployment(s[n]) => n > 1 /\ Announces(s[n-1], s[n], i)
  <2>1. ~AppliesDeployment(s[1]) BY <1>1 DEF AppliesDeployment
  <2>2. Announces(s[2-1], s[2], i) BY <1>1
  <2> QED BY <1>2, <2>1, <2>2
<1>6. step.do = "apply" BY DEF Announces
<1>7. \A n \in 1..Len(s) : ~MayList(s[n]) BY <1>1, <1>2, <1>6 DEF MayList, Lists
<1>8. IsPlan(s, i) BY <1>3, <1>4, <1>5, <1>7 DEF IsPlan
<1> QED BY <1>8 DEF s

\* A list, calls that list nothing, and the deletion of what was listed.
LEMMA ListApplyDelete ==
  ASSUME NEW i, NEW step, NEW s, SoundStep(step, i), ~AppliesDeployment(step),
         IsSequence(s), \A n \in 1..Len(s) : Plain(s[n], i)
  PROVE  IsPlan(<<step>> \o s \o <<DeleteListed>>, i)
<1> DEFINE a == <<step>> \o s
           b == a \o <<DeleteListed>>
<1>1. /\ IsSequence(a) /\ Len(s) \in Nat /\ Len(a) = 1 + Len(s)
      /\ a[1] = step
      /\ \A n \in 1..Len(s) : a[1 + n] = s[n]
      /\ \A n \in 1..Len(a) : n = 1 \/ \E m \in 1..Len(s) : n = 1 + m
  <2>1. 1 \in 1..1 /\ \A n \in 1..1 : n = 1 OBVIOUS
  <2> QED BY <2>1, OneCall, Concatenation
<1> HIDE DEF a
<1>2. /\ IsSequence(b) /\ Len(b) = Len(a) + 1
      /\ \A n \in 1..Len(a) : b[n] = a[n]
      /\ b[Len(a) + 1] = DeleteListed
      /\ \A n \in 1..Len(b) : n \in 1..Len(a) \/ n = Len(a) + 1
  <2>1. 1 \in 1..1 /\ \A n \in 1..1 : n = 1 OBVIOUS
  <2> QED BY <1>1, <2>1, OneCall, Concatenation
<1> HIDE DEF b
<1>3. DeleteListed.do = "deleteListed" BY DEF DeleteListed, Step
<1>4. Plain(DeleteListed, i)
  BY <1>3 DEF Plain, SoundStep, AppliesDeployment, MayList, Applies, Lists
<1>5. \A n \in 1..Len(b) : (n = 1 /\ b[n] = step) \/ (n > 1 /\ Plain(b[n], i))
  <2>1. ASSUME NEW n \in 1..Len(a) PROVE (n = 1 /\ b[n] = step) \/ (n > 1 /\ Plain(b[n], i))
    BY <1>1, <1>2
  <2>2. Len(a) + 1 > 1 BY <1>1
  <2> QED BY <1>2, <1>4, <2>1, <2>2
<1>6. \A n \in 1..Len(b) : SoundStep(b[n], i) /\ ~AppliesDeployment(b[n]) BY <1>5 DEF Plain
<1>7. DeletedFrom(b, 2)
  <2>1. Len(a) + 1 \in 2..Len(b) BY <1>1, <1>2
  <2>2. \A k \in 2..(Len(a) + 1) : k \in 1..Len(b) /\ k # 1 BY <1>1, <1>2
  <2>3. \A k \in 2..(Len(a) + 1) : b[k].do \notin Lists BY <1>5, <2>2 DEF Plain, MayList
  <2> QED BY <1>2, <1>3, <2>1, <2>3 DEF DeletedFrom
<1>8. \A n \in 1..Len(b) : MayList(b[n]) => DeletedFrom(b, n + 1)
  <2>1. 1 + 1 = 2 OBVIOUS
  <2> QED BY <1>5, <1>7, <2>1 DEF Plain
<1>9. IsPlan(b, i) BY <1>2, <1>6, <1>8 DEF IsPlan
<1> QED BY <1>9 DEF a, b

-------------------------------------------------------------------------------
(* The objects that a component asks for. *)

IsWanted(object, kind, i) ==
  /\ object.key.kind = kind /\ OfInstance(object.key, i)
  /\ IsBody(object.body) /\ object.body.labels \in LabelsOf(i)

LEMMA KeyFacts ==
  ASSUME NEW kind, NEW i, NEW c \in Names, NEW suffix \in NameSuffixes
  PROVE  Key(kind, i, c, suffix).kind = kind /\ OfInstance(Key(kind, i, c, suffix), i)
BY DEF Key, OfInstance

LEMMA BodyFacts ==
  ASSUME NEW i, NEW c \in Names, NEW spec, NEW rest
  PROVE  /\ IsBody(Body(i, c, spec, rest)) /\ Body(i, c, spec, rest).labels \in LabelsOf(i)
         /\ Body(i, c, spec, rest).spec = spec
BY DEF Body, IsBody, Fields, LabelsOf

LEMMA SuffixFacts ==
  /\ <<>> \in NameSuffixes /\ <<"entrypoint">> \in NameSuffixes /\ <<"common", "scripts">> \in NameSuffixes
  /\ \A port \in Ports : <<port>> \in NameSuffixes
BY DEF NameSuffixes

LEMMA ObjectFacts ==
  ASSUME NEW kind, NEW i, NEW c \in Names, NEW suffix \in NameSuffixes, NEW spec, NEW rest
  PROVE  IsWanted([key |-> Key(kind, i, c, suffix), body |-> Body(i, c, spec, rest)], kind, i)
BY KeyFacts, BodyFacts DEF IsWanted

LEMMA PortFacts == ASSUME NEW c PROVE ServicePorts(c) \in Seq(Ports)
<1>1. DOMAIN OwnPorts = {"amf", "smf", "upf", "webui"} BY DEF OwnPorts
<1>2. OwnPorts["amf"] \in Seq(Ports) BY DEF OwnPorts, Ports
<1>3. OwnPorts["smf"] \in Seq(Ports) BY DEF OwnPorts, Ports
<1>4. OwnPorts["upf"] \in Seq(Ports) BY DEF OwnPorts, Ports
<1>5. OwnPorts["webui"] \in Seq(Ports) BY DEF OwnPorts, Ports
<1>6. <<"sbi">> \in Seq(Ports) BY DEF Ports
<1> QED BY <1>1, <1>2, <1>3, <1>4, <1>5, <1>6 DEF ServicePorts

LEMMA ServiceFacts ==
  ASSUME NEW s, NEW i, NEW c \in Names
  PROVE  /\ IsSequence(Services(s, i, c))
         /\ \A n \in 1..Len(Services(s, i, c)) : IsWanted(Services(s, i, c)[n], "Service", i)
<1> DEFINE f == s.functions[c]
           ports == ServicePorts(c) \o (IF c \in Monitored /\ f.metrics THEN <<"metrics">> ELSE <<>>)
           services == [n \in DOMAIN ports |-> CreateService(f, i, c, ports[n])]
<1>1. CASE c = "mongodb"
  <2>1. Services(s, i, c) = <<CreateMongoDBService(i)>> BY <1>1 DEF Services
  <2>2. IsWanted(CreateMongoDBService(i), "Service", i)
    BY <1>1, ObjectFacts, SuffixFacts DEF CreateMongoDBService
  <2>3. \A n \in 1..1 : <<CreateMongoDBService(i)>>[n] = CreateMongoDBService(i) BY OneCall
  <2> QED BY <2>1, <2>2, <2>3, OneCall
<1>2. CASE c # "mongodb"
  <2>1. ports \in Seq(Ports)
    <3>1. <<"metrics">> \in Seq(Ports) /\ <<>> \in Seq(Ports) BY DEF Ports
    <3> QED BY <3>1, PortFacts
  <2>2. Services(s, i, c) = services BY <1>2 DEF Services
  <2> HIDE DEF ports
  <2>3. Len(ports) \in Nat /\ DOMAIN ports = 1..Len(ports) /\ \A n \in 1..Len(ports) : ports[n] \in Ports
    BY <2>1
  <2>4. /\ services \in Seq({CreateService(f, i, c, port) : port \in Ports})
        /\ Len(services) = Len(ports)
    BY <2>3
  <2>5. ASSUME NEW n \in 1..Len(ports) PROVE IsWanted(services[n], "Service", i)
    <3>1. <<ports[n]>> \in NameSuffixes BY <2>3, SuffixFacts
    <3>2. services[n] = CreateService(f, i, c, ports[n]) BY <2>3
    <3> QED BY <3>1, <3>2, ObjectFacts DEF CreateService
  <2> QED BY <2>2, <2>4, <2>5 DEF IsSequence
<1> QED BY <1>1, <1>2

LEMMA DeploymentFacts ==
  ASSUME NEW s, NEW i, NEW c \in Names
  PROVE  /\ IsWanted(Deployment(s, i, c), "Deployment", i)
         /\ Deployment(s, i, c).key = Key("Deployment", i, c, <<>>)
         /\ Deployment(s, i, c).body.hash = ConfigMapData(s, c)
<1> DEFINE body == DeploymentBody(s, i, c)
<1>1. IsBody(body) /\ body.labels \in LabelsOf(i) /\ body.hash = ConfigMapData(s, c)
  <2> DEFINE plain == IF c = "upf" THEN CreateUPFDeployment(s, i)
                      ELSE IF c = "webui" THEN CreateWebUIDeployment(s, i)
                      ELSE IF c = "mongodb" THEN CreateMongoDBDeployment(s, i)
                      ELSE CreateDeployment(s, i, c)
  <2>1. IsBody(plain) /\ plain.labels \in LabelsOf(i)
    <3>1. CASE c = "upf"
      <4> DEFINE f == s.functions["upf"]
                 b == Body(i, "upf", <<s.open5gsImage, ServiceAccountName(f, i, "upf")>>,
                           <<f.metrics, f.unprivileged>>)
      <4>1. IsBody(b) /\ b.labels \in LabelsOf(i) BY <3>1, BodyFacts
      <4>2. plain = [b EXCEPT !.template = f.deploymentAnnotations] BY <3>1 DEF CreateUPFDeployment
      <4> HIDE DEF b
      <4> QED BY <4>1, <4>2 DEF IsBody, Fields
    <3>2. CASE c = "webui" BY <3>2, BodyFacts DEF CreateWebUIDeployment
    <3>3. CASE c = "mongodb" BY <3>3, BodyFacts DEF CreateMongoDBDeployment
    <3>4. CASE c \notin {"upf", "webui", "mongodb"} BY <3>4, BodyFacts DEF CreateDeployment
    <3> QED BY <3>1, <3>2, <3>3, <3>4
  <2>2. body = [plain EXCEPT !.hash = ConfigMapData(s, c)] BY DEF DeploymentBody
  <2> HIDE DEF plain
  <2> QED BY <2>1, <2>2 DEF IsBody, Fields
<1>2. Key("Deployment", i, c, <<>>).kind = "Deployment" /\ OfInstance(Key("Deployment", i, c, <<>>), i)
  BY KeyFacts, SuffixFacts
<1> QED BY <1>1, <1>2 DEF Deployment, IsWanted

LEMMA ConfigMapFacts ==
  ASSUME NEW s, NEW i, NEW c \in Names
  PROVE  /\ IsWanted(ConfigMap(s, i, c), "ConfigMap", i)
         /\ ConfigMap(s, i, c).key = ConfigMapKey(i, c)
         /\ ConfigMap(s, i, c).body.spec = ConfigMapData(s, c)
<1> DEFINE suffix == IF c = "mongodb" THEN <<"common", "scripts">> ELSE <<>>
<1>1. suffix \in NameSuffixes BY SuffixFacts
<1>2. ConfigMapKey(i, c) = Key("ConfigMap", i, c, suffix) BY DEF ConfigMapKey
<1> HIDE DEF suffix
<1>3. ConfigMap(s, i, c) = [key |-> Key("ConfigMap", i, c, suffix),
                            body |-> Body(i, c, ConfigMapData(s, c), <<>>)]
  BY <1>2 DEF ConfigMap
<1>4. IsWanted(ConfigMap(s, i, c), "ConfigMap", i) BY <1>1, <1>3, ObjectFacts
<1>5. ConfigMap(s, i, c).body.spec = ConfigMapData(s, c)
  <2>1. ConfigMap(s, i, c).body = Body(i, c, ConfigMapData(s, c), <<>>) BY DEF ConfigMap
  <2>2. Body(i, c, ConfigMapData(s, c), <<>>).spec = ConfigMapData(s, c) BY DEF Body
  <2> QED BY <2>1, <2>2
<1> QED BY <1>2, <1>3, <1>4, <1>5

-------------------------------------------------------------------------------
(* The calls of a component, and of a pass. *)

LEMMA AppliesPlainly ==
  ASSUME NEW object, NEW kind, NEW i, IsWanted(object, kind, i), kind # "Deployment"
  PROVE  Plain(Apply(object), i) /\ Plain(ApplyIgnoringErrors(object), i)
BY DEF IsWanted, Plain, SoundStep, Apply, ApplyIgnoringErrors, Step, Applies, Lists,
       AppliesDeployment, MayList

LEMMA AppliesSoundly ==
  ASSUME NEW object, NEW kind, NEW i, IsWanted(object, kind, i)
  PROVE  /\ SoundStep(Apply(object), i) /\ SoundStep(ApplyMonitor(object), i)
         /\ Apply(object).do = "apply"
         /\ Apply(object).key = object.key /\ Apply(object).body = object.body
         /\ kind # "Deployment" => ~AppliesDeployment(ApplyMonitor(object))
BY DEF IsWanted, SoundStep, Apply, ApplyMonitor, Step, Applies, Lists, AppliesDeployment

LEMMA ListsSoundly ==
  ASSUME NEW kind \in ListedKinds, NEW i, NEW c \in Names, NEW keep
  PROVE  /\ SoundStep(List(kind, i, c, keep), i) /\ ~AppliesDeployment(List(kind, i, c, keep))
         /\ SoundStep(ListOwned(i, c), i) /\ ~AppliesDeployment(ListOwned(i, c))
<1>1. /\ List(kind, i, c, keep).do = "list" /\ List(kind, i, c, keep).key.kind = kind
      /\ List(kind, i, c, keep).body \in LabelsOf(i)
  BY DEF List, Step, Key, LabelsOf
<1>2. ListOwned(i, c).do = "listOwned" /\ ListOwned(i, c).key.kind = "Service"
  BY DEF ListOwned, Step, Key
<1> QED BY <1>1, <1>2 DEF SoundStep, AppliesDeployment, Applies, Lists, ListedKinds

LEMMA DeletesPlainly ==
  ASSUME NEW kind, NEW i, NEW c \in Names
  PROVE  Plain(Delete(kind, i, c), i)
<1>1. Delete(kind, i, c).do = "delete" /\ OfInstance(Delete(kind, i, c).key, i)
  BY KeyFacts, SuffixFacts DEF Delete, Step
<1> QED BY <1>1 DEF Plain, SoundStep, AppliesDeployment, MayList, Applies, Lists

LEMMA ServicesPlan ==
  ASSUME NEW s, NEW i, NEW c \in Names
  PROVE  IsPlan(reconcileServices(s, i, c), i)
<1> DEFINE services == Services(s, i, c)
           applyServices == [n \in DOMAIN services |-> Apply(services[n])]
           list == List("Service", i, c, {services[n].key : n \in DOMAIN services})
<1>1. PICK S : services \in Seq(S) BY ServiceFacts DEF IsSequence
<1>2. \A n \in 1..Len(services) : IsWanted(services[n], "Service", i) BY ServiceFacts
<1>3. SoundStep(list, i) /\ ~AppliesDeployment(list)
  <2>1. "Service" \in ListedKinds BY DEF ListedKinds
  <2> QED BY <2>1, ListsSoundly
<1>4. /\ applyServices \in Seq({Apply(object) : object \in S}) /\ Len(applyServices) = Len(services)
      /\ \A n \in 1..Len(services) : applyServices[n] = Apply(services[n])
  <2> HIDE DEF services
  <2>1. DOMAIN services = 1..Len(services) /\ Len(services) \in Nat
        /\ \A n \in 1..Len(services) : services[n] \in S
    BY <1>1
  <2> QED BY <2>1
<1>5. \A n \in 1..Len(applyServices) : Plain(applyServices[n], i)
  BY <1>2, <1>4, AppliesPlainly
<1>6. IsSequence(applyServices) BY <1>4 DEF IsSequence
<1>7. reconcileServices(s, i, c) = <<list>> \o applyServices \o <<DeleteListed>> \o applyServices
  BY DEF reconcileServices
<1> HIDE DEF applyServices, list
<1>8. IsPlan(<<list>> \o applyServices \o <<DeleteListed>>, i) BY <1>3, <1>5, <1>6, ListApplyDelete
<1>9. IsPlan(applyServices, i) BY <1>5, <1>6, PlainCalls
<1> QED BY <1>7, <1>8, <1>9, PlanConcatenation

LEMMA ComponentPlan ==
  ASSUME NEW s, NEW i, NEW c \in Names
  PROVE  IsPlan(reconcileComponent(s, i, c), i)
<1> DEFINE f == s.functions[c]
           wantsMonitor == c \in Monitored /\ f.serviceMonitor
           p1 == IF wantsMonitor THEN <<LookUpMonitors>> ELSE <<>>
           p2 == <<Apply(ConfigMap(s, i, c)), Apply(Deployment(s, i, c))>>
           p3 == reconcileServices(s, i, c)
           p4 == IF wantsMonitor THEN <<ApplyMonitor(CreateServiceMonitor(i, c)), DeleteListed>>
                 ELSE <<List("ServiceMonitor", i, c, {}), DeleteListed>>
           p5 == IF c = "mongodb" THEN <<Apply(CreateMongoDBPVC(i))>> ELSE <<>>
           p6 == IF f.serviceAccount THEN <<Apply(CreateServiceAccount(i, c))>>
                 ELSE <<List("ServiceAccount", i, c, {}), DeleteListed>>
<1>1. IsPlan(p1, i)
  <2>1. LookUpMonitors.do = "lookUpMonitors" BY DEF LookUpMonitors, Step
  <2>2. Plain(LookUpMonitors, i)
    BY <2>1 DEF Plain, SoundStep, AppliesDeployment, MayList, Applies, Lists
  <2> QED BY <2>2, OnePlainCall, NoCalls
<1>2. IsPlan(p2, i)
  <2> DEFINE before == Apply(ConfigMap(s, i, c))
             step == Apply(Deployment(s, i, c))
  <2>1. /\ SoundStep(before, i) /\ SoundStep(step, i) /\ before.do = "apply" /\ step.do = "apply"
        /\ before.key = ConfigMapKey(i, c) /\ before.body.spec = ConfigMapData(s, c)
        /\ step.key = Key("Deployment", i, c, <<>>) /\ step.body.hash = ConfigMapData(s, c)
    BY AppliesSoundly, ConfigMapFacts, DeploymentFacts
  <2>2. before.key.kind = "ConfigMap" BY <2>1 DEF ConfigMapKey, Key
  <2> HIDE DEF before, step
  <2>3. Announces(before, step, i) BY <2>1 DEF Announces
  <2>4. IsPlan(<<before, step>>, i) BY <2>1, <2>2, <2>3, ConfigMapThenDeployment
  <2> QED BY <2>4 DEF before, step
<1>3. IsPlan(p3, i) BY ServicesPlan
<1>4. IsPlan(p4, i)
  <2> DEFINE monitor == CreateServiceMonitor(i, c)
  <2>1. IsWanted(monitor, "ServiceMonitor", i)
    BY ObjectFacts, SuffixFacts DEF CreateServiceMonitor
  <2>2. SoundStep(ApplyMonitor(monitor), i) /\ ~AppliesDeployment(ApplyMonitor(monitor))
    BY <2>1, AppliesSoundly
  <2>3. IsPlan(<<ApplyMonitor(monitor), DeleteListed>>, i) BY <2>2, ListThenDelete
  <2>4. IsPlan(<<List("ServiceMonitor", i, c, {}), DeleteListed>>, i)
    BY ListsSoundly, ListThenDelete DEF ListedKinds
  <2> QED BY <2>3, <2>4
<1>5. IsPlan(p5, i)
  <2>1. c = "mongodb" => IsWanted(CreateMongoDBPVC(i), "PersistentVolumeClaim", i)
    BY ObjectFacts, SuffixFacts DEF CreateMongoDBPVC
  <2>2. c = "mongodb" => IsPlan(<<Apply(CreateMongoDBPVC(i))>>, i)
    BY <2>1, AppliesPlainly, OnePlainCall
  <2> QED BY <2>2, NoCalls
<1>6. IsPlan(p6, i)
  <2>1. IsWanted(CreateServiceAccount(i, c), "ServiceAccount", i)
    BY ObjectFacts, SuffixFacts DEF CreateServiceAccount
  <2>2. IsPlan(<<Apply(CreateServiceAccount(i, c))>>, i) BY <2>1, AppliesPlainly, OnePlainCall
  <2>3. IsPlan(<<List("ServiceAccount", i, c, {}), DeleteListed>>, i)
    BY ListsSoundly, ListThenDelete DEF ListedKinds
  <2> QED BY <2>2, <2>3
<1>7. reconcileComponent(s, i, c) = p1 \o p2 \o p3 \o p4 \o p5 \o p6 BY DEF reconcileComponent
<1> HIDE DEF p1, p2, p3, p4, p5, p6
<1>8. IsPlan(p1 \o p2 \o p3, i) BY <1>1, <1>2, <1>3, PlanConcatenation
<1>9. IsPlan(p1 \o p2 \o p3 \o p4 \o p5, i) BY <1>4, <1>5, <1>8, PlanConcatenation
<1> QED BY <1>6, <1>7, <1>9, PlanConcatenation

LEMMA DeletionPlan ==
  ASSUME NEW i, NEW c \in Names
  PROVE  IsPlan(deleteComponentResources(i, c), i)
<1> DEFINE p1 == <<Delete("ConfigMap", i, c)>>
           p2 == <<Delete("Deployment", i, c)>>
           p3 == <<ListOwned(i, c), DeleteListed>>
           p4 == <<Delete("ServiceMonitor", i, c)>>
           p5 == <<Delete("PersistentVolumeClaim", i, c)>>
           p6 == <<Delete("ServiceAccount", i, c)>>
<1>1. IsPlan(p1, i) /\ IsPlan(p2, i) /\ IsPlan(p4, i) /\ IsPlan(p5, i) /\ IsPlan(p6, i)
  BY DeletesPlainly, OnePlainCall
<1>2. IsPlan(p3, i)
  <2>1. "Service" \in ListedKinds BY DEF ListedKinds
  <2> QED BY <2>1, ListsSoundly, ListThenDelete
<1>3. deleteComponentResources(i, c) = p1 \o p2 \o p3 \o p4 \o p5 \o p6
  BY DEF deleteComponentResources
<1> HIDE DEF p1, p2, p3, p4, p5, p6
<1>4. IsPlan(p1 \o p2 \o p3, i) BY <1>1, <1>2, PlanConcatenation
<1>5. IsPlan(p1 \o p2 \o p3 \o p4 \o p5, i) BY <1>1, <1>4, PlanConcatenation
<1> QED BY <1>1, <1>3, <1>5, PlanConcatenation

LEMMA FunctionPlan ==
  ASSUME NEW s, NEW i, NEW c \in Names
  PROVE  IsPlan(Reconcile(s, i, c), i)
<1>1. c = "upf" => IsPlan(reconcileUPF(s, i), i)
  <2> SUFFICES ASSUME c = "upf" PROVE IsPlan(reconcileUPF(s, i), i) OBVIOUS
  <2>1. IsWanted(EntrypointConfigMap(s, i), "ConfigMap", i)
    BY ObjectFacts, SuffixFacts DEF EntrypointConfigMap, EntrypointKey
  <2>2. IsPlan(<<ApplyIgnoringErrors(EntrypointConfigMap(s, i))>>, i)
    BY <2>1, AppliesPlainly, OnePlainCall
  <2> QED BY <2>2, ComponentPlan, PlanConcatenation DEF reconcileUPF
<1> QED BY <1>1, ComponentPlan, DeletionPlan DEF Reconcile

LEMMA PassPlan ==
  ASSUME NEW s, NEW i, NEW functions
  PROVE  IsPlan(Pass(s, i, functions), i)
<1> DEFINE Of == [c \in Names |-> IF c \in functions THEN Reconcile(s, i, c) ELSE <<>>]
<1>1. \A c \in Names : IsPlan(Of[c], i) BY FunctionPlan, NoCalls
<1>2. Pass(s, i, functions) =
        Of["amf"] \o Of["ausf"] \o Of["bsf"] \o Of["nrf"] \o Of["nssf"] \o Of["smf"] \o Of["pcf"]
        \o Of["scp"] \o Of["udm"] \o Of["udr"] \o Of["upf"] \o Of["webui"] \o Of["mongodb"]
  BY DEF Pass, InOrder
<1>3. /\ IsPlan(Of["amf"], i) /\ IsPlan(Of["ausf"], i) /\ IsPlan(Of["bsf"], i)
      /\ IsPlan(Of["nrf"], i) /\ IsPlan(Of["nssf"], i) /\ IsPlan(Of["smf"], i)
      /\ IsPlan(Of["pcf"], i) /\ IsPlan(Of["scp"], i) /\ IsPlan(Of["udm"], i)
      /\ IsPlan(Of["udr"], i) /\ IsPlan(Of["upf"], i) /\ IsPlan(Of["webui"], i)
      /\ IsPlan(Of["mongodb"], i)
  BY <1>1 DEF Names
<1> HIDE DEF Of
<1>4. IsPlan(Of["amf"] \o Of["ausf"] \o Of["bsf"] \o Of["nrf"], i) BY <1>3, PlanConcatenation
<1>5. IsPlan(Of["amf"] \o Of["ausf"] \o Of["bsf"] \o Of["nrf"] \o Of["nssf"] \o Of["smf"]
             \o Of["pcf"], i)
  BY <1>3, <1>4, PlanConcatenation
<1>6. IsPlan(Of["amf"] \o Of["ausf"] \o Of["bsf"] \o Of["nrf"] \o Of["nssf"] \o Of["smf"]
             \o Of["pcf"] \o Of["scp"] \o Of["udm"] \o Of["udr"], i)
  BY <1>3, <1>5, PlanConcatenation
<1> QED BY <1>2, <1>3, <1>6, PlanConcatenation

-------------------------------------------------------------------------------
(***************************************************************************)
(* Two instances never use the same name, also where the name of one goes  *)
(* on where that of the other ends: a name ends in that of a network       *)
(* function or in a word that is none, and its length tells which part of  *)
(* it is the instance.                                                     *)
(***************************************************************************)
Endings(suffix) ==
  IF Len(suffix) = 0 THEN Names ELSE IF Len(suffix) = 1 THEN Ports \cup {"entrypoint"} ELSE {"scripts"}

LEMMA NameParts ==
  ASSUME NEW S, NEW i \in Seq(S), NEW c \in Names, NEW suffix \in NameSuffixes
  PROVE  LET name == Append(i, c) \o suffix
         IN  /\ Len(suffix) \in 0..2 /\ Len(i) \in Nat /\ Len(name) = Len(i) + 1 + Len(suffix)
             /\ name[Len(name)] \in Endings(suffix)
             /\ \A n \in 1..Len(i) : name[n] = i[n]
<1> DEFINE a == Append(i, c)
           name == a \o suffix
<1>1. a \in Seq(S \cup {c}) /\ Len(a) = Len(i) + 1 /\ Len(i) \in Nat
  <2>1. i \in Seq(S \cup {c}) /\ c \in S \cup {c} OBVIOUS
  <2> QED BY <2>1
<1>2. a[Len(i) + 1] = c /\ \A n \in 1..Len(i) : a[n] = i[n] OBVIOUS
<1> HIDE DEF a
<1>3. /\ IsSequence(suffix)
      /\ \/ Len(suffix) = 0 /\ suffix = <<>>
         \/ Len(suffix) = 1 /\ suffix[1] \in Ports \cup {"entrypoint"}
         \/ Len(suffix) = 2 /\ suffix[2] = "scripts"
  <2>1. CASE suffix = <<>>
    <3>1. <<>> \in Seq({}) /\ Len(<<>>) = 0 OBVIOUS
    <3> QED BY <2>1, <3>1 DEF IsSequence
  <2>2. ASSUME NEW word \in Ports \cup {"entrypoint"}, suffix = <<word>>
        PROVE  IsSequence(suffix) /\ Len(suffix) = 1 /\ suffix[1] = word
    BY <2>2, OneCall
  <2>3. CASE suffix = <<"common", "scripts">>
    <3>1. suffix \in Seq({"common", "scripts"}) /\ Len(suffix) = 2 /\ suffix[2] = "scripts" BY <2>3
    <3> QED BY <3>1 DEF IsSequence
  <2>4. \/ suffix = <<>> \/ suffix = <<"common", "scripts">>
        \/ \E word \in Ports \cup {"entrypoint"} : suffix = <<word>>
    BY DEF NameSuffixes
  <2> QED BY <2>1, <2>2, <2>3, <2>4
<1>4. /\ Len(name) = Len(a) + Len(suffix)
      /\ \A n \in 1..Len(a) : name[n] = a[n]
      /\ \A n \in 1..Len(suffix) : name[Len(a) + n] = suffix[n]
  <2>1. IsSequence(a) BY <1>1 DEF IsSequence
  <2> QED BY <1>3, <2>1, Concatenation
<1> HIDE DEF name
<1>5. \A n \in 1..Len(i) : name[n] = i[n] BY <1>1, <1>2, <1>4
<1>6. name[Len(name)] \in Endings(suffix)
  <2>1. CASE Len(suffix) = 0 BY <1>1, <1>2, <1>4, <2>1 DEF Endings
  <2>2. CASE Len(suffix) = 1 BY <1>1, <1>3, <1>4, <2>2 DEF Endings
  <2>3. CASE Len(suffix) = 2 BY <1>1, <1>3, <1>4, <2>3 DEF Endings
  <2> QED BY <1>3, <2>1, <2>2, <2>3
<1> QED BY <1>1, <1>3, <1>4, <1>5, <1>6 DEF name, a

LEMMA NamesApart ==
  ASSUME NEW S, NEW i \in Seq(S), NEW j \in Seq(S), NEW key, OfInstance(key, i), OfInstance(key, j)
  PROVE  i = j
<1>1. PICK c \in Names, s1 \in NameSuffixes : key.name = Append(i, c) \o s1 BY DEF OfInstance
<1>2. PICK d \in Names, s2 \in NameSuffixes : key.name = Append(j, d) \o s2 BY DEF OfInstance
<1>3. /\ Len(s1) \in 0..2 /\ Len(i) \in Nat /\ Len(key.name) = Len(i) + 1 + Len(s1)
      /\ key.name[Len(key.name)] \in Endings(s1) /\ \A n \in 1..Len(i) : key.name[n] = i[n]
  BY <1>1, NameParts
<1>4. /\ Len(s2) \in 0..2 /\ Len(j) \in Nat /\ Len(key.name) = Len(j) + 1 + Len(s2)
      /\ key.name[Len(key.name)] \in Endings(s2) /\ \A n \in 1..Len(j) : key.name[n] = j[n]
  BY <1>2, NameParts
<1>5. Len(s1) = Len(s2)
  <2>1. \A word : ~(word \in Names /\ word \in Ports \cup {"entrypoint"}) BY DEF Names, Ports
  <2>2. "scripts" \notin Names \cup Ports \cup {"entrypoint"} BY DEF Names, Ports
  <2>3. Len(s1) \in {0, 1, 2} /\ Len(s2) \in {0, 1, 2} BY <1>3, <1>4
  <2> QED BY <1>3, <1>4, <2>1, <2>2, <2>3 DEF Endings
<1>6. Len(i) = Len(j) BY <1>3, <1>4, <1>5
<1>7. \A n \in 1..Len(i) : i[n] = j[n] BY <1>3, <1>4, <1>6
<1> QED BY <1>6, <1>7

\* Nor do two functions of one instance have the same Deployment.
LEMMA DeploymentsApart ==
  ASSUME NEW S, NEW i \in Seq(S), NEW j \in Seq(S), NEW c, NEW d,
         Key("Deployment", i, c, <<>>) = Key("Deployment", j, d, <<>>)
  PROVE  i = j /\ c = d
<1> DEFINE W == S \cup {c, d}
<1>1. i \in Seq(W) /\ j \in Seq(W) /\ c \in W /\ d \in W OBVIOUS
<1> HIDE DEF W
<1>2. Append(i, c) \in Seq(W) /\ Append(j, d) \in Seq(W) BY <1>1
<1>3. Append(i, c) \o <<>> = Append(j, d) \o <<>> BY DEF Key
<1>4. Append(i, c) = Append(j, d) BY <1>2, <1>3
<1>5. Len(i) + 1 = Len(j) + 1 /\ Len(i) \in Nat /\ Len(j) \in Nat BY <1>1, <1>4
<1>6. Append(i, c)[Len(i) + 1] = c /\ Append(j, d)[Len(j) + 1] = d BY <1>1
<1>7. \A n \in 1..Len(i) : Append(i, c)[n] = i[n] /\ Append(j, d)[n] = j[n] BY <1>1, <1>5
<1>8. \A n \in 1..Len(i) : i[n] = j[n] BY <1>4, <1>7
<1> QED BY <1>1, <1>4, <1>5, <1>6, <1>8

-------------------------------------------------------------------------------
(***************************************************************************)
(* What a pass writes into a ConfigMap is the configuration that its spec  *)
(* asks for; only the UPF has a second ConfigMap, of another name.         *)
(***************************************************************************)
Configures(step, s, i, functions) ==
  step.do \in Applies /\ step.key.kind = "ConfigMap" =>
    \/ step.key = EntrypointKey(i)
    \/ \E c \in functions : step.key = ConfigMapKey(i, c) /\ step.body.spec = ConfigMapData(s, c)
AllConfigure(calls, s, i, functions) ==
  IsSequence(calls) /\ \A n \in 1..Len(calls) : Configures(calls[n], s, i, functions)

LEMMA ConfigureTogether ==
  ASSUME NEW s, NEW i, NEW functions, NEW a, NEW b,
         AllConfigure(a, s, i, functions), AllConfigure(b, s, i, functions)
  PROVE  AllConfigure(a \o b, s, i, functions)
<1> DEFINE ab == a \o b
<1>1. IsSequence(a) /\ IsSequence(b) BY DEF AllConfigure
<1>2. /\ IsSequence(ab)
      /\ Len(a) \in Nat /\ Len(b) \in Nat /\ Len(ab) = Len(a) + Len(b)
      /\ \A n \in 1..Len(a) : ab[n] = a[n]
      /\ \A n \in 1..Len(b) : ab[Len(a) + n] = b[n]
      /\ \A n \in 1..Len(ab) : n \in 1..Len(a) \/ \E m \in 1..Len(b) : n = Len(a) + m
  BY <1>1, Concatenation
<1> HIDE DEF ab
<1>3. ASSUME NEW n \in 1..Len(ab) PROVE Configures(ab[n], s, i, functions)
  <2>1. CASE n \in 1..Len(a) BY <1>2, <2>1 DEF AllConfigure
  <2>2. ASSUME NEW m \in 1..Len(b), n = Len(a) + m PROVE Configures(ab[n], s, i, functions)
    BY <1>2, <2>2 DEF AllConfigure
  <2> QED BY <1>2, <2>1, <2>2
<1>4. AllConfigure(ab, s, i, functions) BY <1>2, <1>3 DEF AllConfigure
<1> QED BY <1>4 DEF ab

LEMMA CallsConfigure ==
  ASSUME NEW s, NEW i, NEW functions
  PROVE  /\ AllConfigure(<<>>, s, i, functions)
         /\ \A step : Configures(step, s, i, functions) => AllConfigure(<<step>>, s, i, functions)
         /\ \A step, next : Configures(step, s, i, functions) /\ Configures(next, s, i, functions)
              => AllConfigure(<<step, next>>, s, i, functions)
<1>1. <<>> \in Seq({}) /\ Len(<<>>) = 0 OBVIOUS
<1>2. AllConfigure(<<>>, s, i, functions) BY <1>1 DEF AllConfigure, IsSequence
<1>3. ASSUME NEW step, Configures(step, s, i, functions) PROVE AllConfigure(<<step>>, s, i, functions)
  <2>1. \A n \in 1..1 : <<step>>[n] = step BY OneCall
  <2> QED BY <1>3, <2>1, OneCall DEF AllConfigure
<1>4. ASSUME NEW step, NEW next, Configures(step, s, i, functions), Configures(next, s, i, functions)
      PROVE  AllConfigure(<<step, next>>, s, i, functions)
  <2>1. <<step, next>> \in Seq({step, next}) /\ Len(<<step, next>>) = 2 OBVIOUS
  <2>2. \A n \in 1..2 : <<step, next>>[n] \in {step, next} OBVIOUS
  <2> QED BY <1>4, <2>1, <2>2 DEF AllConfigure, IsSequence
<1> QED BY <1>2, <1>3, <1>4

\* Calls that apply no ConfigMap configure nothing.
LEMMA OthersConfigure ==
  ASSUME NEW s, NEW i, NEW functions
  PROVE  /\ \A step : step.do \notin Applies => Configures(step, s, i, functions)
         /\ \A object, kind : IsWanted(object, kind, i) /\ kind # "ConfigMap" =>
              /\ Configures(Apply(object), s, i, functions)
              /\ Configures(ApplyMonitor(object), s, i, functions)
         /\ \A kind, c, keep : /\ Configures(List(kind, i, c, keep), s, i, functions)
                               /\ Configures(ListOwned(i, c), s, i, functions)
                               /\ Configures(Delete(kind, i, c), s, i, functions)
         /\ Configures(LookUpMonitors, s, i, functions) /\ Configures(DeleteListed, s, i, functions)
<1>1. \A step : step.do \notin Applies => Configures(step, s, i, functions) BY DEF Configures
<1>2. /\ LookUpMonitors.do = "lookUpMonitors" /\ DeleteListed.do = "deleteListed"
      /\ \A kind, c, keep : /\ List(kind, i, c, keep).do = "list" /\ ListOwned(i, c).do = "listOwned"
                            /\ Delete(kind, i, c).do = "delete"
  BY DEF LookUpMonitors, DeleteListed, List, ListOwned, Delete, Step
<1>3. {"lookUpMonitors", "deleteListed", "list", "listOwned", "delete"} \cap Applies = {} BY DEF Applies
<1>4. ASSUME NEW object, NEW kind, IsWanted(object, kind, i), kind # "ConfigMap"
      PROVE  /\ Configures(Apply(object), s, i, functions)
             /\ Configures(ApplyMonitor(object), s, i, functions)
  <2>1. object.key.kind # "ConfigMap" BY <1>4 DEF IsWanted
  <2>2. Apply(object).key = object.key /\ ApplyMonitor(object).key = object.key BY DEF Apply, ApplyMonitor, Step
  <2> QED BY <2>1, <2>2 DEF Configures
<1> QED BY <1>1, <1>2, <1>3, <1>4

LEMMA ServicesConfigure ==
  ASSUME NEW s, NEW i, NEW c \in Names, NEW functions
  PROVE  AllConfigure(reconcileServices(s, i, c), s, i, functions)
<1> DEFINE services == Services(s, i, c)
           applyServices == [n \in DOMAIN services |-> Apply(services[n])]
           list == List("Service", i, c, {services[n].key : n \in DOMAIN services})
<1>1. PICK S : services \in Seq(S) BY ServiceFacts DEF IsSequence
<1>2. \A n \in 1..Len(services) : IsWanted(services[n], "Service", i) BY ServiceFacts
<1>3. /\ applyServices \in Seq({Apply(object) : object \in S}) /\ Len(applyServices) = Len(services)
      /\ \A n \in 1..Len(services) : applyServices[n] = Apply(services[n])
  <2> HIDE DEF services
  <2>1. DOMAIN services = 1..Len(services) /\ Len(services) \in Nat
        /\ \A n \in 1..Len(services) : services[n] \in S
    BY <1>1
  <2> QED BY <2>1
<1>4. AllConfigure(applyServices, s, i, functions)
  BY <1>2, <1>3, OthersConfigure DEF AllConfigure, IsSequence
<1>5. AllConfigure(<<list>>, s, i, functions) BY CallsConfigure, OthersConfigure
<1>6. AllConfigure(<<DeleteListed>>, s, i, functions) BY CallsConfigure, OthersConfigure
<1>7. reconcileServices(s, i, c) = <<list>> \o applyServices \o <<DeleteListed>> \o applyServices
  BY DEF reconcileServices
<1> HIDE DEF applyServices, list
<1>8. AllConfigure(<<list>> \o applyServices \o <<DeleteListed>>, s, i, functions)
  BY <1>4, <1>5, <1>6, ConfigureTogether
<1> QED BY <1>4, <1>7, <1>8, ConfigureTogether

LEMMA ComponentConfigures ==
  ASSUME NEW s, NEW i, NEW c \in Names, NEW functions, c \in functions
  PROVE  AllConfigure(reconcileComponent(s, i, c), s, i, functions)
<1> DEFINE f == s.functions[c]
           wantsMonitor == c \in Monitored /\ f.serviceMonitor
           p1 == IF wantsMonitor THEN <<LookUpMonitors>> ELSE <<>>
           p2 == <<Apply(ConfigMap(s, i, c)), Apply(Deployment(s, i, c))>>
           p3 == reconcileServices(s, i, c)
           p4 == IF wantsMonitor THEN <<ApplyMonitor(CreateServiceMonitor(i, c)), DeleteListed>>
                 ELSE <<List("ServiceMonitor", i, c, {}), DeleteListed>>
           p5 == IF c = "mongodb" THEN <<Apply(CreateMongoDBPVC(i))>> ELSE <<>>
           p6 == IF f.serviceAccount THEN <<Apply(CreateServiceAccount(i, c))>>
                 ELSE <<List("ServiceAccount", i, c, {}), DeleteListed>>
           Fit(p) == AllConfigure(p, s, i, functions)
<1>1. Fit(p1) BY CallsConfigure, OthersConfigure
<1>2. Fit(p2)
  <2>1. Configures(Apply(ConfigMap(s, i, c)), s, i, functions)
    <3>1. /\ Apply(ConfigMap(s, i, c)).key = ConfigMapKey(i, c)
          /\ Apply(ConfigMap(s, i, c)).body.spec = ConfigMapData(s, c)
      BY AppliesSoundly, ConfigMapFacts
    <3> QED BY <3>1 DEF Configures
  <2>2. Configures(Apply(Deployment(s, i, c)), s, i, functions) BY DeploymentFacts, OthersConfigure
  <2> QED BY <2>1, <2>2, CallsConfigure
<1>3. Fit(p3) BY ServicesConfigure
<1>4. Fit(p4)
  <2>1. IsWanted(CreateServiceMonitor(i, c), "ServiceMonitor", i)
    BY ObjectFacts, SuffixFacts DEF CreateServiceMonitor
  <2>2. Configures(ApplyMonitor(CreateServiceMonitor(i, c)), s, i, functions) BY <2>1, OthersConfigure
  <2> QED BY <2>2, CallsConfigure, OthersConfigure
<1>5. Fit(p5)
  <2>1. c = "mongodb" => IsWanted(CreateMongoDBPVC(i), "PersistentVolumeClaim", i)
    BY ObjectFacts, SuffixFacts DEF CreateMongoDBPVC
  <2>2. c = "mongodb" => Configures(Apply(CreateMongoDBPVC(i)), s, i, functions)
    BY <2>1, OthersConfigure
  <2> QED BY <2>2, CallsConfigure
<1>6. Fit(p6)
  <2>1. IsWanted(CreateServiceAccount(i, c), "ServiceAccount", i)
    BY ObjectFacts, SuffixFacts DEF CreateServiceAccount
  <2>2. Configures(Apply(CreateServiceAccount(i, c)), s, i, functions) BY <2>1, OthersConfigure
  <2> QED BY <2>2, CallsConfigure, OthersConfigure
<1>7. reconcileComponent(s, i, c) = p1 \o p2 \o p3 \o p4 \o p5 \o p6 BY DEF reconcileComponent
<1> HIDE DEF p1, p2, p3, p4, p5, p6
<1>8. Fit(p1 \o p2 \o p3) BY <1>1, <1>2, <1>3, ConfigureTogether
<1>9. Fit(p1 \o p2 \o p3 \o p4 \o p5) BY <1>4, <1>5, <1>8, ConfigureTogether
<1> QED BY <1>6, <1>7, <1>9, ConfigureTogether

LEMMA FunctionConfigures ==
  ASSUME NEW s, NEW i, NEW c \in Names, NEW functions, c \in functions
  PROVE  AllConfigure(Reconcile(s, i, c), s, i, functions)
<1> DEFINE Fit(p) == AllConfigure(p, s, i, functions)
<1>1. c = "upf" => Fit(reconcileUPF(s, i))
  <2>1. ApplyIgnoringErrors(EntrypointConfigMap(s, i)).key = EntrypointKey(i)
    BY DEF ApplyIgnoringErrors, Step, EntrypointConfigMap
  <2>2. Configures(ApplyIgnoringErrors(EntrypointConfigMap(s, i)), s, i, functions)
    BY <2>1 DEF Configures
  <2>3. Fit(<<ApplyIgnoringErrors(EntrypointConfigMap(s, i))>>) BY <2>2, CallsConfigure
  <2> QED BY <2>3, ComponentConfigures, ConfigureTogether DEF reconcileUPF
<1>2. Fit(deleteComponentResources(i, c))
  <2> DEFINE p1 == <<Delete("ConfigMap", i, c)>>
             p2 == <<Delete("Deployment", i, c)>>
             p3 == <<ListOwned(i, c), DeleteListed>>
             p4 == <<Delete("ServiceMonitor", i, c)>>
             p5 == <<Delete("PersistentVolumeClaim", i, c)>>
             p6 == <<Delete("ServiceAccount", i, c)>>
  <2>1. Fit(p1) /\ Fit(p2) /\ Fit(p3) /\ Fit(p4) /\ Fit(p5) /\ Fit(p6)
    BY CallsConfigure, OthersConfigure
  <2>2. deleteComponentResources(i, c) = p1 \o p2 \o p3 \o p4 \o p5 \o p6
    BY DEF deleteComponentResources
  <2> HIDE DEF p1, p2, p3, p4, p5, p6
  <2>3. Fit(p1 \o p2 \o p3 \o p4) BY <2>1, ConfigureTogether
  <2> QED BY <2>1, <2>2, <2>3, ConfigureTogether
<1> QED BY <1>1, <1>2, ComponentConfigures DEF Reconcile

LEMMA PassConfigures ==
  ASSUME NEW s, NEW i, NEW functions
  PROVE  AllConfigure(Pass(s, i, functions), s, i, functions)
<1> DEFINE Of == [c \in Names |-> IF c \in functions THEN Reconcile(s, i, c) ELSE <<>>]
           Fit(p) == AllConfigure(p, s, i, functions)
<1>1. \A c \in Names : Fit(Of[c]) BY FunctionConfigures, CallsConfigure
<1>2. Pass(s, i, functions) =
        Of["amf"] \o Of["ausf"] \o Of["bsf"] \o Of["nrf"] \o Of["nssf"] \o Of["smf"] \o Of["pcf"]
        \o Of["scp"] \o Of["udm"] \o Of["udr"] \o Of["upf"] \o Of["webui"] \o Of["mongodb"]
  BY DEF Pass, InOrder
<1>3. /\ Fit(Of["amf"]) /\ Fit(Of["ausf"]) /\ Fit(Of["bsf"]) /\ Fit(Of["nrf"]) /\ Fit(Of["nssf"])
      /\ Fit(Of["smf"]) /\ Fit(Of["pcf"]) /\ Fit(Of["scp"]) /\ Fit(Of["udm"]) /\ Fit(Of["udr"])
      /\ Fit(Of["upf"]) /\ Fit(Of["webui"]) /\ Fit(Of["mongodb"])
  BY <1>1 DEF Names
<1> HIDE DEF Of
<1>4. Fit(Of["amf"] \o Of["ausf"] \o Of["bsf"] \o Of["nrf"]) BY <1>3, ConfigureTogether
<1>5. Fit(Of["amf"] \o Of["ausf"] \o Of["bsf"] \o Of["nrf"] \o Of["nssf"] \o Of["smf"] \o Of["pcf"])
  BY <1>3, <1>4, ConfigureTogether
<1>6. Fit(Of["amf"] \o Of["ausf"] \o Of["bsf"] \o Of["nrf"] \o Of["nssf"] \o Of["smf"] \o Of["pcf"]
          \o Of["scp"] \o Of["udm"] \o Of["udr"])
  BY <1>3, <1>5, ConfigureTogether
<1> QED BY <1>2, <1>3, <1>6, ConfigureTogether

\* No two functions of an instance have the same ConfigMap, nor one that of the entrypoint.
LEMMA ConfigMapsApart ==
  ASSUME NEW S, NEW i \in Seq(S), NEW c \in Names, NEW d \in Names
  PROVE  /\ ConfigMapKey(i, c) # EntrypointKey(i)
         /\ ConfigMapKey(i, c) = ConfigMapKey(i, d) => c = d
         /\ ConfigMapKey(i, c).kind = "ConfigMap" /\ OfInstance(ConfigMapKey(i, c), i)
<1> DEFINE suffix(e) == IF e = "mongodb" THEN <<"common", "scripts">> ELSE <<>>
           name(e) == Append(i, e) \o suffix(e)
<1>1. Len(<<"common", "scripts">>) = 2 /\ Len(<<>>) = 0 /\ Len(<<"entrypoint">>) = 1 OBVIOUS
<1>2. \A e : suffix(e) \in NameSuffixes BY SuffixFacts
<1>3. \A e : ConfigMapKey(i, e) = Key("ConfigMap", i, e, suffix(e)) BY DEF ConfigMapKey
<1>4. \A e : ConfigMapKey(i, e).name = name(e) BY <1>3 DEF Key
<1>5. \A e \in Names : Len(name(e)) = Len(i) + 1 + Len(suffix(e)) BY <1>2, NameParts
<1>6. Len(i) \in Nat OBVIOUS
<1>7. ConfigMapKey(i, c) # EntrypointKey(i)
  <2>1. Len(EntrypointKey(i).name) = Len(i) + 1 + 1
    <3>1. "upf" \in Names BY DEF Names
    <3>2. EntrypointKey(i).name = Append(i, "upf") \o <<"entrypoint">> BY DEF EntrypointKey, Key
    <3> QED BY <1>1, <3>1, <3>2, SuffixFacts, NameParts
  <2>2. Len(ConfigMapKey(i, c).name) = Len(i) + 1 + Len(suffix(c)) BY <1>4, <1>5
  <2>3. Len(suffix(c)) # 1 BY <1>1
  <2>4. Len(suffix(c)) \in Nat BY <1>1
  <2> HIDE DEF suffix
  <2>5. \A m, n \in Nat : n # 1 => m + 1 + n # m + 1 + 1 OBVIOUS
  <2> QED BY <1>6, <2>1, <2>2, <2>3, <2>4, <2>5
<1>8. ASSUME ConfigMapKey(i, c) = ConfigMapKey(i, d) PROVE c = d
  <2>1. name(c) = name(d) BY <1>4, <1>8
  <2>2. Len(suffix(c)) = Len(suffix(d))
    <3>1. Len(suffix(c)) \in Nat /\ Len(suffix(d)) \in Nat BY <1>1
    <3>2. Len(i) + 1 + Len(suffix(c)) = Len(i) + 1 + Len(suffix(d)) BY <1>5, <2>1
    <3> HIDE DEF suffix
    <3> QED BY <1>6, <3>1, <3>2
  <2>3. c = "mongodb" <=> d = "mongodb" BY <1>1, <2>2
  <2>4. CASE c # "mongodb"
    <3>1. Append(i, c) \o <<>> = Append(i, d) \o <<>> BY <2>1, <2>3, <2>4
    <3>2. Key("Deployment", i, c, <<>>) = Key("Deployment", i, d, <<>>) BY <3>1 DEF Key
    <3> QED BY <3>2, DeploymentsApart
  <2> QED BY <2>3, <2>4
<1>9. ConfigMapKey(i, c).kind = "ConfigMap" /\ OfInstance(ConfigMapKey(i, c), i)
  <2>1. suffix(c) \in NameSuffixes /\ ConfigMapKey(i, c) = Key("ConfigMap", i, c, suffix(c)) BY <1>2, <1>3
  <2> HIDE DEF suffix
  <2> QED BY <2>1, KeyFacts
<1> QED BY <1>7, <1>8, <1>9

================================================================================
