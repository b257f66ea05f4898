-------------------------- MODULE Open5GSEditsProofs ---------------------------
(***************************************************************************)
(* What the controller can see of an edit, for every spec and instance.    *)
(* Each call of a pass asks for one of seven objects; two calls that name  *)
(* the same object differ in a compared field or not at all. The fields    *)
(* that are not compared (the "rest" of a body) are functions of the       *)
(* object's name, or of what goes into the hash of the configuration.      *)
(***************************************************************************)
EXTENDS Open5GSEdits, Open5GSPlanProofs

\* What a call for a function other than the UPF and the WebUI can ask for.
AsksConfigMap(step, s, i, c) ==
  step.key = ConfigMapKey(i, c) /\ step.body = Body(i, c, ConfigMapData(s, c), <<>>)
AsksDeployment(step, s, i, c) ==
  step.key = Key("Deployment", i, c, <<>>) /\ step.body = DeploymentBody(s, i, c)
AsksService(step, i, c) ==
  \E port \in Ports : \E type :
    /\ step.key = Key("Service", i, c, IF c = "mongodb" THEN <<>> ELSE <<port>>)
    /\ step.body = Body(i, c, type, IF c = "mongodb" THEN <<"mongodb">> ELSE <<port>>)
\* Of a monitor, a claim and an account nothing depends on the spec.
Fixed(kind, i, c) == Body(i, c, IF kind = "PersistentVolumeClaim" THEN <<"8Gi">> ELSE <<>>, <<>>)
AsksFixed(step, i, c) ==
  \E kind \in {"ServiceMonitor", "PersistentVolumeClaim", "ServiceAccount"} :
    step.key = Key(kind, i, c, <<>>) /\ step.body = Fixed(kind, i, c)

Asks(step, s, i, c) ==
  step.do \in Applies =>
    \/ AsksConfigMap(step, s, i, c) \/ AsksDeployment(step, s, i, c)
    \/ AsksService(step, i, c) \/ AsksFixed(step, i, c)

\* A pass whose every call asks for what the spec wants of the function.
AsksOnly(p, s, i, c) == IsSequence(p) /\ \A n \in 1..Len(p) : Asks(p[n], s, i, c)

-------------------------------------------------------------------------------
(* The calls. *)

LEMMA AsksConcatenation ==
  ASSUME NEW s, NEW i, NEW c, NEW p, NEW q, AsksOnly(p, s, i, c), AsksOnly(q, s, i, c)
  PROVE  AsksOnly(p \o q, s, i, c)
<1>1. /\ IsSequence(p \o q)
      /\ Len(p) \in Nat /\ Len(q) \in Nat /\ Len(p \o q) = Len(p) + Len(q)
      /\ \A n \in 1..Len(p) : (p \o q)[n] = p[n]
      /\ \A n \in 1..Len(q) : (p \o q)[Len(p) + n] = q[n]
      /\ \A n \in 1..Len(p \o q) : n \in 1..Len(p) \/ \E m \in 1..Len(q) : n = Len(p) + m
  BY Concatenation DEF AsksOnly
<1>2. ASSUME NEW n \in 1..Len(p \o q) PROVE Asks((p \o q)[n], s, i, c)
  <2>1. CASE n \in 1..Len(p) BY <1>1, <2>1 DEF AsksOnly
  <2>2. ASSUME NEW m \in 1..Len(q), n = Len(p) + m PROVE Asks((p \o q)[n], s, i, c)
    BY <1>1, <2>2 DEF AsksOnly
  <2> QED BY <1>1, <2>1, <2>2
<1> QED BY <1>1, <1>2 DEF AsksOnly

LEMMA NothingAsked == ASSUME NEW s, NEW i, NEW c PROVE AsksOnly(<<>>, s, i, c)
BY NoCalls DEF AsksOnly, IsPlan

LEMMA OneAsked ==
  ASSUME NEW s, NEW i, NEW c, NEW step, Asks(step, s, i, c)
  PROVE  AsksOnly(<<step>>, s, i, c)
BY OneCall DEF AsksOnly

LEMMA TwoAsked ==
  ASSUME NEW s, NEW i, NEW c, NEW step, NEW next, Asks(step, s, i, c), Asks(next, s, i, c)
  PROVE  AsksOnly(<<step, next>>, s, i, c)
<1>1. /\ <<step, next>> \in Seq({step, next}) /\ Len(<<step, next>>) = 2
      /\ <<step, next>>[1] = step /\ <<step, next>>[2] = next
  OBVIOUS
<1>2. \A n \in 1..2 : n = 1 \/ n = 2 OBVIOUS
<1> QED BY <1>1, <1>2 DEF AsksOnly, IsSequence

\* Look-ups, lists and deletions ask for nothing.
LEMMA OthersAskNothing ==
  ASSUME NEW s, NEW i, NEW c
  PROVE  /\ Asks(LookUpMonitors, s, i, c) /\ Asks(DeleteListed, s, i, c) /\ Asks(ListOwned(i, c), s, i, c)
         /\ \A kind : Asks(Delete(kind, i, c), s, i, c)
         /\ \A kind, keep : Asks(List(kind, i, c, keep), s, i, c)
BY DEF LookUpMonitors, DeleteListed, ListOwned, Delete, List, Step, Asks, Applies

LEMMA ApplyParts ==
  ASSUME NEW object
  PROVE  /\ Apply(object).key = object.key /\ Apply(object).body = object.body
         /\ ApplyMonitor(object).key = object.key /\ ApplyMonitor(object).body = object.body
BY DEF Apply, ApplyMonitor, Step

LEMMA ServicesAsked ==
  ASSUME NEW s, NEW i, NEW c
  PROVE  /\ IsSequence(Services(s, i, c))
         /\ \A n \in 1..Len(Services(s, i, c)) : Asks(Apply(Services(s, i, c)[n]), s, i, c)
<1> DEFINE f == s.functions[c]
           ports == ServicePorts(c) \o (IF c \in Monitored /\ f.metrics THEN <<"metrics">> ELSE <<>>)
           services == [n \in DOMAIN ports |-> CreateService(f, i, c, ports[n])]
<1>1. CASE c = "mongodb"
  <2>1. Services(s, i, c) = <<CreateMongoDBService(i)>> BY <1>1 DEF Services
  <2>2. "sbi" \in Ports BY DEF Ports
  <2>3. AsksService(Apply(CreateMongoDBService(i)), i, c)
    BY <1>1, <2>2, ApplyParts DEF AsksService, CreateMongoDBService
  <2>4. Asks(Apply(CreateMongoDBService(i)), s, i, c) BY <2>3 DEF Asks
  <2>5. \A n \in 1..1 : <<CreateMongoDBService(i)>>[n] = CreateMongoDBService(i) BY OneCall
  <2> QED BY <2>1, <2>4, <2>5, OneCall
<1>2. CASE c # "mongodb"
  <2>1. ports \in Seq(Ports)
    <3>1. <<"metrics">> \in Seq(Ports) /\ <<>> \in Seq(Ports) BY DEF Ports
    <3> QED BY <3>1, PortFacts
  <2>2. Services(s, i, c) = services BY <1>2 DEF Services
  <2> HIDE DEF ports
  <2>3. Len(ports) \in Nat /\ DOMAIN ports = 1..Len(ports) /\ \A n \in 1..Len(ports) : ports[n] \in Ports
    BY <2>1
  <2>4. /\ services \in Seq({CreateService(f, i, c, port) : port \in Ports})
        /\ Len(services) = Len(ports)
    BY <2>3
  <2>5. ASSUME NEW n \in 1..Len(ports) PROVE Asks(Apply(services[n]), s, i, c)
    <3>1. services[n] = CreateService(f, i, c, ports[n]) /\ ports[n] \in Ports BY <2>3
    <3>2. /\ Apply(services[n]).key = Key("Service", i, c, <<ports[n]>>)
          /\ Apply(services[n]).body = CreateService(f, i, c, ports[n]).body
      BY <3>1, ApplyParts DEF CreateService
    <3>3. \E type : CreateService(f, i, c, ports[n]).body = Body(i, c, type, <<ports[n]>>)
      BY DEF CreateService
    <3>4. AsksService(Apply(services[n]), i, c)
      BY <1>2, <3>1, <3>2, <3>3 DEF AsksService
    <3> QED BY <3>4 DEF Asks
  <2> QED BY <2>2, <2>4, <2>5 DEF IsSequence
<1> QED BY <1>1, <1>2

LEMMA ServicesStepAsked ==
  ASSUME NEW s, NEW i, NEW c
  PROVE  AsksOnly(reconcileServices(s, i, c), s, i, c)
<1> DEFINE services == Services(s, i, c)
           applyServices == [n \in DOMAIN services |-> Apply(services[n])]
           list == List("Service", i, c, {services[n].key : n \in DOMAIN services})
<1>1. PICK S : services \in Seq(S) BY ServicesAsked DEF IsSequence
<1>2. /\ applyServices \in Seq({Apply(object) : object \in S}) /\ Len(applyServices) = Len(services)
      /\ \A n \in 1..Len(services) : applyServices[n] = Apply(services[n])
  <2> HIDE DEF services
  <2>1. DOMAIN services = 1..Len(services) /\ Len(services) \in Nat
        /\ \A n \in 1..Len(services) : services[n] \in S
    BY <1>1
  <2> QED BY <2>1
<1>3. AsksOnly(applyServices, s, i, c) BY <1>2, ServicesAsked DEF AsksOnly, IsSequence
<1>4. reconcileServices(s, i, c) = <<list>> \o applyServices \o <<DeleteListed>> \o applyServices
  BY DEF reconcileServices
<1>5. Asks(list, s, i, c) BY OthersAskNothing
<1> HIDE DEF applyServices, list
<1>6. AsksOnly(<<list>>, s, i, c) /\ AsksOnly(<<DeleteListed>>, s, i, c)
  BY <1>5, OneAsked, OthersAskNothing
<1>7. AsksOnly(<<list>> \o applyServices \o <<DeleteListed>>, s, i, c)
  BY <1>3, <1>6, AsksConcatenation
<1> QED BY <1>3, <1>4, <1>7, AsksConcatenation

LEMMA ComponentAsked ==
  ASSUME NEW s, NEW i, NEW c
  PROVE  AsksOnly(reconcileComponent(s, i, c), s, i, c)
<1> DEFINE f == s.functions[c]
           wantsMonitor == c \in Monitored /\ f.serviceMonitor
           p1 == IF wantsMonitor THEN <<LookUpMonitors>> ELSE <<>>
           p2 == <<Apply(ConfigMap(s, i, c)), Apply(Deployment(s, i, c))>>
           p3 == reconcileServices(s, i, c)
           p4 == IF wantsMonitor THEN <<ApplyMonitor(CreateServiceMonitor(i, c)), DeleteListed>>
                 ELSE <<List("ServiceMonitor", i, c, {}), DeleteListed>>
           p5 == IF c = "mongodb" THEN <<Apply(CreateMongoDBPVC(i))>> ELSE <<>>
           p6 == IF f.serviceAccount THEN <<Apply(CreateServiceAccount(i, c))>>
                 ELSE <<List("ServiceAccount", i, c, {}), DeleteListed>>
<1>1. AsksOnly(p1, s, i, c) BY OthersAskNothing, OneAsked, NothingAsked
<1>2. AsksOnly(p2, s, i, c)
  <2>1. Asks(Apply(ConfigMap(s, i, c)), s, i, c)
    BY ApplyParts DEF Asks, AsksConfigMap, ConfigMap
  <2>2. Asks(Apply(Deployment(s, i, c)), s, i, c)
    BY ApplyParts DEF Asks, AsksDeployment, Deployment
  <2> QED BY <2>1, <2>2, TwoAsked
<1>3. AsksOnly(p3, s, i, c) BY ServicesStepAsked
<1>4. AsksOnly(p4, s, i, c)
  <2>1. Asks(ApplyMonitor(CreateServiceMonitor(i, c)), s, i, c)
    BY ApplyParts DEF Asks, AsksFixed, CreateServiceMonitor, Fixed
  <2> QED BY <2>1, OthersAskNothing, TwoAsked
<1>5. AsksOnly(p5, s, i, c)
  <2>1. c = "mongodb" => Asks(Apply(CreateMongoDBPVC(i)), s, i, c)
    BY ApplyParts DEF Asks, AsksFixed, CreateMongoDBPVC, Fixed
  <2> QED BY <2>1, OneAsked, NothingAsked
<1>6. AsksOnly(p6, s, i, c)
  <2>1. Asks(Apply(CreateServiceAccount(i, c)), s, i, c)
    BY ApplyParts DEF Asks, AsksFixed, CreateServiceAccount, Fixed
  <2> QED BY <2>1, OthersAskNothing, OneAsked, TwoAsked
<1>7. reconcileComponent(s, i, c) = p1 \o p2 \o p3 \o p4 \o p5 \o p6 BY DEF reconcileComponent
<1> HIDE DEF p1, p2, p3, p4, p5, p6
<1>8. AsksOnly(p1 \o p2 \o p3, s, i, c) BY <1>1, <1>2, <1>3, AsksConcatenation
<1>9. AsksOnly(p1 \o p2 \o p3 \o p4 \o p5, s, i, c) BY <1>4, <1>5, <1>8, AsksConcatenation
<1> QED BY <1>6, <1>7, <1>9, AsksConcatenation

LEMMA DeletionAsked ==
  ASSUME NEW s, NEW i, NEW c
  PROVE  AsksOnly(deleteComponentResources(i, c), s, i, c)
<1> DEFINE p1 == <<Delete("ConfigMap", i, c), Delete("Deployment", i, c)>>
           p2 == <<ListOwned(i, c), DeleteListed>>
           p3 == <<Delete("ServiceMonitor", i, c), Delete("PersistentVolumeClaim", i, c)>>
           p4 == <<Delete("ServiceAccount", i, c)>>
<1>1. /\ AsksOnly(p1, s, i, c) /\ AsksOnly(p2, s, i, c)
      /\ AsksOnly(p3, s, i, c) /\ AsksOnly(p4, s, i, c)
  BY OthersAskNothing, OneAsked, TwoAsked
<1>2. deleteComponentResources(i, c) = p1 \o p2 \o p3 \o p4
  BY DEF deleteComponentResources
<1> HIDE DEF p1, p2, p3, p4
<1>3. AsksOnly(p1 \o p2 \o p3, s, i, c) BY <1>1, AsksConcatenation
<1> QED BY <1>1, <1>2, <1>3, AsksConcatenation

LEMMA PassAsked ==
  ASSUME NEW s, NEW i, NEW c, c # "upf"
  PROVE  AsksOnly(Pass(s, i, {c}), s, i, c)
<1> DEFINE Of == [d \in Names |-> IF d \in {c} THEN Reconcile(s, i, d) ELSE <<>>]
<1>1. ASSUME NEW d \in Names PROVE AsksOnly(Of[d], s, i, c)
  <2>1. AsksOnly(Reconcile(s, i, c), s, i, c) BY ComponentAsked, DeletionAsked DEF Reconcile
  <2> QED BY <2>1, NothingAsked
<1>2. Pass(s, i, {c}) =
        Of["amf"] \o Of["ausf"] \o Of["bsf"] \o Of["nrf"] \o Of["nssf"] \o Of["smf"] \o Of["pcf"]
        \o Of["scp"] \o Of["udm"] \o Of["udr"] \o Of["upf"] \o Of["webui"] \o Of["mongodb"]
  BY DEF Pass, InOrder
<1>3. /\ "amf" \in Names /\ "ausf" \in Names /\ "bsf" \in Names /\ "nrf" \in Names /\ "nssf" \in Names
      /\ "smf" \in Names /\ "pcf" \in Names /\ "scp" \in Names /\ "udm" \in Names /\ "udr" \in Names
      /\ "upf" \in Names /\ "webui" \in Names /\ "mongodb" \in Names
  BY DEF Names
<1> HIDE DEF Of
<1>4. AsksOnly(Of["amf"] \o Of["ausf"] \o Of["bsf"] \o Of["nrf"], s, i, c)
  BY <1>1, <1>3, AsksConcatenation
<1>5. AsksOnly(Of["amf"] \o Of["ausf"] \o Of["bsf"] \o Of["nrf"] \o Of["nssf"] \o Of["smf"]
               \o Of["pcf"], s, i, c)
  BY <1>1, <1>3, <1>4, AsksConcatenation
<1>6. AsksOnly(Of["amf"] \o Of["ausf"] \o Of["bsf"] \o Of["nrf"] \o Of["nssf"] \o Of["smf"]
               \o Of["pcf"] \o Of["scp"] \o Of["udm"] \o Of["udr"], s, i, c)
  BY <1>1, <1>3, <1>5, AsksConcatenation
<1> QED BY <1>1, <1>2, <1>3, <1>6, AsksConcatenation

-------------------------------------------------------------------------------
(* What the controller compares. *)

\* Among what is printed into a configuration are the metrics, where there are any.
LEMMA LastPart ==
  ASSUME NEW x, NEW y, NEW a, NEW b,
         \/ a = <<x>> /\ b = <<y>>
         \/ \E u, v : a = <<u, x>> /\ b = <<v, y>>
  PROVE  a = b => x = y
OBVIOUS

LEMMA HashShowsMetrics ==
  ASSUME NEW s, NEW t, NEW c \in Monitored \ {"upf"}, ConfigMapData(s, c) = ConfigMapData(t, c)
  PROVE  s.functions[c].metrics = t.functions[c].metrics
<1> DEFINE x == s.functions[c].metrics
           y == t.functions[c].metrics
           a == ConfigMapData(s, c)
           b == ConfigMapData(t, c)
<1>1. \/ a = <<x>> /\ b = <<y>>
      \/ \E u, v : a = <<u, x>> /\ b = <<v, y>>
  <2>1. CASE c = "amf"
    <3>1. a = <<s.configuration, x>> /\ b = <<t.configuration, y>>
      BY <2>1, Zenon DEF ConfigMapData, CreateAMFConfigMap
    <3> QED BY <3>1
  <2>2. CASE c = "smf"
    <3>1. a = <<x>> /\ b = <<y>> BY <2>2, Zenon DEF ConfigMapData, CreateSMFConfigMap
    <3> QED BY <3>1
  <2>3. CASE c = "pcf"
    <3>1. a = <<x>> /\ b = <<y>> BY <2>3, Zenon DEF ConfigMapData, CreatePCFConfigMap
    <3> QED BY <3>1
  <2> QED BY <2>1, <2>2, <2>3 DEF Monitored
<1> HIDE DEF x, y, a, b
<1>2. a = b => x = y BY <1>1, LastPart
<1> QED BY <1>2 DEF x, y, a, b

\* What a Deployment has beyond the fields that are compared.
Uncompared(s, c) == IF c \in Monitored THEN <<s.functions[c].metrics>> ELSE <<>>

LEMMA UncomparedFollows ==
  ASSUME NEW s, NEW t, NEW c, c # "upf", ConfigMapData(s, c) = ConfigMapData(t, c)
  PROVE  Uncompared(s, c) = Uncompared(t, c)
<1>1. CASE c \in Monitored
  <2>1. s.functions[c].metrics = t.functions[c].metrics BY <1>1, HashShowsMetrics
  <2> QED BY <2>1 DEF Uncompared
<1>2. CASE c \notin Monitored BY <1>2 DEF Uncompared
<1> QED BY <1>1, <1>2

LEMMA DeploymentParts ==
  ASSUME NEW s, NEW i, NEW c, c \notin {"upf", "webui"}
  PROVE  LET body == DeploymentBody(s, i, c)
         IN  \E spec0 : body = [labels |-> [instance |-> i, name |-> c], annotations |-> Nil, spec |-> spec0,
                                rest |-> Uncompared(s, c), template |-> Nil, hash |-> ConfigMapData(s, c)]
<1> DEFINE plain == IF c = "mongodb" THEN CreateMongoDBDeployment(s, i) ELSE CreateDeployment(s, i, c)
<1>1. DeploymentBody(s, i, c) = [plain EXCEPT !.hash = ConfigMapData(s, c)] BY DEF DeploymentBody
<1>2. PICK spec0 : plain = Body(i, c, spec0, Uncompared(s, c))
  BY DEF CreateMongoDBDeployment, CreateDeployment, Uncompared, Monitored
<1> HIDE DEF plain
<1> QED BY <1>1, <1>2 DEF Body

LEMMA DeploymentShows ==
  ASSUME NEW s, NEW t, NEW S, NEW i \in Seq(S), NEW c, c \notin {"upf", "webui"},
         DeploymentBody(s, i, c) # DeploymentBody(t, i, c)
  PROVE  Drifted(Key("Deployment", i, c, <<>>), i, DeploymentBody(s, i, c), DeploymentBody(t, i, c))
<1> DEFINE a == DeploymentBody(s, i, c)
           b == DeploymentBody(t, i, c)
           key == Key("Deployment", i, c, <<>>)
<1>1. Policy(key, i) = reconcileDeployment
  <2>1. key # Key("Deployment", i, "upf", <<>>) BY DeploymentsApart
  <2>2. key.kind = "Deployment" BY DEF Key
  <2> QED BY <2>1, <2>2 DEF Policy, PolicyOfKind, IsUPFDeployment
<1> HIDE DEF a, b, key
<1>2. PICK x : a = [labels |-> [instance |-> i, name |-> c], annotations |-> Nil, spec |-> x,
                   rest |-> Uncompared(s, c), template |-> Nil, hash |-> ConfigMapData(s, c)]
  BY DeploymentParts DEF a
<1>3. PICK y : b = [labels |-> [instance |-> i, name |-> c], annotations |-> Nil, spec |-> y,
                   rest |-> Uncompared(t, c), template |-> Nil, hash |-> ConfigMapData(t, c)]
  BY DeploymentParts DEF b
<1>4. a.hash # b.hash \/ a.spec # b.spec
  <2> SUFFICES ASSUME a.hash = b.hash, a.spec = b.spec PROVE a = b BY DEF a, b
  <2>1. x = y /\ ConfigMapData(s, c) = ConfigMapData(t, c) BY <1>2, <1>3
  <2>2. Uncompared(s, c) = Uncompared(t, c) BY <2>1, UncomparedFollows
  <2> QED BY <1>2, <1>3, <2>1, <2>2
<1>5. "hash" \in Policy(key, i).compared /\ "spec" \in Policy(key, i).compared
  BY <1>1 DEF reconcileDeployment, deploymentEqual
<1>6. Drifted(key, i, a, b) BY <1>4, <1>5 DEF Drifted
<1> QED BY <1>6 DEF key, a, b

\* Bodies that differ at most in what is compared.
LEMMA SpecShows ==
  ASSUME NEW key, NEW i, NEW c, NEW x, NEW y, NEW rest,
         key.kind \in {"ConfigMap", "Service"}, Body(i, c, x, rest) # Body(i, c, y, rest)
  PROVE  Drifted(key, i, Body(i, c, x, rest), Body(i, c, y, rest))
<1>1. "spec" \in Policy(key, i).compared
  BY DEF Policy, PolicyOfKind, IsUPFDeployment, Key, reconcileConfigMap, reconcileService,
         configMapEqual, serviceEqual
<1>2. Body(i, c, x, rest).spec = x /\ Body(i, c, y, rest).spec = y /\ x # y BY DEF Body
<1> QED BY <1>1, <1>2 DEF Drifted

\* The key of a Service tells its port.
LEMMA PortOfKey ==
  ASSUME NEW S, NEW i \in Seq(S), NEW c, NEW p \in Ports, NEW q \in Ports,
         Key("Service", i, c, <<p>>) = Key("Service", i, c, <<q>>)
  PROVE  p = q
<1> DEFINE a == Append(i, c)
<1>1. a \in Seq(S \cup {c})
  <2>1. i \in Seq(S \cup {c}) OBVIOUS
  <2> QED BY <2>1
<1> HIDE DEF a
<1>2. IsSequence(a) /\ a \o <<p>> = a \o <<q>> BY <1>1 DEF IsSequence, Key, a
<1>3. /\ (a \o <<p>>)[Len(a) + 1] = <<p>>[1] /\ (a \o <<q>>)[Len(a) + 1] = <<q>>[1]
  <2>1. 1 \in 1..1 OBVIOUS
  <2> QED BY <1>2, <2>1, OneCall, Concatenation
<1> QED BY <1>2, <1>3, OneCall

LEMMA KindOfKey ==
  ASSUME NEW kind, NEW i, NEW c, NEW suffix
  PROVE  Key(kind, i, c, suffix).kind = kind
BY DEF Key

LEMMA CallsShow ==
  ASSUME NEW s, NEW t, NEW S, NEW i \in Seq(S), NEW c, c \notin {"upf", "webui"},
         NEW m, NEW n, m.do \in Applies, n.do \in Applies, Asks(m, s, i, c), Asks(n, t, i, c),
         m.key = n.key, m.body # n.body
  PROVE  Drifted(n.key, i, m.body, n.body)
<1> DEFINE FixedKinds == {"ServiceMonitor", "PersistentVolumeClaim", "ServiceAccount"}
<1>1. ASSUME NEW step, NEW r
      PROVE  /\ AsksConfigMap(step, r, i, c) => step.key.kind = "ConfigMap"
             /\ AsksDeployment(step, r, i, c) => step.key.kind = "Deployment"
             /\ AsksService(step, i, c) => step.key.kind = "Service"
             /\ AsksFixed(step, i, c) => step.key.kind \in FixedKinds
  <2>1. AsksConfigMap(step, r, i, c) => step.key.kind = "ConfigMap"
    BY KindOfKey DEF AsksConfigMap, ConfigMapKey
  <2>2. AsksDeployment(step, r, i, c) => step.key.kind = "Deployment"
    BY KindOfKey DEF AsksDeployment
  <2>3. AsksService(step, i, c) => step.key.kind = "Service"
    BY KindOfKey DEF AsksService
  <2>4. AsksFixed(step, i, c) => step.key.kind \in FixedKinds
    BY KindOfKey DEF AsksFixed
  <2> QED BY <2>1, <2>2, <2>3, <2>4
<1>2. CASE AsksConfigMap(m, s, i, c)
  <2>1. AsksConfigMap(n, t, i, c) BY <1>1, <1>2 DEF Asks
  <2>2. /\ m.body = Body(i, c, ConfigMapData(s, c), <<>>) /\ n.body = Body(i, c, ConfigMapData(t, c), <<>>)
        /\ n.key.kind = "ConfigMap"
    BY <1>1, <1>2, <2>1 DEF AsksConfigMap
  <2> QED BY <2>2, SpecShows
<1>3. CASE AsksDeployment(m, s, i, c)
  <2>1. AsksDeployment(n, t, i, c) BY <1>1, <1>3 DEF Asks
  <2> QED BY <1>3, <2>1, DeploymentShows DEF AsksDeployment
<1>4. CASE AsksService(m, i, c)
  <2>1. AsksService(n, i, c) BY <1>1, <1>4 DEF Asks
  <2>2. PICK p \in Ports : \E x :
          /\ m.key = Key("Service", i, c, IF c = "mongodb" THEN <<>> ELSE <<p>>)
          /\ m.body = Body(i, c, x, IF c = "mongodb" THEN <<"mongodb">> ELSE <<p>>)
    BY <1>4 DEF AsksService
  <2>3. PICK q \in Ports : \E y :
          /\ n.key = Key("Service", i, c, IF c = "mongodb" THEN <<>> ELSE <<q>>)
          /\ n.body = Body(i, c, y, IF c = "mongodb" THEN <<"mongodb">> ELSE <<q>>)
    BY <2>1 DEF AsksService
  <2>4. c # "mongodb" => p = q
    <3> SUFFICES ASSUME c # "mongodb" PROVE p = q OBVIOUS
    <3>1. Key("Service", i, c, <<p>>) = Key("Service", i, c, <<q>>) BY <2>2, <2>3
    <3> QED BY <3>1, PortOfKey
  <2>5. PICK x, y, rest : m.body = Body(i, c, x, rest) /\ n.body = Body(i, c, y, rest)
    BY <2>2, <2>3, <2>4
  <2>6. n.key.kind = "Service" BY <1>1, <2>1
  <2> QED BY <2>5, <2>6, SpecShows
<1>5. CASE AsksFixed(m, i, c)
  <2>1. AsksFixed(n, i, c) BY <1>1, <1>5 DEF Asks
  <2>2. PICK k : m.key = Key(k, i, c, <<>>) /\ m.body = Fixed(k, i, c) BY <1>5 DEF AsksFixed
  <2>3. PICK l : n.key = Key(l, i, c, <<>>) /\ n.body = Fixed(l, i, c) BY <2>1 DEF AsksFixed
  <2>4. m.key.kind = k BY <2>2, KindOfKey
  <2>5. n.key.kind = l BY <2>3, KindOfKey
  <2>6. k = l BY <2>4, <2>5
  <2> QED BY <2>2, <2>3, <2>6
<1> QED BY <1>2, <1>3, <1>4, <1>5 DEF Asks

ComponentLooked == component \in Looked

(***************************************************************************)
(* Of every function but the UPF and the WebUI an edit that changes a      *)
(* desired object is seen by the next pass (EditVisible): for any instance *)
(* and any two specs, and not only those that differ in one field.         *)
(***************************************************************************)
THEOREM EditsAreVisible ==
  ASSUME "upf" \notin Looked, "webui" \notin Looked
  PROVE  Spec => EditVisible
<1>1. Init => ComponentLooked BY DEF Init, ComponentLooked
<1>2. ComponentLooked /\ [Edit]_vars => ComponentLooked' BY DEF Edit, vars, ComponentLooked
<1>3. ComponentLooked /\ [Edit]_vars => NextPassSees
  <2> SUFFICES ASSUME component \in Looked, [Edit]_vars PROVE NextPassSees BY DEF ComponentLooked
  <2>1. component' = component /\ component \notin {"upf", "webui"} BY DEF Edit, vars
  <2> DEFINE s == setDefaultValues(spec)
             t == setDefaultValues(spec')
             before == Pass(s, Instance, {component})
             after == Pass(t, Instance, {component})
  <2>2. PassFor(spec) = before /\ PassFor(spec') = after BY <2>1 DEF PassFor
  <2>3. AsksOnly(before, s, Instance, component) /\ AsksOnly(after, t, Instance, component)
    BY <2>1, PassAsked
  <2> HIDE DEF before, after, s, t
  <2> SUFFICES ASSUME NEW n \in Desired(before), NEW m \in Desired(after),
                      before[n].key = after[m].key, before[n].body # after[m].body
               PROVE  Drifted(after[m].key, Instance, before[n].body, after[m].body)
    BY <2>2 DEF NextPassSees
  <2>4. Asks(before[n], s, Instance, component) /\ before[n].do \in Applies
    BY <2>3 DEF AsksOnly, Desired, IsSequence
  <2>5. Asks(after[m], t, Instance, component) /\ after[m].do \in Applies
    BY <2>3 DEF AsksOnly, Desired, IsSequence
  <2> QED BY <2>1, <2>4, <2>5, CallsShow, EditsAssumption
<1> QED BY <1>1, <1>2, <1>3, PTL DEF Spec, EditVisible

================================================================================
