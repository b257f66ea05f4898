---------------------- MODULE Open5GSUserManagersProofs ----------------------
(***************************************************************************)
(* Two managers at once, and calls that are executed after they were given *)
(* up: the documents of an IMSI stay bounded, for any number of users,     *)
(* instances, edits, crashes and failures.                                 *)
(*                                                                         *)
(* What is proved of one manager holds of the other one too: its proofs    *)
(* are those of Open5GSUserProofs, for its cache, queue and worker.        *)
(***************************************************************************)
EXTENDS Open5GSUserManagers, Open5GSUserProofs, FiniteSetTheorems

OtherProofs == INSTANCE Open5GSUserProofs WITH seen <- seen2, queue <- queue2, worker <- worker2

-------------------------------------------------------------------------------
(* The steps of the other manager, as Open5GSUserProofs knows them. *)

LEMMA SameDrift == \A p, doc : Other!hasDrift(p, doc) = OtherProofs!hasDrift(p, doc)
BY DEF Other!hasDrift, OtherProofs!hasDrift, Other!Itoa, OtherProofs!Itoa

LEMMA SameOperators ==
  /\ Other!Idle = OtherProofs!Idle /\ Other!Absent = OtherProofs!Absent
  /\ \A p : Other!AddedDocument(p) = OtherProofs!AddedDocument(p)
  /\ \A p, doc : Other!UpdatedDocument(p, doc) = OtherProofs!UpdatedDocument(p, doc)
  /\ \A p, found : Other!NextCall(p, found) = OtherProofs!NextCall(p, found)
  /\ \A object : Other!FirstStep(object) = OtherProofs!FirstStep(object)
  /\ \A u, spec : Other!GetOpen5GS(u, spec) = OtherProofs!GetOpen5GS(u, spec)
<1>1. Other!Idle = OtherProofs!Idle /\ Other!Absent = OtherProofs!Absent
  BY DEF Other!Idle, OtherProofs!Idle, Other!Absent, OtherProofs!Absent
<1>2. \A p : /\ Other!AddFails(p) = OtherProofs!AddFails(p)
            /\ Other!UpdateFails(p) = OtherProofs!UpdateFails(p)
  BY DEF Other!AddFails, OtherProofs!AddFails, Other!UpdateFails, OtherProofs!UpdateFails,
     Other!HasSlice, OtherProofs!HasSlice, Other!IsNumeric, OtherProofs!IsNumeric,
     Other!SetsSlice, OtherProofs!SetsSlice, Other!Unset, OtherProofs!Unset
<1>3. \A p : Other!AddedDocument(p) = OtherProofs!AddedDocument(p)
  BY DEF Other!AddedDocument, OtherProofs!AddedDocument, Other!HasSlice,
     OtherProofs!HasSlice, Other!Unset, OtherProofs!Unset, Other!addSubscriberWithSlice,
     OtherProofs!addSubscriberWithSlice, Other!addSubscriberWithAPN,
     OtherProofs!addSubscriberWithAPN, Other!addSubscriberWithDefaults,
     OtherProofs!addSubscriberWithDefaults, Other!NewDocument, OtherProofs!NewDocument,
     Other!BsonInteger, OtherProofs!BsonInteger, Other!DefaultSST, OtherProofs!DefaultSST,
     Other!DefaultAPN, OtherProofs!DefaultAPN
<1>4. \A p, doc : Other!UpdatedDocument(p, doc) = OtherProofs!UpdatedDocument(p, doc)
  BY DEF Other!UpdatedDocument, OtherProofs!UpdatedDocument, Other!SetsSlice,
     OtherProofs!SetsSlice, Other!Unset, OtherProofs!Unset, Other!BsonInteger,
     OtherProofs!BsonInteger
<1>5. ASSUME NEW p, NEW found PROVE Other!NextCall(p, found) = OtherProofs!NextCall(p, found)
  BY <1>2, SameDrift DEF Other!NextCall, OtherProofs!NextCall
<1>6. \A object : Other!FirstStep(object) = OtherProofs!FirstStep(object)
  BY DEF Other!FirstStep, OtherProofs!FirstStep
<1>7. \A u, spec : Other!GetOpen5GS(u, spec) = OtherProofs!GetOpen5GS(u, spec)
  BY DEF Other!GetOpen5GS, OtherProofs!GetOpen5GS, Other!Target, OtherProofs!Target
<1> QED BY <1>1, <1>3, <1>4, <1>5, <1>6, <1>7

LEMMA SameState ==
  /\ Other!user = OtherProofs!user /\ Other!profile = OtherProofs!profile
  /\ Other!Found = OtherProofs!Found
  /\ (Other!UpToDate <=> OtherProofs!UpToDate)
  /\ (Other!Reachable <=> OtherProofs!Reachable)
  /\ (Other!Answering <=> OtherProofs!Answering)
BY DEF Other!user, OtherProofs!user, Other!profile, OtherProofs!profile, Other!Found,
   OtherProofs!Found, Other!UpToDate, OtherProofs!UpToDate, Other!Reachable,
   OtherProofs!Reachable, Other!Answering, OtherProofs!Answering

LEMMA OtherManagerSteps == Other!Manager => OtherProofs!Manager
BY SameOperators DEF Other!Manager, OtherProofs!Manager, Other!Restart, OtherProofs!Restart,
   Other!SyncCache, OtherProofs!SyncCache, Other!Start, OtherProofs!Start, Other!StartGone,
   OtherProofs!StartGone, Other!Cached, OtherProofs!Cached, Other!cluster,
   OtherProofs!cluster, Other!Spend, OtherProofs!Spend

LEMMA OtherRequestFails == Other!RequestFails => OtherProofs!RequestFails
BY SameOperators, SameState DEF Other!RequestFails, OtherProofs!RequestFails,
   Other!Requeue, OtherProofs!Requeue, Other!Goto, OtherProofs!Goto, Other!Spend,
   OtherProofs!Spend, Other!cluster, OtherProofs!cluster

LEMMA OtherFaultsSteps == Other!Faults => OtherProofs!Faults
<1>1. Other!LookUpFails => OtherProofs!LookUpFails
  BY SameOperators, SameState DEF Other!LookUpFails, OtherProofs!LookUpFails, Other!Requeue,
     OtherProofs!Requeue, Other!Goto, OtherProofs!Goto, Other!Spend, OtherProofs!Spend,
     Other!cluster, OtherProofs!cluster
<1>2. Other!AddFinalizerReplyLost => OtherProofs!AddFinalizerReplyLost
  BY SameOperators, SameState DEF Other!AddFinalizerReplyLost,
     OtherProofs!AddFinalizerReplyLost, Other!Requeue, OtherProofs!Requeue, Other!Write,
     OtherProofs!Write, Other!Spend, OtherProofs!Spend, Other!cluster, OtherProofs!cluster
<1>3. Other!DeleteReplyLost => OtherProofs!DeleteReplyLost
  BY SameOperators, SameState DEF Other!DeleteReplyLost, OtherProofs!DeleteReplyLost,
     Other!Requeue, OtherProofs!Requeue, Other!SetDocs, OtherProofs!SetDocs, Other!Spend,
     OtherProofs!Spend, Other!cluster, OtherProofs!cluster
<1> QED BY OtherRequestFails, <1>1, <1>2, <1>3 DEF Other!Faults, OtherProofs!Faults

LEMMA OtherWorkerSteps == Other!Worker => OtherProofs!Worker
<1>1. Other!AddFinalizer => OtherProofs!AddFinalizer
  BY SameOperators, SameState DEF Other!AddFinalizer, OtherProofs!AddFinalizer, Other!Write,
     OtherProofs!Write, Other!cluster, OtherProofs!cluster
<1>2. Other!UpdateConflict => OtherProofs!UpdateConflict
  BY SameOperators, SameState DEF Other!UpdateConflict, OtherProofs!UpdateConflict,
     Other!Requeue, OtherProofs!Requeue, Other!cluster, OtherProofs!cluster
<1>3. Other!reconcileSubscriber => OtherProofs!reconcileSubscriber
  BY SameOperators, SameState DEF Other!reconcileSubscriber,
     OtherProofs!reconcileSubscriber, Other!Requeue, OtherProofs!Requeue, Other!Goto,
     OtherProofs!Goto, Other!cluster, OtherProofs!cluster
<1>4. Other!FindOne => OtherProofs!FindOne
  BY SameOperators, SameState DEF Other!FindOne, OtherProofs!FindOne, Other!Requeue,
     OtherProofs!Requeue, Other!Goto, OtherProofs!Goto, Other!cluster, OtherProofs!cluster
<1>5. Other!InsertOne => OtherProofs!InsertOne
  BY SameOperators, SameState DEF Other!InsertOne, OtherProofs!InsertOne, Other!Requeue,
     OtherProofs!Requeue, Other!SetDocs, OtherProofs!SetDocs, Other!cluster,
     OtherProofs!cluster
<1>6. Other!UpdateOne => OtherProofs!UpdateOne
  BY SameOperators, SameState DEF Other!UpdateOne, OtherProofs!UpdateOne, Other!Requeue,
     OtherProofs!Requeue, Other!SetDocs, OtherProofs!SetDocs, Other!cluster,
     OtherProofs!cluster
<1>7. Other!deleteSubscriber => OtherProofs!deleteSubscriber
  BY SameOperators, SameState DEF Other!deleteSubscriber, OtherProofs!deleteSubscriber,
     Other!Goto, OtherProofs!Goto, Other!cluster, OtherProofs!cluster
<1>8. Other!DeleteOne => OtherProofs!DeleteOne
  BY SameOperators, SameState DEF Other!DeleteOne, OtherProofs!DeleteOne, Other!Requeue,
     OtherProofs!Requeue, Other!Goto, OtherProofs!Goto, Other!SetDocs, OtherProofs!SetDocs,
     Other!cluster, OtherProofs!cluster
<1>9. Other!RemoveFinalizer => OtherProofs!RemoveFinalizer
  BY SameOperators, SameState DEF Other!RemoveFinalizer, OtherProofs!RemoveFinalizer,
     Other!Requeue, OtherProofs!Requeue, Other!Write, OtherProofs!Write, Other!cluster,
     OtherProofs!cluster
<1>10. Other!MongoUnreachable => OtherProofs!MongoUnreachable
  BY SameOperators, SameState DEF Other!MongoUnreachable, OtherProofs!MongoUnreachable,
     Other!Requeue, OtherProofs!Requeue, Other!cluster, OtherProofs!cluster
<1> QED
  BY <1>1, <1>2, <1>3, <1>4, <1>5, <1>6, <1>7, <1>8, <1>9, <1>10 DEF Other!Worker,
     OtherProofs!Worker

-------------------------------------------------------------------------------
LEMMA SameTypes ==
  /\ OtherProofs!Cores = Cores /\ OtherProofs!Object = Object /\ OtherProofs!Kinds = Kinds
  /\ OtherProofs!Document = Document /\ OtherProofs!UserSpec = UserSpec
  /\ OtherProofs!Unset = Unset
<1>1. OtherProofs!Cores = Cores /\ OtherProofs!Profile = Profile /\ OtherProofs!Kinds = Kinds
      /\ OtherProofs!Unset = Unset
  BY DEF OtherProofs!Cores, Cores, OtherProofs!Profile, Profile, OtherProofs!Kinds, Kinds,
         OtherProofs!Unset, Unset
<1>2. OtherProofs!UserSpec = UserSpec BY <1>1 DEF OtherProofs!UserSpec, UserSpec
<1>3. OtherProofs!Object = Object
  BY <1>2 DEF OtherProofs!Object, Object, OtherProofs!Existing, Existing, OtherProofs!Absent, Absent
<1>4. OtherProofs!StoredIntegers = StoredIntegers /\ OtherProofs!DefaultAPN = DefaultAPN
  BY DEF OtherProofs!StoredIntegers, StoredIntegers, OtherProofs!DefaultAPN, DefaultAPN
<1>5. OtherProofs!Document = Document BY <1>4 DEF OtherProofs!Document, Document
<1> QED BY <1>1, <1>2, <1>3, <1>5

LEMMA SameFails ==
  \A p : /\ OtherProofs!AddFails(p) <=> AddFails(p)
         /\ OtherProofs!UpdateFails(p) <=> UpdateFails(p)
BY DEF OtherProofs!AddFails, AddFails, OtherProofs!UpdateFails, UpdateFails, OtherProofs!HasSlice,
       HasSlice, OtherProofs!IsNumeric, IsNumeric, OtherProofs!SetsSlice, SetsSlice,
       OtherProofs!Unset, Unset

LEMMA SameShared ==
  /\ (OtherProofs!LogGrows <=> LogGrows) /\ (OtherProofs!FaultsCount <=> FaultsCount)
  /\ (OtherProofs!StoreType <=> StoreType) /\ (OtherProofs!UsedType <=> UsedType)
  /\ (OtherProofs!StoreType' <=> StoreType') /\ (OtherProofs!UsedType' <=> UsedType')
<1>1. OtherProofs!LogGrows <=> LogGrows
  BY SameTypes DEF OtherProofs!LogGrows, LogGrows, OtherProofs!Write, Write
<1>2. OtherProofs!FaultsCount <=> FaultsCount BY DEF OtherProofs!FaultsCount, FaultsCount
<1>3. OtherProofs!StoreType <=> StoreType BY SameTypes DEF OtherProofs!StoreType, StoreType
<1>4. OtherProofs!UsedType <=> UsedType BY SameTypes DEF OtherProofs!UsedType, UsedType
<1>5. OtherProofs!StoreType' <=> StoreType' BY SameTypes DEF OtherProofs!StoreType, StoreType
<1>6. OtherProofs!UsedType' <=> UsedType' BY SameTypes DEF OtherProofs!UsedType, UsedType
<1> QED BY <1>1, <1>2, <1>3, <1>4, <1>5, <1>6

\* One step of a manager, or of the world around both.
LEMMA ThisStep ==
  ASSUME ExternalDocuments = {}, TypeOK, Next
  PROVE  TypeOK' /\ LogGrows /\ DocumentsStep /\ FaultsCount
BY TypesStay, LogOnlyGrows, AddedByThePass, FaultsOnlyCount

LEMMA OtherStep ==
  ASSUME ExternalDocuments = {}, OtherProofs!TypeOK, OtherProofs!Next
  PROVE  OtherProofs!TypeOK' /\ LogGrows /\ OtherProofs!DocumentsStep /\ FaultsCount
<1> USE SubscriberAssumption, ResourceAssumption, UserAssumption, SameTypes
<1>1. OtherProofs!TypeOK' BY OtherProofs!TypesStay
<1>2. OtherProofs!LogGrows BY OtherProofs!LogOnlyGrows
<1>3. OtherProofs!DocumentsStep BY OtherProofs!AddedByThePass
<1>4. OtherProofs!FaultsCount BY OtherProofs!FaultsOnlyCount
<1> QED BY <1>1, <1>2, <1>3, <1>4, SameShared

LEMMA OtherStays ==
  ASSUME OtherProofs!TypeOK, LogGrows, UNCHANGED otherManager, StoreType', UsedType'
  PROVE  /\ OtherProofs!TypeOK'
         /\ \A i \in Cores, imsi \in IMSIs :
              OtherProofs!Adds(i, imsi)' <=> OtherProofs!Adds(i, imsi)
BY SubscriberAssumption, ResourceAssumption, UserAssumption, SameTypes, SameShared,
   OtherProofs!OnlookerStays DEF otherManager

-------------------------------------------------------------------------------
(***************************************************************************)
(* The calls that were given up keep to versions that existed; those that  *)
(* are yet to add a document are no more than the failures there were.     *)
(***************************************************************************)
Asked(call) == history[call.user][call.rv]
LateType ==
  /\ IsFiniteSet(late)
  /\ \A call \in late :
       /\ call.user \in Users /\ call.rv \in 1..Len(history[call.user])
       /\ Asked(call).present
       /\ call.pc = "InsertOne" => ~AddFails(Asked(call).spec.profile)
       /\ call.pc = "UpdateOne" => ~UpdateFails(Asked(call).spec.profile)
ManagersTyped == TypeOK /\ OtherProofs!TypeOK /\ LateType

LateAdds(i, imsi) ==
  {call \in late : /\ call.pc = "InsertOne" /\ call.core = i
                   /\ Asked(call).spec.profile.imsi = imsi}

(***************************************************************************)
(* The documents of an IMSI, and those about to be added, by the managers  *)
(* or by calls they gave up.                                               *)
(***************************************************************************)
One(holds) == IF holds THEN 1 ELSE 0
Counted == \A i \in Cores, imsi \in IMSIs :
  /\ Cardinality(LateAdds(i, imsi)) <= used["fault"]
  /\ Len(docs[i][imsi]) + One(Adds(i, imsi)) + One(OtherProofs!Adds(i, imsi))
       + Cardinality(LateAdds(i, imsi)) <= 2 + used["fault"]

ManagersInv == ManagersTyped /\ Counted

LEMMA VersionsStay ==
  ASSUME HistoryType, LogGrows, NEW u \in Users, NEW n \in 1..Len(history[u])
  PROVE  n \in 1..Len(history'[u]) /\ history'[u][n] = history[u][n]
<1>1. history \in [Users -> Seq(Object)] BY DEF HistoryType
<1>2. CASE UNCHANGED history BY <1>2
<1>3. ASSUME NEW v \in Users, NEW object \in Object, Write(v, object)
      PROVE  n \in 1..Len(history'[u]) /\ history'[u][n] = history[u][n]
  <2>1. /\ Len(history'[v]) = Len(history[v]) + 1
        /\ \A k \in 1..Len(history[v]) : history'[v][k] = history[v][k]
        /\ \A w \in Users \ {v} : history'[w] = history[w]
    BY <1>1, <1>3, WriteFacts
  <2>2. Len(history[u]) \in Nat BY <1>1
  <2>3. CASE u = v BY <2>1, <2>2, <2>3
  <2>4. CASE u # v BY <2>1, <2>4
  <2> QED BY <2>3, <2>4
<1> QED BY <1>2, <1>3 DEF LogGrows

\* Calls that were late before, and stay so.
LEMMA StaysLate ==
  ASSUME HistoryType, LateType, LogGrows, late' \subseteq late
  PROVE  LateType' /\ \A i \in Cores, imsi \in IMSIs : LateAdds(i, imsi)' = LateAdds(i, imsi) \cap late'
<1>1. ASSUME NEW call \in late
      PROVE  /\ call.user \in Users /\ call.rv \in 1..Len(history'[call.user])
             /\ history'[call.user][call.rv] = Asked(call)
  BY VersionsStay DEF LateType, Asked
<1>2. IsFiniteSet(late') BY FS_Subset DEF LateType
<1>3. LateType' BY <1>1, <1>2 DEF LateType, Asked
<1>4. ASSUME NEW i \in Cores, NEW imsi \in IMSIs
      PROVE  LateAdds(i, imsi)' = LateAdds(i, imsi) \cap late'
  BY <1>1 DEF LateAdds, Asked
<1> QED BY <1>3, <1>4

LEMMA LateAddsFinite ==
  ASSUME LateType, NEW i \in Cores, NEW imsi \in IMSIs
  PROVE  IsFiniteSet(LateAdds(i, imsi)) /\ Cardinality(LateAdds(i, imsi)) \in Nat
<1>1. LateAdds(i, imsi) \subseteq late BY DEF LateAdds
<1> QED BY <1>1, FS_Subset, FS_CardinalityType DEF LateType

LEMMA CountTypes ==
  ASSUME ManagersTyped, NEW i \in Cores, NEW imsi \in IMSIs
  PROVE  /\ docs[i][imsi] \in Seq(Document) /\ Len(docs[i][imsi]) \in Nat
         /\ used["fault"] \in Nat
         /\ Cardinality(LateAdds(i, imsi)) \in Nat
<1>1. docs \in [Cores -> [IMSIs -> Seq(Document)]] /\ used \in [Kinds -> Nat]
      /\ "fault" \in Kinds
  BY DEF ManagersTyped, TypeOK, StoreType, UsedType, Kinds
<1>2. Cardinality(LateAdds(i, imsi)) \in Nat BY LateAddsFinite DEF ManagersTyped
<1> QED BY <1>1, <1>2

(***************************************************************************)
(* The sum does not grow but where a manager comes upon no document, and   *)
(* then it is small.                                                       *)
(***************************************************************************)
LEMMA CountsAdd ==
  ASSUME NEW n \in Nat, NEW n2 \in Nat, NEW f \in Nat, NEW f2 \in Nat, NEW c \in Nat,
         NEW a \in {0, 1}, NEW a2 \in {0, 1}, NEW b \in {0, 1},
         c <= f, n + a + b + c <= 2 + f, f2 >= f,
         \/ n2 <= n /\ a2 <= a
         \/ n2 = n + 1 /\ a = 1 /\ a2 = 0
         \/ n2 = 0
  PROVE  c <= f2 /\ n2 + a2 + b + c <= 2 + f2 /\ n2 + b + a2 + c <= 2 + f2
OBVIOUS

\* A step of a manager as DocumentsStep has it, in numbers.
LEMMA StepCounts ==
  ASSUME NEW d \in Seq(Document), NEW d2 \in Seq(Document),
         NEW adds \in BOOLEAN, NEW adds2 \in BOOLEAN,
         \/ Len(d2) <= Len(d) /\ (adds2 => adds)
         \/ Len(d2) = Len(d) + 1 /\ adds /\ ~adds2
         \/ d = <<>> /\ d2 = <<>>
  PROVE  /\ One(adds) \in {0, 1} /\ One(adds2) \in {0, 1}
         /\ \/ Len(d2) <= Len(d) /\ One(adds2) <= One(adds)
            \/ Len(d2) = Len(d) + 1 /\ One(adds) = 1 /\ One(adds2) = 0
            \/ Len(d2) = 0
BY DEF One

\* Nothing late is executed or joins, and one of the managers moves at most.
LEMMA StepKeepsCount ==
  ASSUME ManagersTyped, Counted, ManagersTyped', LogGrows, FaultsCount, UNCHANGED late,
         \/ /\ DocumentsStep
            /\ \A i \in Cores, imsi \in IMSIs :
                 OtherProofs!Adds(i, imsi)' <=> OtherProofs!Adds(i, imsi)
         \/ /\ OtherProofs!DocumentsStep
            /\ \A i \in Cores, imsi \in IMSIs : Adds(i, imsi)' <=> Adds(i, imsi)
  PROVE  Counted'
<1> SUFFICES ASSUME NEW i \in Cores, NEW imsi \in IMSIs
    PROVE  /\ Cardinality(LateAdds(i, imsi)') <= used'["fault"]
           /\ Len(docs'[i][imsi]) + One(Adds(i, imsi)') + One(OtherProofs!Adds(i, imsi)')
                + Cardinality(LateAdds(i, imsi)') <= 2 + used'["fault"]
  BY DEF Counted
<1> DEFINE n == Len(docs[i][imsi])  n2 == Len(docs'[i][imsi])
           f == used["fault"]  f2 == used'["fault"]
           a == One(Adds(i, imsi))  a2 == One(Adds(i, imsi)')
           b == One(OtherProofs!Adds(i, imsi))  b2 == One(OtherProofs!Adds(i, imsi)')
           c == Cardinality(LateAdds(i, imsi))
<1>1. n \in Nat /\ f \in Nat /\ c \in Nat /\ docs[i][imsi] \in Seq(Document) BY CountTypes
<1>2. n2 \in Nat /\ f2 \in Nat /\ docs'[i][imsi] \in Seq(Document)
  BY DEF ManagersTyped, TypeOK, StoreType, UsedType, Kinds
<1>3. LateAdds(i, imsi)' = LateAdds(i, imsi)
  <2>1. LateAdds(i, imsi)' = LateAdds(i, imsi) \cap late'
    BY StaysLate DEF ManagersTyped, TypeOK
  <2> QED BY <2>1 DEF LateAdds
<1>4. f2 >= f BY DEF FaultsCount
<1>5. c <= f /\ n + a + b + c <= 2 + f BY DEF Counted
<1>6. /\ Adds(i, imsi) \in BOOLEAN /\ Adds(i, imsi)' \in BOOLEAN
      /\ OtherProofs!Adds(i, imsi) \in BOOLEAN /\ OtherProofs!Adds(i, imsi)' \in BOOLEAN
  BY DEF Adds, OtherProofs!Adds
<1>7. a \in {0, 1} /\ b \in {0, 1} BY DEF One
<1>8. CASE DocumentsStep /\ \A j \in Cores, m \in IMSIs :
             OtherProofs!Adds(j, m)' <=> OtherProofs!Adds(j, m)
  <2>1. b2 = b BY <1>8 DEF One
  <2>2. \/ n2 <= n /\ (Adds(i, imsi)' => Adds(i, imsi))
        \/ n2 = n + 1 /\ Adds(i, imsi) /\ ~Adds(i, imsi)'
        \/ docs[i][imsi] = <<>> /\ docs'[i][imsi] = <<>>
    BY <1>8 DEF DocumentsStep
  <2>3. /\ a2 \in {0, 1}
        /\ \/ n2 <= n /\ a2 <= a
           \/ n2 = n + 1 /\ a = 1 /\ a2 = 0
           \/ n2 = 0
    BY <1>1, <1>2, <1>6, <2>2, StepCounts
  <2> HIDE DEF n, n2, f, f2, a, a2, b, b2, c
  <2>4. c <= f2 /\ n2 + a2 + b + c <= 2 + f2
    BY <1>1, <1>2, <1>4, <1>5, <1>7, <2>3, CountsAdd
  <2> QED BY <1>3, <2>1, <2>4 DEF n2, f2, a2, b2, c
<1>9. CASE OtherProofs!DocumentsStep /\ \A j \in Cores, m \in IMSIs : Adds(j, m)' <=> Adds(j, m)
  <2>1. a2 = a BY <1>9 DEF One
  <2>2. \/ n2 <= n /\ (OtherProofs!Adds(i, imsi)' => OtherProofs!Adds(i, imsi))
        \/ n2 = n + 1 /\ OtherProofs!Adds(i, imsi) /\ ~OtherProofs!Adds(i, imsi)'
        \/ docs[i][imsi] = <<>> /\ docs'[i][imsi] = <<>>
    BY <1>9, SameTypes DEF OtherProofs!DocumentsStep
  <2>3. /\ b2 \in {0, 1}
        /\ \/ n2 <= n /\ b2 <= b
           \/ n2 = n + 1 /\ b = 1 /\ b2 = 0
           \/ n2 = 0
    BY <1>1, <1>2, <1>6, <2>2, StepCounts
  <2> HIDE DEF n, n2, f, f2, a, a2, b, b2, c
  <2>4. n + b + a + c <= 2 + f BY <1>1, <1>5, <1>7
  <2>5. c <= f2 /\ n2 + a + b2 + c <= 2 + f2
    BY <1>1, <1>2, <1>4, <1>5, <1>7, <2>3, <2>4, CountsAdd
  <2> QED BY <1>3, <2>1, <2>5 DEF n2, f2, a2, b2, c
<1> QED BY <1>8, <1>9

(***************************************************************************)
(* The steps.                                                              *)
(***************************************************************************)
LEMMA ThisMoves ==
  ASSUME ExternalDocuments = {}, ManagersInv, Next, UNCHANGED <<otherManager, late>>
  PROVE  ManagersInv'
<1>1. TypeOK' /\ LogGrows /\ DocumentsStep /\ FaultsCount
  BY ThisStep DEF ManagersInv, ManagersTyped
<1>2. /\ OtherProofs!TypeOK'
      /\ \A i \in Cores, imsi \in IMSIs :
           OtherProofs!Adds(i, imsi)' <=> OtherProofs!Adds(i, imsi)
  BY <1>1, OtherStays DEF ManagersInv, ManagersTyped, TypeOK
<1>3. LateType' BY <1>1, StaysLate DEF ManagersInv, ManagersTyped, TypeOK
<1> QED BY <1>1, <1>2, <1>3, StepKeepsCount DEF ManagersInv, ManagersTyped

LEMMA OtherMoves ==
  ASSUME ExternalDocuments = {}, ManagersInv, OtherProofs!Next, UNCHANGED <<thisManager, late>>
  PROVE  ManagersInv'
<1>1. OtherProofs!TypeOK' /\ LogGrows /\ OtherProofs!DocumentsStep /\ FaultsCount
  BY OtherStep DEF ManagersInv, ManagersTyped
<1>2. StoreType' /\ UsedType' BY <1>1, SameShared DEF OtherProofs!TypeOK
<1>3. TypeOK' /\ \A i \in Cores, imsi \in IMSIs : Adds(i, imsi)' <=> Adds(i, imsi)
  BY <1>1, <1>2, OnlookerStays DEF ManagersInv, ManagersTyped, thisManager
<1>4. LateType' BY <1>1, StaysLate DEF ManagersInv, ManagersTyped, TypeOK
<1> QED BY <1>1, <1>3, <1>4, StepKeepsCount DEF ManagersInv, ManagersTyped

\* A call of a pass that is given up was about to add what the pass was.
LEMMA OneMoreLate ==
  ASSUME LateType, UNCHANGED history, NEW call, late' = late \cup {call},
         call.user \in Users, call.rv \in 1..Len(history[call.user]), Asked(call).present,
         call.pc = "InsertOne" => ~AddFails(Asked(call).spec.profile),
         call.pc = "UpdateOne" => ~UpdateFails(Asked(call).spec.profile)
  PROVE  /\ LateType'
         /\ \A i \in Cores, imsi \in IMSIs :
              Cardinality(LateAdds(i, imsi)')
                <= Cardinality(LateAdds(i, imsi))
                   + One(/\ call.pc = "InsertOne" /\ call.core = i
                         /\ Asked(call).spec.profile.imsi = imsi)
<1>1. IsFiniteSet(late') BY FS_AddElement DEF LateType
<1>2. LateType' BY <1>1 DEF LateType, Asked
<1>3. ASSUME NEW i \in Cores, NEW imsi \in IMSIs
      PROVE  Cardinality(LateAdds(i, imsi)')
               <= Cardinality(LateAdds(i, imsi))
                  + One(/\ call.pc = "InsertOne" /\ call.core = i
                        /\ Asked(call).spec.profile.imsi = imsi)
  <2> DEFINE adds == /\ call.pc = "InsertOne" /\ call.core = i
                     /\ Asked(call).spec.profile.imsi = imsi
  <2>1. LateAdds(i, imsi)' = IF adds THEN LateAdds(i, imsi) \cup {call} ELSE LateAdds(i, imsi)
    BY DEF LateAdds, Asked
  <2>2. IsFiniteSet(LateAdds(i, imsi)) /\ Cardinality(LateAdds(i, imsi)) \in Nat
    BY LateAddsFinite
  <2> HIDE DEF adds
  <2>3. ASSUME adds
        PROVE  Cardinality(LateAdds(i, imsi)') <= Cardinality(LateAdds(i, imsi)) + One(adds)
    <3>1. \/ Cardinality(LateAdds(i, imsi) \cup {call}) = Cardinality(LateAdds(i, imsi))
          \/ Cardinality(LateAdds(i, imsi) \cup {call}) = Cardinality(LateAdds(i, imsi)) + 1
      BY <2>2, FS_AddElement
    <3>2. One(adds) = 1 /\ LateAdds(i, imsi)' = LateAdds(i, imsi) \cup {call}
      BY <2>1, <2>3 DEF One
    <3> QED BY <2>2, <3>1, <3>2
  <2>4. ASSUME ~adds
        PROVE  Cardinality(LateAdds(i, imsi)') <= Cardinality(LateAdds(i, imsi)) + One(adds)
    BY <2>1, <2>2, <2>4 DEF One
  <2> QED BY <2>3, <2>4 DEF adds
<1> QED BY <1>2, <1>3

\* A call given up: what the manager was to add, the call is.
LEMMA GivenUpAdds ==
  ASSUME NEW n \in Nat, NEW f \in Nat, NEW c \in Nat, NEW c2 \in Nat,
         NEW a \in {0, 1}, NEW b \in {0, 1},
         c <= f, n + a + b + c <= 2 + f, c2 <= c + a
  PROVE  c2 <= f + 1 /\ n + 0 + b + c2 <= 2 + (f + 1) /\ n + b + 0 + c2 <= 2 + (f + 1)
OBVIOUS

LEMMA GivenUpCounts ==
  ASSUME ManagersTyped, Counted, ManagersTyped', UNCHANGED docs,
         used' = [used EXCEPT !["fault"] = @ + 1],
         \/ \A i \in Cores, imsi \in IMSIs :
              /\ ~Adds(i, imsi)' /\ (OtherProofs!Adds(i, imsi)' <=> OtherProofs!Adds(i, imsi))
              /\ Cardinality(LateAdds(i, imsi)')
                   <= Cardinality(LateAdds(i, imsi)) + One(Adds(i, imsi))
         \/ \A i \in Cores, imsi \in IMSIs :
              /\ ~OtherProofs!Adds(i, imsi)' /\ (Adds(i, imsi)' <=> Adds(i, imsi))
              /\ Cardinality(LateAdds(i, imsi)')
                   <= Cardinality(LateAdds(i, imsi)) + One(OtherProofs!Adds(i, imsi))
  PROVE  Counted'
<1> SUFFICES ASSUME NEW i \in Cores, NEW imsi \in IMSIs
    PROVE  /\ Cardinality(LateAdds(i, imsi)') <= used'["fault"]
           /\ Len(docs'[i][imsi]) + One(Adds(i, imsi)') + One(OtherProofs!Adds(i, imsi)')
                + Cardinality(LateAdds(i, imsi)') <= 2 + used'["fault"]
  BY DEF Counted
<1> DEFINE n == Len(docs[i][imsi])  f == used["fault"]
           a == One(Adds(i, imsi))  b == One(OtherProofs!Adds(i, imsi))
           c == Cardinality(LateAdds(i, imsi))  c2 == Cardinality(LateAdds(i, imsi)')
<1>1. n \in Nat /\ f \in Nat /\ c \in Nat BY CountTypes
<1>2. c2 \in Nat
  <2>1. LateAdds(i, imsi)' \subseteq late' BY DEF LateAdds
  <2> QED BY <2>1, FS_Subset, FS_CardinalityType DEF ManagersTyped, LateType
<1>3. a \in {0, 1} /\ b \in {0, 1} BY DEF One
<1>4. c <= f /\ n + a + b + c <= 2 + f BY DEF Counted
<1>5. used'["fault"] = f + 1 BY DEF ManagersTyped, TypeOK, UsedType, Kinds
<1>6. ASSUME ~Adds(i, imsi)', OtherProofs!Adds(i, imsi)' <=> OtherProofs!Adds(i, imsi), c2 <= c + a
      PROVE  c2 <= f + 1 /\ n + One(Adds(i, imsi)') + One(OtherProofs!Adds(i, imsi)') + c2 <= 2 + (f + 1)
  <2>1. One(Adds(i, imsi)') = 0 /\ One(OtherProofs!Adds(i, imsi)') = b BY <1>6 DEF One
  <2> HIDE DEF n, f, a, b, c, c2
  <2>2. c2 <= f + 1 /\ n + 0 + b + c2 <= 2 + (f + 1)
    BY <1>1, <1>2, <1>3, <1>4, <1>6, GivenUpAdds
  <2> QED BY <2>1, <2>2
<1>7. ASSUME ~OtherProofs!Adds(i, imsi)', Adds(i, imsi)' <=> Adds(i, imsi), c2 <= c + b
      PROVE  c2 <= f + 1 /\ n + One(Adds(i, imsi)') + One(OtherProofs!Adds(i, imsi)') + c2 <= 2 + (f + 1)
  <2>1. One(OtherProofs!Adds(i, imsi)') = 0 /\ One(Adds(i, imsi)') = a BY <1>7 DEF One
  <2> HIDE DEF n, f, a, b, c, c2
  <2>2. n + b + a + c <= 2 + f BY <1>1, <1>3, <1>4
  <2>3. c2 <= f + 1 /\ n + a + 0 + c2 <= 2 + (f + 1)
    BY <1>1, <1>2, <1>3, <1>4, <1>7, <2>2, GivenUpAdds
  <2> QED BY <2>1, <2>3
<1> QED BY <1>5, <1>6, <1>7

LEMMA GiveUpKeeps ==
  ASSUME ExternalDocuments = {}, ManagersInv, GiveUp
  PROVE  ManagersInv'
<1>1. TypeOK' /\ LogGrows BY ThisStep DEF ManagersInv, ManagersTyped, GiveUp, Next, Faults
<1>2. /\ OtherProofs!TypeOK'
      /\ \A i \in Cores, imsi \in IMSIs :
           OtherProofs!Adds(i, imsi)' <=> OtherProofs!Adds(i, imsi)
  BY <1>1, OtherStays DEF ManagersInv, ManagersTyped, TypeOK, GiveUp
<1>3. /\ UNCHANGED <<history, docs>> /\ worker'.pc = "idle" /\ worker.pc # "idle"
      /\ late' = late \cup {worker} /\ used' = [used EXCEPT !["fault"] = @ + 1]
  BY DEF GiveUp, RequestFails, Requeue, Idle, Spend, Writes
<1>4. /\ worker.user \in Users /\ worker.rv \in 1..Len(history[worker.user])
      /\ Asked(worker) = user /\ user.present
      /\ worker.pc = "InsertOne" => ~AddFails(user.spec.profile)
      /\ worker.pc = "UpdateOne" => ~UpdateFails(user.spec.profile)
  BY <1>3 DEF ManagersInv, ManagersTyped, TypeOK, WorkerType, user, profile, Asked
<1>5. /\ LateType'
      /\ \A i \in Cores, imsi \in IMSIs :
           Cardinality(LateAdds(i, imsi)') <= Cardinality(LateAdds(i, imsi)) + One(Adds(i, imsi))
  BY <1>3, <1>4, OneMoreLate DEF ManagersInv, ManagersTyped, Adds, profile
<1>6. \A i \in Cores, imsi \in IMSIs : ~Adds(i, imsi)' BY <1>3 DEF Adds
<1> QED BY <1>1, <1>2, <1>3, <1>5, <1>6, GivenUpCounts DEF ManagersInv, ManagersTyped

LEMMA OtherGivesUpKeeps ==
  ASSUME ExternalDocuments = {}, ManagersInv, OtherGivesUp
  PROVE  ManagersInv'
<1>1. OtherProofs!RequestFails BY OtherRequestFails DEF OtherGivesUp
<1>2. OtherProofs!TypeOK' /\ LogGrows
  BY <1>1, OtherStep DEF ManagersInv, ManagersTyped, OtherProofs!Next, OtherProofs!Faults
<1>3. StoreType' /\ UsedType' BY <1>2, SameShared DEF OtherProofs!TypeOK
<1>4. TypeOK' /\ \A i \in Cores, imsi \in IMSIs : Adds(i, imsi)' <=> Adds(i, imsi)
  BY <1>2, <1>3, OnlookerStays DEF ManagersInv, ManagersTyped, OtherGivesUp, thisManager
<1>5. /\ UNCHANGED <<history, docs>> /\ worker2'.pc = "idle" /\ worker2.pc # "idle"
      /\ late' = late \cup {worker2} /\ used' = [used EXCEPT !["fault"] = @ + 1]
  BY <1>1 DEF OtherGivesUp, OtherProofs!RequestFails, OtherProofs!Requeue, OtherProofs!Idle,
              OtherProofs!Spend, Writes
<1>6. /\ worker2.user \in Users /\ worker2.rv \in 1..Len(history[worker2.user])
      /\ Asked(worker2) = OtherProofs!user /\ OtherProofs!user.present
      /\ worker2.pc = "InsertOne" => ~AddFails(OtherProofs!user.spec.profile)
      /\ worker2.pc = "UpdateOne" => ~UpdateFails(OtherProofs!user.spec.profile)
  BY <1>5, SameFails
     DEF ManagersInv, ManagersTyped, OtherProofs!TypeOK, OtherProofs!WorkerType,
         OtherProofs!user, OtherProofs!profile, Asked
<1>7. /\ LateType'
      /\ \A i \in Cores, imsi \in IMSIs :
           Cardinality(LateAdds(i, imsi)')
             <= Cardinality(LateAdds(i, imsi)) + One(OtherProofs!Adds(i, imsi))
  BY <1>5, <1>6, OneMoreLate
     DEF ManagersInv, ManagersTyped, OtherProofs!Adds, OtherProofs!profile
<1>8. \A i \in Cores, imsi \in IMSIs : ~OtherProofs!Adds(i, imsi)' BY <1>5 DEF OtherProofs!Adds
<1> QED BY <1>2, <1>4, <1>5, <1>7, <1>8, GivenUpCounts DEF ManagersInv, ManagersTyped

(***************************************************************************)
(* A late call is executed: it adds a document if it was to add one, and   *)
(* is late no more.                                                        *)
(***************************************************************************)
LEMMA WrittenFacts ==
  ASSUME NEW p \in Profile, NEW pc, NEW found \in Seq(Document),
         pc = "InsertOne" => ~AddFails(p), pc = "UpdateOne" => ~UpdateFails(p)
  PROVE  /\ Written(pc, p, found) \in Seq(Document)
         /\ pc = "InsertOne" => Len(Written(pc, p, found)) = Len(found) + 1
         /\ pc # "InsertOne" => Len(Written(pc, p, found)) <= Len(found)
<1>1. CASE pc = "InsertOne"
  <2>1. AddedDocument(p) \in Document BY <1>1, AddedDocumentType
  <2>2. Written(pc, p, found) = Append(found, AddedDocument(p)) BY <1>1 DEF Written
  <2> QED BY <1>1, <2>1, <2>2, AppendFacts
<1>2. CASE pc # "InsertOne" /\ found = <<>> BY <1>2 DEF Written
<1>3. CASE pc = "UpdateOne" /\ found # <<>>
  <2>1. UpdatedDocument(p, Head(found)) \in Document
    BY <1>3, NonemptyFacts, UpdatedDocumentType
  <2>2. Written(pc, p, found) = <<UpdatedDocument(p, Head(found))>> \o Tail(found)
    BY <1>3 DEF Written
  <2>3. Tail(found) \in Seq(Document) BY <1>3, NonemptyFacts
  <2> QED BY <1>3, <2>1, <2>2, <2>3, ReplaceHeadType, LengthFacts
<1>4. CASE pc \notin {"InsertOne", "UpdateOne"} /\ found # <<>>
  <2>1. Written(pc, p, found) = Tail(found) BY <1>4 DEF Written
  <2>2. Head(found) \in Document BY <1>4, NonemptyFacts
  <2> QED BY <1>4, <2>1, <2>2, NonemptyFacts, LengthFacts
<1> QED BY <1>1, <1>2, <1>3, <1>4

LEMMA LateAdded ==
  ASSUME NEW n \in Nat, NEW n2 \in Nat, NEW f \in Nat, NEW c \in Nat, NEW c2 \in Nat,
         NEW a \in {0, 1}, NEW b \in {0, 1}, c <= f, n + a + b + c <= 2 + f,
         \/ n2 <= n /\ c2 <= c
         \/ n2 = n + 1 /\ c2 = c - 1
  PROVE  c2 <= f /\ n2 + a + b + c2 <= 2 + f
OBVIOUS

LEMMA LateCallKeeps ==
  ASSUME ManagersInv, LateCall
  PROVE  ManagersInv'
<1>1. PICK call \in late :
        LET p == Asked(call).spec.profile
        IN  /\ call.core \in serving
            /\ SetDocs(call.core, p.imsi, Written(call.pc, p, docs[call.core][p.imsi]))
            /\ late' = late \ {call}
            /\ UNCHANGED <<history, thisManager, otherManager, cluster, used>>
  BY DEF LateCall, Asked
<1> DEFINE p == Asked(call).spec.profile
           found == docs[call.core][p.imsi]
           written == Written(call.pc, p, found)
<1>2. TypeOK /\ OtherProofs!TypeOK /\ LateType /\ Counted /\ HistoryType /\ StoreType
  BY DEF ManagersInv, ManagersTyped, TypeOK
<1>3. LogGrows BY <1>1 DEF LogGrows
<1>4. p \in Profile /\ p.imsi \in IMSIs
      /\ (call.pc = "InsertOne" => ~AddFails(p)) /\ (call.pc = "UpdateOne" => ~UpdateFails(p))
  <2>1. Asked(call) \in Object /\ Asked(call).present
    BY <1>2 DEF HistoryType, LateType, Asked
  <2>2. Asked(call) \in Existing BY <2>1, ObjectTypes
  <2>3. p \in Profile BY <2>2 DEF Existing, UserSpec
  <2> QED BY <1>2, <2>3 DEF LateType, Profile
<1>5. call.core \in Cores /\ found \in Seq(Document) BY <1>1, <1>2, <1>4 DEF StoreType
<1>6. /\ written \in Seq(Document)
      /\ call.pc = "InsertOne" => Len(written) = Len(found) + 1
      /\ call.pc # "InsertOne" => Len(written) <= Len(found)
  <2> HIDE DEF p, found
  <2> QED BY <1>4, <1>5, WrittenFacts
<1>7. SetDocs(call.core, p.imsi, written) BY <1>1
<1>8. \A j \in Cores, m \in IMSIs :
        docs'[j][m] = IF j = call.core /\ m = p.imsi THEN written ELSE docs[j][m]
  <2> HIDE DEF p, written
  <2> QED BY <1>2, <1>4, <1>5, <1>7, SetDocsFacts
<1>9. StoreType' /\ UsedType'
  <2>1. docs' \in [Cores -> [IMSIs -> Seq(Document)]]
    <3> HIDE DEF p, written
    <3> QED BY <1>2, <1>6, <1>7, SetDocsType DEF StoreType
  <2>2. UNCHANGED <<open5gs, service, serving, used>> BY <1>1 DEF cluster
  <2> QED BY <1>2, <2>1, <2>2 DEF StoreType, TypeOK, UsedType
<1>10. TypeOK' /\ \A i \in Cores, imsi \in IMSIs : Adds(i, imsi)' <=> Adds(i, imsi)
  BY <1>1, <1>2, <1>3, <1>9, OnlookerStays DEF thisManager
<1>11. /\ OtherProofs!TypeOK'
       /\ \A i \in Cores, imsi \in IMSIs :
            OtherProofs!Adds(i, imsi)' <=> OtherProofs!Adds(i, imsi)
  BY <1>1, <1>2, <1>3, <1>9, OtherStays
<1>12. /\ LateType'
       /\ \A i \in Cores, imsi \in IMSIs : LateAdds(i, imsi)' = LateAdds(i, imsi) \ {call}
  <2>1. late' = late \ {call} BY <1>1
  <2>2. LateType' /\ \A i \in Cores, imsi \in IMSIs :
          LateAdds(i, imsi)' = LateAdds(i, imsi) \cap late'
    BY <1>2, <1>3, <2>1, StaysLate
  <2>3. \A i \in Cores, imsi \in IMSIs : LateAdds(i, imsi) \subseteq late BY DEF LateAdds
  <2> QED BY <2>1, <2>2, <2>3
<1>13. ASSUME NEW i \in Cores, NEW imsi \in IMSIs
       PROVE  /\ Cardinality(LateAdds(i, imsi)') <= used'["fault"]
              /\ Len(docs'[i][imsi]) + One(Adds(i, imsi)') + One(OtherProofs!Adds(i, imsi)')
                   + Cardinality(LateAdds(i, imsi)') <= 2 + used'["fault"]
  <2> DEFINE n == Len(docs[i][imsi])  n2 == Len(docs'[i][imsi])  f == used["fault"]
             a == One(Adds(i, imsi))  b == One(OtherProofs!Adds(i, imsi))
             c == Cardinality(LateAdds(i, imsi))  c2 == Cardinality(LateAdds(i, imsi)')
             adds == call \in LateAdds(i, imsi)
  <2>1. n \in Nat /\ f \in Nat /\ c \in Nat BY CountTypes DEF ManagersInv
  <2>2. a \in {0, 1} /\ b \in {0, 1} BY DEF One
  <2>3. c <= f /\ n + a + b + c <= 2 + f BY <1>2 DEF Counted
  <2>4. One(Adds(i, imsi)') = a /\ One(OtherProofs!Adds(i, imsi)') = b
    BY <1>10, <1>11 DEF One
  <2>5. used' = used BY <1>1
  <2>6. IsFiniteSet(LateAdds(i, imsi)) BY <1>2, LateAddsFinite
  <2>7. /\ c2 = IF adds THEN c - 1 ELSE c
        /\ c2 \in Nat
    <3>1. LateAdds(i, imsi)' = LateAdds(i, imsi) \ {call} BY <1>12
    <3>2. /\ Cardinality(LateAdds(i, imsi) \ {call})
               = IF call \in LateAdds(i, imsi) THEN Cardinality(LateAdds(i, imsi)) - 1
                 ELSE Cardinality(LateAdds(i, imsi))
          /\ IsFiniteSet(LateAdds(i, imsi) \ {call})
      BY <2>6, FS_RemoveElement
    <3>3. Cardinality(LateAdds(i, imsi) \ {call}) \in Nat BY <3>2, FS_CardinalityType
    <3> QED BY <3>1, <3>2, <3>3
  <2>8. \/ n2 <= n /\ ~adds
        \/ n2 <= n /\ adds
        \/ n2 = n + 1 /\ adds
    <3> HIDE DEF p, found, written
    <3>1. CASE ~(i = call.core /\ imsi = p.imsi)
      <4>1. docs'[i][imsi] = docs[i][imsi] BY <1>8, <3>1
      <4>2. n2 <= n BY <2>1, <4>1
      <4> QED BY <4>2
    <3>2. CASE i = call.core /\ imsi = p.imsi
      <4>1. docs'[i][imsi] = written /\ docs[i][imsi] = found BY <1>8, <3>2 DEF found
      <4>2. call.pc = "InsertOne" => adds BY <3>2 DEF LateAdds, p
      <4> QED BY <1>6, <4>1, <4>2
    <3> QED BY <3>1, <3>2
  <2>9. n2 \in Nat BY <1>9 DEF StoreType
  <2> HIDE DEF n, n2, f, a, b, c, c2, adds
  <2>10. c2 <= f /\ n2 + a + b + c2 <= 2 + f
    <3>1. \/ n2 <= n /\ c2 <= c
          \/ n2 = n + 1 /\ c2 = c - 1
      BY <2>1, <2>7, <2>8, <2>9
    <3> QED BY <2>1, <2>2, <2>3, <2>7, <2>9, <3>1, LateAdded
  <2> QED BY <2>4, <2>5, <2>10 DEF n2, f, c2
<1> QED BY <1>10, <1>11, <1>12, <1>13 DEF ManagersInv, ManagersTyped, Counted

-------------------------------------------------------------------------------
LEMMA InitManagers == ManagersInit => ManagersInv
<1> SUFFICES ASSUME ManagersInit PROVE ManagersInv OBVIOUS
<1>1. TypeOK BY InitType DEF ManagersInit
<1>2. OtherProofs!Init
  BY SameTypes DEF ManagersInit, Other!Init, OtherProofs!Init, Other!Idle, OtherProofs!Idle,
                   Other!Absent, OtherProofs!Absent, Other!Cores, Cores, Other!Kinds, Kinds
<1>3. OtherProofs!TypeOK
  BY <1>2, SubscriberAssumption, ResourceAssumption, UserAssumption, SameTypes,
     OtherProofs!InitType
<1>4. LateType BY FS_EmptySet DEF ManagersInit, LateType
<1>5. ASSUME NEW i \in Cores, NEW imsi \in IMSIs
      PROVE  /\ Cardinality(LateAdds(i, imsi)) <= used["fault"]
             /\ Len(docs[i][imsi]) + One(Adds(i, imsi)) + One(OtherProofs!Adds(i, imsi))
                  + Cardinality(LateAdds(i, imsi)) <= 2 + used["fault"]
  <2>1. used["fault"] = 0 /\ Len(docs[i][imsi]) = 0 BY DEF ManagersInit, Init, Kinds
  <2>2. LateAdds(i, imsi) = {} BY DEF ManagersInit, LateAdds
  <2>3. Cardinality(LateAdds(i, imsi)) = 0 BY <2>2, FS_EmptySet
  <2>4. One(Adds(i, imsi)) \in {0, 1} /\ One(OtherProofs!Adds(i, imsi)) \in {0, 1} BY DEF One
  <2> QED BY <2>1, <2>3, <2>4
<1> QED BY <1>1, <1>3, <1>4, <1>5 DEF ManagersInv, ManagersTyped, Counted

LEMMA NextManagers ==
  ExternalDocuments = {} /\ ManagersInv /\ [ManagersNext]_managersVars => ManagersInv'
<1> SUFFICES ASSUME ExternalDocuments = {}, ManagersInv, [ManagersNext]_managersVars
             PROVE  ManagersInv'
  OBVIOUS
<1>1. CASE Environment BY <1>1, ThisMoves DEF Environment, Next
<1>2. CASE ThisManager BY <1>2, ThisMoves DEF ThisManager, Next
<1>3. CASE OtherManager
  BY <1>3, OtherMoves, OtherManagerSteps, OtherWorkerSteps, OtherFaultsSteps
     DEF OtherManager, OtherProofs!Next
<1>4. CASE GiveUp BY <1>4, GiveUpKeeps
<1>5. CASE OtherGivesUp BY <1>5, OtherGivesUpKeeps
<1>6. CASE LateCall BY <1>6, LateCallKeeps
<1>7. CASE UNCHANGED managersVars
  <2>1. LogGrows /\ FaultsCount /\ StoreType' /\ UsedType'
    BY <1>7 DEF managersVars, vars, LogGrows, FaultsCount, ManagersInv, ManagersTyped, TypeOK,
                StoreType, UsedType, Kinds
  <2>2. TypeOK' /\ \A i \in Cores, imsi \in IMSIs : Adds(i, imsi)' <=> Adds(i, imsi)
    BY <1>7, <2>1, OnlookerStays DEF managersVars, vars, ManagersInv, ManagersTyped
  <2>3. /\ OtherProofs!TypeOK'
        /\ \A i \in Cores, imsi \in IMSIs :
             OtherProofs!Adds(i, imsi)' <=> OtherProofs!Adds(i, imsi)
    BY <1>7, <2>1, OtherStays DEF managersVars, ManagersInv, ManagersTyped
  <2>4. LateType'
    BY <1>7, <2>1, StaysLate DEF managersVars, ManagersInv, ManagersTyped, TypeOK
  <2>5. DocumentsStep
    BY <1>7, <2>2, SameDocs
       DEF managersVars, vars, DocumentsStep, ManagersInv, ManagersTyped
  <2> QED BY <1>7, <2>1, <2>2, <2>3, <2>4, <2>5, StepKeepsCount
          DEF ManagersInv, ManagersTyped, managersVars
<1> QED BY <1>1, <1>2, <1>3, <1>4, <1>5, <1>6, <1>7 DEF ManagersNext

(***************************************************************************)
(* With two managers at work on the same resources and calls that MongoDB  *)
(* executes after they were given up, the documents of an IMSI are never   *)
(* more than two and one for each call that failed, for any number of      *)
(* users, instances and edits, while only the operator inserts.            *)
(***************************************************************************)
THEOREM DocumentsStayBounded ==
  ASSUME ExternalDocuments = {}
  PROVE  ManagersSpec => []DocumentsBounded
<1>1. ManagersInv => DocumentsBounded
  <2> SUFFICES ASSUME ManagersInv, NEW i \in Cores, NEW imsi \in IMSIs
               PROVE  Len(docs[i][imsi]) <= 2 + used["fault"]
    BY DEF DocumentsBounded
  <2> DEFINE n == Len(docs[i][imsi])  f == used["fault"]
             a == One(Adds(i, imsi))  b == One(OtherProofs!Adds(i, imsi))
             c == Cardinality(LateAdds(i, imsi))
  <2>1. n \in Nat /\ f \in Nat /\ c \in Nat BY CountTypes DEF ManagersInv
  <2>2. a \in {0, 1} /\ b \in {0, 1} BY DEF One
  <2>3. n + a + b + c <= 2 + f BY DEF ManagersInv, Counted
  <2> HIDE DEF n, f, a, b, c
  <2>4. n <= 2 + f BY <2>1, <2>2, <2>3
  <2> QED BY <2>4 DEF n, f
<1>2. ManagersInit => ManagersInv BY InitManagers
<1>3. ManagersInv /\ [ManagersNext]_managersVars => ManagersInv' BY NextManagers
<1> QED BY <1>1, <1>2, <1>3, PTL DEF ManagersSpec

===============================================================================
