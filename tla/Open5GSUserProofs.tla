--------------------------- MODULE Open5GSUserProofs ---------------------------
(***************************************************************************)
(* Type correctness of the Open5GSUser controller; that it writes a        *)
(* subscriber only for a resource that exists and carries the finalizer;   *)
(* and that it gives no IMSI two documents: for every number of users,     *)
(* instances, edits, crashes and failures.                                 *)
(***************************************************************************)
EXTENDS Open5GSUser, SubscriberProofs

-------------------------------------------------------------------------------
(* Sequences. *)

LEMMA AppendFacts ==
  ASSUME NEW S, NEW s \in Seq(S), NEW e \in S
  PROVE  /\ Append(s, e) \in Seq(S)
         /\ Len(Append(s, e)) = Len(s) + 1
         /\ \A i \in 1..Len(s) : Append(s, e)[i] = s[i]
         /\ Append(s, e)[Len(s) + 1] = e
OBVIOUS

LEMMA NonemptyFacts ==
  ASSUME NEW S, NEW s \in Seq(S), s # <<>>
  PROVE  Head(s) \in S /\ Tail(s) \in Seq(S)
OBVIOUS

LEMMA ReplaceHeadType ==
  ASSUME NEW S, NEW s \in Seq(S), NEW e \in S
  PROVE  <<e>> \o s \in Seq(S)
<1>1. <<e>> \in Seq(S) OBVIOUS
<1> QED BY <1>1

-------------------------------------------------------------------------------
(* The resources and the documents. *)

LEMMA ObjectTypes ==
  /\ Absent \in Object /\ ~Absent.present
  /\ \A s \in UserSpec : Created(s) \in Existing
  /\ \A o \in Existing, b \in BOOLEAN, s \in UserSpec :
       /\ [o EXCEPT !.finalizer = b] \in Existing
       /\ [o EXCEPT !.deleting = b] \in Existing
       /\ [o EXCEPT !.spec = s] \in Existing
  /\ \A o \in Object : o.present <=> o \in Existing
<1>1. Absent \in Object /\ ~Absent.present
  BY DEF Absent, Object
<1>2. ASSUME NEW s \in UserSpec PROVE Created(s) \in Existing
  BY DEF Created, Existing
<1>3. ASSUME NEW o \in Existing, NEW b \in BOOLEAN, NEW s \in UserSpec
      PROVE  /\ [o EXCEPT !.finalizer = b] \in Existing
             /\ [o EXCEPT !.deleting = b] \in Existing
             /\ [o EXCEPT !.spec = s] \in Existing
  BY DEF Existing
<1>4. ASSUME NEW o \in Object PROVE o.present <=> o \in Existing
  <2>1. CASE o = Absent BY <2>1 DEF Absent, Existing
  <2>2. CASE o \in Existing BY <2>2 DEF Existing
  <2> QED BY <2>1, <2>2 DEF Object
<1> QED BY <1>1, <1>2, <1>3, <1>4

(***************************************************************************)
(* What an accepted write does to the log of one resource.                 *)
(***************************************************************************)
LEMMA WriteFacts ==
  ASSUME history \in [Users -> Seq(Object)], NEW u \in Users, NEW o \in Object, Write(u, o)
  PROVE  /\ history' \in [Users -> Seq(Object)]
         /\ Len(history'[u]) = Len(history[u]) + 1
         /\ \A i \in 1..Len(history[u]) : history'[u][i] = history[u][i]
         /\ history'[u][Len(history[u]) + 1] = o
         /\ \A v \in Users \ {u} : history'[v] = history[v]
<1> DEFINE new == Append(history[u], o)
<1>1. history[u] \in Seq(Object) OBVIOUS
<1>2. history' = [history EXCEPT ![u] = new] BY DEF Write
<1>3. history'[u] = new /\ \A v \in Users \ {u} : history'[v] = history[v]
  BY <1>2
<1>4. /\ new \in Seq(Object) /\ Len(new) = Len(history[u]) + 1
      /\ \A i \in 1..Len(history[u]) : new[i] = history[u][i]
      /\ new[Len(history[u]) + 1] = o
  BY <1>1, AppendFacts
<1>5. history' \in [Users -> Seq(Object)]
  <2> HIDE DEF new
  <2> QED BY <1>2, <1>4
<1> QED
  <2> HIDE DEF new
  <2> QED BY <1>3, <1>4, <1>5

LEMMA CurrentType ==
  ASSUME HistoryType, NEW u \in Users
  PROVE  /\ Current(u) \in Object /\ Cached(u) \in Object
         /\ Len(history[u]) \in Nat /\ seen[u] \in 1..Len(history[u])
         /\ Len(history[u]) \in 1..Len(history[u])
<1>1. history[u] \in Seq(Object) /\ seen[u] \in 1..Len(history[u])
  BY DEF HistoryType
<1> QED BY <1>1 DEF Current, Cached

LEMMA PassType ==
  ASSUME HistoryType, WorkerType, worker.pc # "idle"
  PROVE  /\ worker.user \in Users /\ worker.rv \in 1..Len(history[worker.user])
         /\ user \in Existing /\ user.spec \in UserSpec /\ profile \in Profile
         /\ profile.imsi \in IMSIs
<1>1. worker.user \in Users /\ worker.rv \in 1..Len(history[worker.user]) /\ user.present
  BY DEF WorkerType
<1>2. user \in Object BY <1>1 DEF HistoryType, user
<1>3. user \in Existing BY <1>1, <1>2, ObjectTypes
<1> HIDE DEF user
<1>4. user.spec \in UserSpec BY <1>3 DEF Existing
<1>5. profile \in Profile BY <1>4 DEF UserSpec, profile
<1> QED BY <1>1, <1>3, <1>4, <1>5 DEF Profile

(***************************************************************************)
(* An accepted write keeps the logs well typed and leaves every version a  *)
(* pass may hold where it was.                                             *)
(***************************************************************************)
LEMMA WriteType ==
  ASSUME HistoryType, WorkerType, NEW u \in Users, NEW o \in Object, Write(u, o),
         UNCHANGED seen
  PROVE  HistoryType' /\ (UNCHANGED <<worker, queue>> => WorkerType')
<1>1. /\ history' \in [Users -> Seq(Object)]
      /\ \A v \in Users : \A i \in 1..Len(history[v]) :
           i \in 1..Len(history'[v]) /\ history'[v][i] = history[v][i]
  <2>1. history \in [Users -> Seq(Object)] BY DEF HistoryType
  <2>2. /\ history' \in [Users -> Seq(Object)]
        /\ Len(history'[u]) = Len(history[u]) + 1
        /\ \A i \in 1..Len(history[u]) : history'[u][i] = history[u][i]
        /\ \A v \in Users \ {u} : history'[v] = history[v]
    BY <2>1, WriteFacts
  <2>3. ASSUME NEW v \in Users, NEW i \in 1..Len(history[v])
        PROVE  i \in 1..Len(history'[v]) /\ history'[v][i] = history[v][i]
    <3>1. Len(history[v]) \in Nat BY <2>1
    <3>2. CASE v = u BY <2>2, <2>3, <3>1, <3>2
    <3>3. CASE v # u BY <2>2, <2>3, <3>3
    <3> QED BY <3>2, <3>3
  <2> QED BY <2>2, <2>3
<1>2. HistoryType'
  BY <1>1 DEF HistoryType
<1>3. ASSUME UNCHANGED <<worker, queue>> PROVE WorkerType'
  <2>1. worker.pc # "idle" => user' = user
    BY <1>1, <1>3 DEF WorkerType, user
  <2>2. worker.pc # "idle" => profile' = profile
    BY <2>1 DEF profile
  <2> QED BY <1>1, <1>3, <2>1, <2>2 DEF WorkerType
<1> QED BY <1>2, <1>3

\* Returning from a pass and going on with it keep the worker well typed.
LEMMA RequeueType ==
  ASSUME WorkerType, worker.pc # "idle", Requeue
  PROVE  WorkerType'
BY DEF WorkerType, Requeue, Idle, PCs

LEMMA GotoType ==
  ASSUME WorkerType, NEW pc \in PCs, worker.pc # "idle", Goto(pc), UNCHANGED history,
         pc = "InsertOne" => ~AddFails(profile), pc = "UpdateOne" => ~UpdateFails(profile)
  PROVE  WorkerType' /\ profile' = profile
<1>1. user' = user /\ worker'.pc = pc BY DEF WorkerType, Goto, user
<1>2. profile' = profile BY <1>1 DEF profile
<1> QED BY <1>1, <1>2 DEF WorkerType, Goto

LEMMA SpendType ==
  ASSUME UsedType, NEW kind \in Kinds, Spend(kind)
  PROVE  UsedType'
BY DEF UsedType, Spend

(***************************************************************************)
(* The documents in MongoDB keep their type under SetDocs.                 *)
(***************************************************************************)
LEMMA SetDocsType ==
  ASSUME docs \in [Cores -> [IMSIs -> Seq(Document)]],
         NEW i, NEW imsi, NEW found, i \in Cores /\ imsi \in IMSIs => found \in Seq(Document),
         SetDocs(i, imsi, found)
  PROVE  docs' \in [Cores -> [IMSIs -> Seq(Document)]]
<1>1. docs' = [docs EXCEPT ![i] = [docs[i] EXCEPT ![imsi] = found]] BY DEF SetDocs
<1>2. CASE i \in Cores
  <2>1. [docs[i] EXCEPT ![imsi] = found] \in [IMSIs -> Seq(Document)] BY <1>2
  <2> QED BY <1>1, <2>1
<1>3. CASE i \notin Cores BY <1>1, <1>3
<1> QED BY <1>2, <1>3

-------------------------------------------------------------------------------
(***************************************************************************)
(* The types are kept by every action: TypeOK is inductive by itself.      *)
(***************************************************************************)
LEMMA OwnersType == TypeOK /\ Owners => TypeOK'
<1> SUFFICES ASSUME TypeOK, NEW u \in Users,
                    \/ \E spec \in SpecsOf[u] : CreateUser(u, spec) \/ EditUser(u, spec)
                    \/ DeleteUser(u)
             PROVE  TypeOK'
  BY DEF Owners
<1>1. SpecsOf[u] \subseteq UserSpec BY ResourceAssumption
<1>2. ASSUME NEW o \in Object, NEW kind \in Kinds, Write(u, o), Spend(kind),
             UNCHANGED <<seen, queue, worker, cluster, docs>>
      PROVE  TypeOK'
  <2>1. HistoryType' /\ WorkerType' BY <1>2, WriteType DEF TypeOK
  <2>2. UsedType' BY <1>2, SpendType DEF TypeOK
  <2> QED BY <1>2, <2>1, <2>2 DEF TypeOK, StoreType, cluster
<1>3. Current(u) \in Object BY CurrentType DEF TypeOK
<1>4. ASSUME NEW spec \in SpecsOf[u], CreateUser(u, spec) PROVE TypeOK'
  BY <1>1, <1>2, <1>4, ObjectTypes DEF CreateUser, Object, Kinds
<1>5. ASSUME NEW spec \in SpecsOf[u], EditUser(u, spec) PROVE TypeOK'
  <2>1. Current(u) \in Existing BY <1>3, <1>5, ObjectTypes DEF EditUser
  <2>2. [Current(u) EXCEPT !.spec = spec] \in Object BY <1>1, <2>1, ObjectTypes DEF Object
  <2> QED BY <1>2, <1>5, <2>2 DEF EditUser, Kinds
<1>6. CASE DeleteUser(u)
  <2>1. Current(u) \in Existing BY <1>3, <1>6, ObjectTypes DEF DeleteUser
  <2>2. [Current(u) EXCEPT !.deleting = TRUE] \in Existing
    BY <2>1 DEF Existing
  <2>3. Deleted(Current(u)) \in Object
    BY <2>2, ObjectTypes DEF Deleted, Object
  <2> QED BY <1>2, <1>6, <2>3 DEF DeleteUser, Kinds
<1> QED BY <1>4, <1>5, <1>6

LEMMA ManagerType == TypeOK /\ Manager => TypeOK'
<1> SUFFICES ASSUME TypeOK, Manager PROVE TypeOK' OBVIOUS
<1>1. CASE Restart
  <2>1. WorkerType' BY <1>1 DEF Restart, WorkerType, Idle, PCs
  <2>2. UsedType' BY <1>1, SpendType DEF Restart, TypeOK, Kinds
  <2> QED BY <1>1, <2>1, <2>2 DEF Restart, TypeOK, HistoryType, StoreType, cluster
<1>2. ASSUME NEW u \in Users, SyncCache(u) PROVE TypeOK'
  <2>1. seen[u] + 1 \in 1..Len(history[u])
    <3>1. Len(history[u]) \in Nat /\ seen[u] \in 1..Len(history[u])
      BY CurrentType DEF TypeOK
    <3> QED BY <1>2, <3>1 DEF SyncCache
  <2>2. HistoryType' BY <1>2, <2>1 DEF SyncCache, TypeOK, HistoryType
  <2>3. WorkerType' BY <1>2 DEF SyncCache, TypeOK, WorkerType, user, profile
  <2> QED BY <1>2, <2>2, <2>3 DEF SyncCache, TypeOK, StoreType, UsedType, cluster
<1>3. ASSUME NEW u \in Users, Start(u) PROVE TypeOK'
  <2> DEFINE step == FirstStep(Cached(u))
             core == GetOpen5GS(u, Cached(u).spec)
  <2>1. step \in PCs \ {"idle", "InsertOne", "UpdateOne"} BY DEF FirstStep, PCs
  <2>2. core \in Cores \cup {NoCore}
    BY DEF TypeOK, StoreType, GetOpen5GS
  <2>3. seen[u] \in 1..Len(history[u]) /\ Len(history[u]) \in Nat
    BY CurrentType DEF TypeOK
  <2>4. worker' = [pc |-> step, user |-> u, rv |-> seen[u], core |-> core]
    BY <1>3 DEF Start
  <2>5. user' = Cached(u)
    BY <1>3, <2>4 DEF Start, user, Cached
  <2> HIDE DEF step, core
  <2>6. WorkerType'
    BY <1>3, <2>1, <2>2, <2>3, <2>4, <2>5 DEF Start, TypeOK, WorkerType
  <2> QED BY <1>3, <2>6 DEF Start, TypeOK, HistoryType, StoreType, UsedType, cluster
<1>4. ASSUME NEW u \in Users, StartGone(u) PROVE TypeOK'
  BY <1>4 DEF StartGone, TypeOK, HistoryType, WorkerType, StoreType, UsedType, cluster, user, profile
<1> QED BY <1>1, <1>2, <1>3, <1>4 DEF Manager

\* The two writes of a pass: the finalizer goes on, or the resource goes away.
LEMMA WithFinalizer ==
  ASSUME HistoryType, WorkerType, worker.pc # "idle"
  PROVE  /\ [user EXCEPT !.finalizer = TRUE] \in Object
         /\ [user EXCEPT !.finalizer = TRUE].present
         /\ [user EXCEPT !.finalizer = TRUE].finalizer
         /\ [user EXCEPT !.finalizer = TRUE].deleting = user.deleting
<1>1. user \in Existing BY PassType
<1> HIDE DEF user
<1> QED BY <1>1 DEF Existing, Object

LEMMA DocumentsType ==
  ASSUME TypeOK, NEW found, SetDocs(worker.core, profile.imsi, found),
         (worker.core \in Cores => found \in Seq(Document)), cluster' = cluster
  PROVE  StoreType'
BY SetDocsType DEF TypeOK, StoreType, cluster

LEMMA FoundType ==
  ASSUME TypeOK, worker.pc # "idle", Answering
  PROVE  worker.core \in Cores /\ Found \in Seq(Document)
<1>1. worker.core \in Cores BY DEF Answering, TypeOK, StoreType
<1>2. profile.imsi \in IMSIs BY PassType DEF TypeOK
<1> QED BY <1>1, <1>2 DEF TypeOK, StoreType, Found

LEMMA WorkerStepType == TypeOK /\ Worker => TypeOK'
<1> SUFFICES ASSUME TypeOK, Worker PROVE TypeOK' OBVIOUS
<1> USE DEF TypeOK
<1>1. CASE AddFinalizer
  <2>1. worker.pc # "idle" BY <1>1 DEF AddFinalizer
  <2>2. worker.user \in Users /\ Write(worker.user, [user EXCEPT !.finalizer = TRUE])
    BY <1>1, <2>1, PassType DEF AddFinalizer
  <2>3. HistoryType'
    BY <1>1, <2>1, <2>2, WithFinalizer, WriteType DEF AddFinalizer
  <2>4. WorkerType'
    <3>1. history[worker.user] \in Seq(Object) /\ worker.rv = Len(history[worker.user])
      BY <1>1, <2>2 DEF HistoryType, AddFinalizer, UpToDate
    <3>2. /\ Len(history'[worker.user]) = Len(history[worker.user]) + 1
          /\ history'[worker.user][Len(history[worker.user]) + 1] = [user EXCEPT !.finalizer = TRUE]
      BY <2>1, <2>2, WithFinalizer, WriteFacts DEF HistoryType
    <3>3. /\ worker'.pc = "reconcileSubscriber" /\ worker'.user = worker.user
          /\ worker'.rv = worker.rv + 1 /\ worker'.core = worker.core
          /\ worker' \in [pc : PCs, user : Users \cup {NoUser}, rv : Nat, core : Cores \cup {NoCore}]
      BY <1>1 DEF AddFinalizer, WorkerType, PCs
    <3>4. user' = [user EXCEPT !.finalizer = TRUE]
      BY <3>1, <3>2, <3>3 DEF user
    <3>5. user'.present BY <2>1, <3>4, WithFinalizer
    <3>6. worker'.rv \in 1..Len(history'[worker'.user])
      BY <3>1, <3>2, <3>3
    <3> QED BY <1>1, <2>2, <3>3, <3>5, <3>6 DEF AddFinalizer, WorkerType
  <2> QED BY <1>1, <2>3, <2>4 DEF AddFinalizer, StoreType, UsedType, cluster
<1>2. CASE UpdateConflict
  <2>1. worker.pc # "idle" BY <1>2 DEF UpdateConflict
  <2> QED BY <1>2, <2>1, RequeueType DEF UpdateConflict, HistoryType, StoreType, UsedType, cluster
<1>3. CASE reconcileSubscriber
  <2>1. worker.pc # "idle" BY <1>3 DEF reconcileSubscriber
  <2>2. "FindOne" \in PCs BY DEF PCs
  <2>3. WorkerType' BY <1>3, <2>1, <2>2, GotoType, RequeueType DEF reconcileSubscriber
  <2> QED BY <1>3, <2>3 DEF reconcileSubscriber, HistoryType, StoreType, UsedType, cluster
<1>4. CASE FindOne
  <2>1. worker.pc # "idle" BY <1>4 DEF FindOne
  <2>2. /\ NextCall(profile, Found) = "return" \/ NextCall(profile, Found) \in PCs
        /\ NextCall(profile, Found) = "InsertOne" => ~AddFails(profile)
        /\ NextCall(profile, Found) = "UpdateOne" => ~UpdateFails(profile)
    BY DEF NextCall, PCs
  <2>3. WorkerType' BY <1>4, <2>1, <2>2, GotoType, RequeueType DEF FindOne
  <2> QED BY <1>4, <2>3 DEF FindOne, HistoryType, StoreType, UsedType, cluster
<1>5. CASE InsertOne
  <2>1. worker.pc # "idle" BY <1>5 DEF InsertOne
  <2>2. ~AddFails(profile) BY <1>5 DEF InsertOne, WorkerType
  <2>3. Append(Found, AddedDocument(profile)) \in Seq(Document)
    BY <1>5, <2>1, <2>2, FoundType, PassType, AddedDocumentType, AppendFacts DEF InsertOne
  <2>4. StoreType' BY <1>5, <2>3, DocumentsType DEF InsertOne
  <2> QED BY <1>5, <2>1, <2>4, RequeueType DEF InsertOne, HistoryType, UsedType
<1>6. CASE UpdateOne
  <2>1. worker.pc # "idle" /\ ~UpdateFails(profile) BY <1>6 DEF UpdateOne, WorkerType
  <2>2. Found # <<>> => <<UpdatedDocument(profile, Head(Found))>> \o Tail(Found) \in Seq(Document)
    <3>1. SUFFICES ASSUME Found # <<>>
                   PROVE  <<UpdatedDocument(profile, Head(Found))>> \o Tail(Found) \in Seq(Document)
      OBVIOUS
    <3>2. Head(Found) \in Document /\ Tail(Found) \in Seq(Document)
      BY <1>6, <2>1, <3>1, FoundType, NonemptyFacts DEF UpdateOne
    <3>3. UpdatedDocument(profile, Head(Found)) \in Document
      BY <2>1, <3>2, PassType, UpdatedDocumentType
    <3> QED BY <3>2, <3>3, ReplaceHeadType
  <2>3. StoreType'
    <3> DEFINE new == IF Found = <<>> THEN <<>>
                      ELSE <<UpdatedDocument(profile, Head(Found))>> \o Tail(Found)
    <3>1. new \in Seq(Document) BY <2>2
    <3>2. SetDocs(worker.core, profile.imsi, new) /\ cluster' = cluster
      BY <1>6 DEF UpdateOne
    <3> HIDE DEF new
    <3> QED BY <3>1, <3>2, DocumentsType
  <2> QED BY <1>6, <2>1, <2>3, RequeueType DEF UpdateOne, HistoryType, UsedType
<1>7. CASE deleteSubscriber
  <2>1. worker.pc # "idle" BY <1>7 DEF deleteSubscriber
  <2>2. "DeleteOne" \in PCs /\ "removeFinalizer" \in PCs BY DEF PCs
  <2>3. WorkerType' BY <1>7, <2>1, <2>2, GotoType DEF deleteSubscriber
  <2> QED BY <1>7, <2>3 DEF deleteSubscriber, HistoryType, StoreType, UsedType, cluster
<1>8. CASE DeleteOne
  <2>1. worker.pc # "idle" BY <1>8 DEF DeleteOne
  <2>2. "removeFinalizer" \in PCs BY DEF PCs
  <2>3. WorkerType' BY <1>8, <2>1, <2>2, GotoType, RequeueType DEF DeleteOne
  <2>4. StoreType'
    <3>1. CASE Found = <<>> BY <1>8, <3>1 DEF DeleteOne, StoreType, cluster
    <3>2. CASE Found # <<>>
      BY <1>8, <2>1, <3>2, FoundType, NonemptyFacts, DocumentsType DEF DeleteOne
    <3> QED BY <3>1, <3>2
  <2> QED BY <1>8, <2>3, <2>4 DEF DeleteOne, HistoryType, UsedType
<1>9. CASE RemoveFinalizer
  <2>1. worker.pc # "idle" BY <1>9 DEF RemoveFinalizer
  <2>2. HistoryType'
    BY <1>9, <2>1, PassType, ObjectTypes, WriteType DEF RemoveFinalizer
  <2> QED BY <1>9, <2>1, <2>2, RequeueType DEF RemoveFinalizer, StoreType, UsedType, cluster
<1>10. CASE MongoUnreachable
  <2>1. worker.pc # "idle" BY <1>10 DEF MongoUnreachable
  <2> QED BY <1>10, <2>1, RequeueType DEF MongoUnreachable, HistoryType, StoreType, UsedType, cluster
<1> QED BY <1>1, <1>2, <1>3, <1>4, <1>5, <1>6, <1>7, <1>8, <1>9, <1>10 DEF Worker

LEMMA FaultsType == TypeOK /\ Faults => TypeOK'
<1> SUFFICES ASSUME TypeOK, Faults PROVE TypeOK' OBVIOUS
<1>1. worker.pc # "idle" /\ UsedType' /\ WorkerType'
  <2>1. worker.pc # "idle" /\ UsedType'
    BY SpendType
       DEF Faults, RequestFails, LookUpFails, AddFinalizerReplyLost, DeleteReplyLost, TypeOK, Kinds
  <2>2. \/ Requeue
        \/ Goto("removeFinalizer") /\ UNCHANGED history
    BY DEF Faults, RequestFails, LookUpFails, AddFinalizerReplyLost, DeleteReplyLost
  <2>3. "removeFinalizer" \in PCs BY DEF PCs
  <2> QED BY <2>1, <2>2, <2>3, RequeueType, GotoType DEF TypeOK
<1>2. CASE RequestFails
  BY <1>1, <1>2 DEF RequestFails, TypeOK, HistoryType, StoreType, cluster
<1>3. CASE AddFinalizerReplyLost
  <2>1. HistoryType'
    BY <1>1, <1>3, PassType, WithFinalizer, WriteType DEF AddFinalizerReplyLost, TypeOK
  <2> QED BY <1>1, <1>3, <2>1 DEF AddFinalizerReplyLost, TypeOK, StoreType, cluster
<1>4. CASE DeleteReplyLost
  <2>1. StoreType'
    BY <1>1, <1>4, FoundType, NonemptyFacts, DocumentsType DEF DeleteReplyLost
  <2> QED BY <1>1, <1>4, <2>1 DEF DeleteReplyLost, TypeOK, HistoryType
<1>5. CASE LookUpFails
  BY <1>1, <1>5 DEF LookUpFails, TypeOK, HistoryType, StoreType, cluster
<1> QED BY <1>2, <1>3, <1>4, <1>5 DEF Faults

LEMMA OutsideType == TypeOK /\ Outside => TypeOK'
<1> SUFFICES ASSUME TypeOK, Outside PROVE TypeOK' OBVIOUS
<1> USE DEF TypeOK
<1>1. ASSUME NEW kind \in Kinds, Spend(kind), StoreType', UNCHANGED <<history, seen, queue, worker>>
      PROVE  TypeOK'
  BY <1>1, SpendType DEF HistoryType, WorkerType, user, profile
<1>2. PICK i \in Cores :
        \/ \E doc \in ExternalDocuments : ExternalInsert(i, doc) \/ ExternalModify(i, doc)
        \/ \E imsi \in IMSIs : ExternalRemove(i, imsi)
        \/ CreateOpen5GS(i) \/ DeleteOpen5GS(i)
        \/ EnableMongoDB(i) \/ DisableMongoDB(i)
        \/ StartMongoDB(i) \/ StopMongoDB(i) \/ LoseVolume(i)
  BY DEF Outside
<1>3. ASSUME NEW doc \in ExternalDocuments
      PROVE  /\ doc \in Document /\ doc.imsi \in IMSIs /\ docs[i][doc.imsi] \in Seq(Document)
  <2>1. doc \in Document BY UserAssumption
  <2>2. doc.imsi \in IMSIs BY <2>1 DEF Document
  <2> QED BY <1>2, <2>1, <2>2 DEF StoreType
<1>4. ASSUME NEW doc \in ExternalDocuments, ExternalInsert(i, doc) PROVE TypeOK'
  <2>1. Append(docs[i][doc.imsi], doc) \in Seq(Document) BY <1>3, AppendFacts
  <2>2. StoreType'
    BY <1>4, <2>1, SetDocsType DEF ExternalInsert, StoreType, cluster
  <2> QED BY <1>1, <1>4, <2>2 DEF ExternalInsert, Kinds
<1>5. ASSUME NEW doc \in ExternalDocuments, ExternalModify(i, doc) PROVE TypeOK'
  <2>1. Tail(docs[i][doc.imsi]) \in Seq(Document)
    BY <1>3, <1>5, NonemptyFacts DEF ExternalModify
  <2>2. <<doc>> \o Tail(docs[i][doc.imsi]) \in Seq(Document)
    BY <1>3, <2>1, ReplaceHeadType
  <2>3. StoreType'
    BY <1>5, <2>2, SetDocsType DEF ExternalModify, StoreType, cluster
  <2> QED BY <1>1, <1>5, <2>3 DEF ExternalModify, Kinds
<1>6. ASSUME NEW imsi \in IMSIs, ExternalRemove(i, imsi) PROVE TypeOK'
  <2>1. <<>> \in Seq(Document) OBVIOUS
  <2>2. StoreType'
    BY <1>6, <2>1, SetDocsType DEF ExternalRemove, StoreType, cluster
  <2> QED BY <1>1, <1>6, <2>2 DEF ExternalRemove, Kinds
<1>7. CASE CreateOpen5GS(i) BY <1>1, <1>7 DEF CreateOpen5GS, Kinds, StoreType
<1>8. CASE DeleteOpen5GS(i) BY <1>1, <1>8 DEF DeleteOpen5GS, Kinds, StoreType
<1>9. CASE EnableMongoDB(i) BY <1>1, <1>9 DEF EnableMongoDB, Kinds, StoreType
<1>10. CASE LoseVolume(i)
  <2>1. [docs EXCEPT ![i] = [imsi \in IMSIs |-> <<>>]] \in [Cores -> [IMSIs -> Seq(Document)]]
    <3>1. [imsi \in IMSIs |-> <<>>] \in [IMSIs -> Seq(Document)] OBVIOUS
    <3> QED BY <3>1 DEF StoreType
  <2>2. StoreType' BY <1>10, <2>1 DEF LoseVolume, StoreType
  <2> QED BY <1>1, <1>10, <2>2 DEF LoseVolume, Kinds
<1>11. CASE StartMongoDB(i)
  BY <1>2, <1>11
     DEF StartMongoDB, HistoryType, WorkerType, StoreType, UsedType, user, profile
<1>12. CASE StopMongoDB(i) BY <1>1, <1>12 DEF StopMongoDB, Kinds, StoreType
<1>13. CASE DisableMongoDB(i) BY <1>1, <1>13 DEF DisableMongoDB, Kinds, StoreType
<1> QED BY <1>2, <1>4, <1>5, <1>6, <1>7, <1>8, <1>9, <1>10, <1>11, <1>12, <1>13

LEMMA InitType == Init => TypeOK
<1> SUFFICES ASSUME Init PROVE TypeOK OBVIOUS
<1>1. HistoryType
  <2>1. Absent \in Object BY ObjectTypes
  <2>2. <<Absent>> \in Seq(Object) /\ Len(<<Absent>>) = 1 BY <2>1
  <2> QED BY <2>2 DEF Init, HistoryType
<1>2. WorkerType BY DEF Init, WorkerType, Idle, PCs
<1>3. StoreType BY UserAssumption DEF Init, StoreType
<1> QED BY <1>1, <1>2, <1>3 DEF Init, TypeOK, UsedType

LEMMA TypesStay == TypeOK /\ Next => TypeOK'
BY OwnersType, ManagerType, WorkerStepType, FaultsType, OutsideType DEF Next

(***************************************************************************)
(* Type correctness of the controller, for any number of users, of Open5GS *)
(* instances and of events.                                                *)
(***************************************************************************)
THEOREM TypeCorrect == Spec => []TypeOK
<1>1. Init => TypeOK BY InitType
<1>2. TypeOK /\ [Next]_vars => TypeOK'
  <2>1. TypeOK /\ UNCHANGED vars => TypeOK'
    BY DEF vars, cluster, TypeOK, HistoryType, WorkerType, StoreType, UsedType, user, profile
  <2> QED BY <2>1, TypesStay
<1> QED BY <1>1, <1>2, PTL DEF Spec

-------------------------------------------------------------------------------
(***************************************************************************)
(* Why the age of the version a pass read does not matter.                 *)
(*                                                                         *)
(* Only the worker takes a finalizer off, and it does so on the last       *)
(* version, which it read from the cache. So once the finalizer is gone    *)
(* the cache has reached a version marked for deletion, and never again    *)
(* shows an older one with the finalizer and without the mark.             *)
(***************************************************************************)
FinalizerHeld ==
  \A u \in Users : \A i \in seen[u]..Len(history[u]) :
    history[u][i].finalizer /\ ~history[u][i].deleting
      => Current(u).present /\ Current(u).finalizer

DeletionPass ==
  worker.pc \in {"deleteSubscriber", "DeleteOne", "removeFinalizer"} =>
    user.deleting /\ worker.rv <= seen[worker.user]

IInv == TypeOK /\ FinalizerHeld /\ DeletionPass /\ WriteUnderFinalizer

Writing == {"reconcileSubscriber", "FindOne", "InsertOne", "UpdateOne"}
Deleting == {"deleteSubscriber", "DeleteOne", "removeFinalizer"}

(***************************************************************************)
(* A write to the log of u keeps the invariant, the pass unchanged or      *)
(* over, if the new version is no unmarked finalizer on a resource that    *)
(* is gone and no version still to be seen loses its finalizer by it.      *)
(***************************************************************************)
LEMMA WriteKeepsFinalizer ==
  ASSUME IInv, NEW u \in Users, NEW o \in Object, Write(u, o), UNCHANGED seen,
         o.finalizer /\ ~o.deleting => o.present,
         \/ o.present /\ o.finalizer
         \/ \A i \in seen[u]..Len(history[u]) : ~(history[u][i].finalizer /\ ~history[u][i].deleting)
  PROVE  /\ FinalizerHeld'
         /\ history'[u][Len(history'[u])] = o
         /\ \A v \in Users \ {u} : Current(v)' = Current(v)
         /\ worker.pc # "idle" => history'[worker.user][worker.rv] = user
<1>1. /\ history \in [Users -> Seq(Object)]
      /\ \A v \in Users : Len(history[v]) \in Nat /\ seen[v] \in 1..Len(history[v])
  <2>1. history \in [Users -> Seq(Object)] /\ \A v \in Users : seen[v] \in 1..Len(history[v])
    BY DEF IInv, TypeOK, HistoryType
  <2> QED BY <2>1
<1>2. /\ Len(history'[u]) = Len(history[u]) + 1
      /\ \A i \in 1..Len(history[u]) : history'[u][i] = history[u][i]
      /\ history'[u][Len(history[u]) + 1] = o
      /\ \A v \in Users \ {u} : history'[v] = history[v]
  BY <1>1, WriteFacts
<1>3. /\ history'[u][Len(history'[u])] = o /\ Current(u)' = o
      /\ \A v \in Users \ {u} : Current(v)' = Current(v)
  BY <1>2 DEF Current
<1>4. FinalizerHeld'
  <2>1. SUFFICES ASSUME NEW v \in Users, NEW i \in seen[v]..Len(history'[v]),
                        history'[v][i].finalizer, ~history'[v][i].deleting
                 PROVE  Current(v)'.present /\ Current(v)'.finalizer
    BY DEF FinalizerHeld
  <2>2. CASE v # u
    BY <1>2, <1>3, <2>1, <2>2 DEF IInv, FinalizerHeld
  <2>3. CASE v = u /\ i = Len(history[u]) + 1
    BY <1>2, <1>3, <2>1, <2>3
  <2>4. CASE v = u /\ i # Len(history[u]) + 1
    <3>1. i \in seen[u]..Len(history[u]) /\ i \in 1..Len(history[u])
      BY <1>1, <1>2, <2>1, <2>4
    <3> QED BY <1>2, <1>3, <2>1, <2>4, <3>1
  <2> QED BY <2>2, <2>3, <2>4
<1>5. ASSUME worker.pc # "idle" PROVE history'[worker.user][worker.rv] = user
  <2>1. worker.user \in Users /\ worker.rv \in 1..Len(history[worker.user])
    BY <1>5 DEF IInv, TypeOK, WorkerType
  <2> QED BY <1>2, <2>1 DEF user
<1> QED BY <1>3, <1>4, <1>5

LEMMA OwnersKeep == IInv /\ Owners => FinalizerHeld' /\ DeletionPass' /\ WriteUnderFinalizer'
<1> SUFFICES ASSUME IInv, NEW u \in Users,
                    \/ \E spec \in SpecsOf[u] : CreateUser(u, spec) \/ EditUser(u, spec)
                    \/ DeleteUser(u)
             PROVE  FinalizerHeld' /\ DeletionPass' /\ WriteUnderFinalizer'
  BY DEF Owners
<1>1. /\ SpecsOf[u] \subseteq UserSpec /\ Current(u) \in Object
      /\ Len(history[u]) \in seen[u]..Len(history[u])
  <2>1. HistoryType BY DEF IInv, TypeOK
  <2> QED BY <2>1, ResourceAssumption, CurrentType
\* The cases differ in the version they write only.
<1>2. ASSUME NEW o \in Object, Write(u, o), UNCHANGED <<seen, worker>>,
             \/ ~Current(u).present /\ ~o.finalizer
             \/ Current(u).present /\ Current(u).finalizer /\ o.present /\ o.finalizer
             \/ Current(u).present /\ ~Current(u).finalizer /\ ~o.finalizer
      PROVE  FinalizerHeld' /\ DeletionPass' /\ WriteUnderFinalizer'
  <2>1. \/ o.present /\ o.finalizer
        \/ \A i \in seen[u]..Len(history[u]) : ~(history[u][i].finalizer /\ ~history[u][i].deleting)
    BY <1>2 DEF IInv, FinalizerHeld
  <2>2. o.finalizer /\ ~o.deleting => o.present BY <1>2
  <2>3. /\ FinalizerHeld' /\ Current(u)' = o
        /\ \A v \in Users \ {u} : Current(v)' = Current(v)
        /\ worker.pc # "idle" => user' = user
    BY <1>2, <2>1, <2>2, WriteKeepsFinalizer DEF user, Current
  <2>4. WriteUnderFinalizer'
    <3>1. worker.pc \in Writing => worker.user \in Users
      BY DEF IInv, TypeOK, WorkerType, Writing
    <3> QED BY <1>2, <2>3, <3>1 DEF IInv, WriteUnderFinalizer, Writing
  <2> QED BY <1>2, <2>3, <2>4 DEF IInv, DeletionPass
<1>3. ASSUME NEW spec \in SpecsOf[u], CreateUser(u, spec)
      PROVE  FinalizerHeld' /\ DeletionPass' /\ WriteUnderFinalizer'
  <2>1. Created(spec) \in Object /\ ~Created(spec).finalizer
    BY <1>1, ObjectTypes DEF Object, Created
  <2> QED BY <1>2, <1>3, <2>1 DEF CreateUser
<1>4. ASSUME NEW spec \in SpecsOf[u], EditUser(u, spec)
      PROVE  FinalizerHeld' /\ DeletionPass' /\ WriteUnderFinalizer'
  <2> DEFINE o == [Current(u) EXCEPT !.spec = spec]
  <2>1. Current(u) \in Existing BY <1>1, <1>4, ObjectTypes DEF EditUser
  <2>2. o \in Object /\ o.present /\ o.finalizer = Current(u).finalizer
    <3> HIDE DEF o
    <3>1. o = [Current(u) EXCEPT !.spec = spec] BY DEF o
    <3> QED BY <1>1, <2>1, <3>1 DEF Existing, Object
  <2> QED BY <1>2, <1>4, <2>1, <2>2 DEF EditUser
<1>5. CASE DeleteUser(u)
  <2> DEFINE o == Deleted(Current(u))
  <2>1. Current(u) \in Existing BY <1>1, <1>5, ObjectTypes DEF DeleteUser
  <2>2. o \in Object /\ (Current(u).finalizer => o.present /\ o.finalizer)
        /\ (~Current(u).finalizer => ~o.finalizer)
    BY <2>1, ObjectTypes DEF Deleted, Existing, Object, Absent
  <2> QED BY <1>2, <1>5, <2>2 DEF DeleteUser
<1> QED BY <1>3, <1>4, <1>5

LEMMA ManagerKeeps == IInv /\ Manager => FinalizerHeld' /\ DeletionPass' /\ WriteUnderFinalizer'
<1> SUFFICES ASSUME IInv, Manager
             PROVE  FinalizerHeld' /\ DeletionPass' /\ WriteUnderFinalizer'
  OBVIOUS
<1>1. CASE Restart
  BY <1>1 DEF Restart, Idle, IInv, FinalizerHeld, DeletionPass, WriteUnderFinalizer, Current
<1>2. ASSUME NEW u \in Users, SyncCache(u)
      PROVE  FinalizerHeld' /\ DeletionPass' /\ WriteUnderFinalizer'
  <2>1. /\ \A v \in Users : seen[v] \in Nat /\ Len(history[v]) \in Nat
        /\ seen \in [Users -> Nat]
        /\ worker.pc # "idle" => worker.user \in Users /\ worker.rv \in Nat
    BY DEF IInv, TypeOK, HistoryType, WorkerType
  <2>2. FinalizerHeld'
    <3>1. SUFFICES ASSUME NEW v \in Users, NEW i \in seen'[v]..Len(history[v])
                   PROVE  i \in seen[v]..Len(history[v])
      BY <1>2 DEF SyncCache, IInv, FinalizerHeld, Current
    <3> QED BY <1>2, <2>1, <3>1 DEF SyncCache
  <2>3. DeletionPass'
    BY <1>2, <2>1 DEF SyncCache, IInv, DeletionPass, user
  <2>4. WriteUnderFinalizer'
    BY <1>2 DEF SyncCache, IInv, WriteUnderFinalizer, Current
  <2> QED BY <2>2, <2>3, <2>4
<1>3. ASSUME NEW u \in Users, Start(u)
      PROVE  FinalizerHeld' /\ DeletionPass' /\ WriteUnderFinalizer'
  <2>1. /\ seen[u] \in seen[u]..Len(history[u]) /\ seen[u] \in Nat
    <3>1. HistoryType BY DEF IInv, TypeOK
    <3> QED BY <3>1, CurrentType
  <2>2. /\ worker'.pc = FirstStep(Cached(u)) /\ worker'.user = u /\ worker'.rv = seen[u]
        /\ history' = history /\ seen' = seen
    BY <1>3 DEF Start
  <2>3. user' = Cached(u) BY <2>2 DEF user, Cached
  <2>4. FinalizerHeld' BY <2>2 DEF IInv, FinalizerHeld, Current
  <2>5. DeletionPass'
    BY <2>1, <2>2, <2>3 DEF DeletionPass, FirstStep
  <2>6. WriteUnderFinalizer'
    BY <2>1, <2>2 DEF IInv, FinalizerHeld, WriteUnderFinalizer, FirstStep, Cached, Current
  <2> QED BY <2>4, <2>5, <2>6
<1>4. ASSUME NEW u \in Users, StartGone(u)
      PROVE  FinalizerHeld' /\ DeletionPass' /\ WriteUnderFinalizer'
  BY <1>4 DEF StartGone, IInv, FinalizerHeld, DeletionPass, WriteUnderFinalizer, Current, user
<1> QED BY <1>1, <1>2, <1>3, <1>4 DEF Manager

\* Putting the finalizer on the last version of a resource keeps FinalizerHeld.
LEMMA AddFinalizerKeeps ==
  ASSUME IInv, worker.pc = "addFinalizer", UpToDate, UNCHANGED seen,
         Write(worker.user, [user EXCEPT !.finalizer = TRUE])
  PROVE  /\ FinalizerHeld'
         /\ history'[worker.user][Len(history'[worker.user])].present
         /\ history'[worker.user][Len(history'[worker.user])].finalizer
<1> DEFINE o == [user EXCEPT !.finalizer = TRUE]
<1>1. HistoryType /\ WorkerType BY DEF IInv, TypeOK
<1>2. o \in Object /\ o.present /\ o.finalizer
  BY <1>1, WithFinalizer
<1>3. worker.user \in Users BY <1>1, PassType
<1>4. Write(worker.user, o) OBVIOUS
<1> HIDE DEF o
<1>5. FinalizerHeld' /\ history'[worker.user][Len(history'[worker.user])] = o
  BY <1>2, <1>3, <1>4, WriteKeepsFinalizer
<1> QED BY <1>2, <1>3, <1>5

LEMMA WorkerKeeps == IInv /\ Worker => FinalizerHeld' /\ DeletionPass' /\ WriteUnderFinalizer'
<1> SUFFICES ASSUME IInv, Worker
             PROVE  FinalizerHeld' /\ DeletionPass' /\ WriteUnderFinalizer'
  OBVIOUS
<1> USE DEF IInv
<1>1. ASSUME Requeue, UNCHANGED <<history, seen>>
      PROVE  FinalizerHeld' /\ DeletionPass' /\ WriteUnderFinalizer'
  BY <1>1 DEF Requeue, Idle, FinalizerHeld, DeletionPass, WriteUnderFinalizer, Current
\* A pass goes on with its version, to a step of the same kind.
<1>2. ASSUME NEW pc, Goto(pc), UNCHANGED <<history, seen>>, worker.pc # "idle",
             \/ worker.pc \in Writing /\ pc \in Writing
             \/ worker.pc \in Deleting /\ pc \in Deleting
      PROVE  FinalizerHeld' /\ DeletionPass' /\ WriteUnderFinalizer'
  <2>1. worker'.pc = pc /\ worker'.user = worker.user /\ worker'.rv = worker.rv
    BY <1>2 DEF Goto, TypeOK, WorkerType
  <2>2. user' = user BY <1>2, <2>1 DEF user
  <2> QED BY <1>2, <2>1, <2>2
          DEF FinalizerHeld, DeletionPass, WriteUnderFinalizer, Current, Writing, Deleting
<1>3. CASE AddFinalizer
  <2>1. /\ FinalizerHeld'
        /\ history'[worker.user][Len(history'[worker.user])].present
        /\ history'[worker.user][Len(history'[worker.user])].finalizer
    BY <1>3, AddFinalizerKeeps DEF AddFinalizer
  <2>2. worker'.pc = "reconcileSubscriber" /\ worker'.user = worker.user
    BY <1>3 DEF AddFinalizer
  <2> QED BY <2>1, <2>2 DEF DeletionPass, WriteUnderFinalizer, Current
<1>4. CASE RemoveFinalizer
  <2>1. HistoryType /\ WorkerType /\ worker.pc = "removeFinalizer" /\ worker.pc # "idle"
    BY <1>4 DEF RemoveFinalizer, TypeOK
  <2>2. worker.user \in Users /\ Write(worker.user, Absent) /\ UNCHANGED seen
    BY <1>4, <2>1, PassType DEF RemoveFinalizer
  <2>3. \A i \in seen[worker.user]..Len(history[worker.user]) :
          i = worker.rv /\ history[worker.user][i].deleting
    <3>1. worker.rv = Len(history[worker.user]) /\ worker.rv <= seen[worker.user] /\ user.deleting
      BY <1>4 DEF RemoveFinalizer, UpToDate, DeletionPass
    <3>2. seen[worker.user] \in 1..Len(history[worker.user]) /\ Len(history[worker.user]) \in Nat
      BY <2>1, <2>2, CurrentType
    <3>3. ASSUME NEW i \in seen[worker.user]..Len(history[worker.user]) PROVE i = worker.rv
      BY <3>1, <3>2
    <3> QED BY <3>1, <3>3 DEF user
  <2>4. FinalizerHeld'
    BY <2>2, <2>3, ObjectTypes, WriteKeepsFinalizer DEF Absent
  <2> QED BY <1>4, <2>4 DEF RemoveFinalizer, Requeue, Idle, DeletionPass, WriteUnderFinalizer
<1>5. CASE UpdateConflict BY <1>1, <1>5 DEF UpdateConflict
<1>6. CASE reconcileSubscriber BY <1>1, <1>2, <1>6 DEF reconcileSubscriber, Writing
<1>7. CASE FindOne
  <2>1. NextCall(profile, Found) \in Writing \cup {"return"} BY DEF NextCall, Writing
  <2> QED BY <1>1, <1>2, <1>7, <2>1 DEF FindOne, Writing
<1>8. CASE InsertOne BY <1>1, <1>8 DEF InsertOne
<1>9. CASE UpdateOne BY <1>1, <1>9 DEF UpdateOne
<1>10. CASE deleteSubscriber BY <1>2, <1>10 DEF deleteSubscriber, Deleting
<1>11. CASE DeleteOne BY <1>1, <1>2, <1>11 DEF DeleteOne, Deleting
<1>12. CASE MongoUnreachable BY <1>1, <1>12 DEF MongoUnreachable
<1> QED BY <1>3, <1>4, <1>5, <1>6, <1>7, <1>8, <1>9, <1>10, <1>11, <1>12 DEF Worker

LEMMA EnvironmentKeeps ==
  IInv /\ (Faults \/ Outside) => FinalizerHeld' /\ DeletionPass' /\ WriteUnderFinalizer'
<1> SUFFICES ASSUME IInv, Faults \/ Outside
             PROVE  FinalizerHeld' /\ DeletionPass' /\ WriteUnderFinalizer'
  OBVIOUS
<1>1. CASE RequestFails
  BY <1>1 DEF RequestFails, Requeue, Idle, IInv, FinalizerHeld, DeletionPass, WriteUnderFinalizer, Current
<1>2. CASE DeleteReplyLost
  BY <1>2 DEF DeleteReplyLost, Requeue, Idle, IInv, FinalizerHeld, DeletionPass, WriteUnderFinalizer, Current
<1>3. CASE AddFinalizerReplyLost
  <2>1. FinalizerHeld' BY <1>3, AddFinalizerKeeps DEF AddFinalizerReplyLost
  <2> QED BY <1>3, <2>1 DEF AddFinalizerReplyLost, Requeue, Idle, DeletionPass, WriteUnderFinalizer
<1>4. CASE Outside
  <2>1. UNCHANGED <<history, seen, worker>>
    BY <1>4 DEF Outside, ExternalInsert, ExternalModify, ExternalRemove, CreateOpen5GS,
                DeleteOpen5GS, EnableMongoDB, StartMongoDB, StopMongoDB, LoseVolume, DisableMongoDB
  <2> QED BY <2>1 DEF IInv, FinalizerHeld, DeletionPass, WriteUnderFinalizer, Current, user
<1>5. CASE LookUpFails
  <2>1. CASE Requeue
    BY <1>5, <2>1 DEF LookUpFails, Requeue, Idle, IInv, FinalizerHeld, DeletionPass, WriteUnderFinalizer, Current
  <2>2. CASE worker.pc = "deleteSubscriber" /\ Goto("removeFinalizer")
    <3>1. /\ worker'.pc = "removeFinalizer" /\ worker'.user = worker.user
          /\ worker'.rv = worker.rv /\ UNCHANGED <<history, seen>>
      BY <1>5, <2>2 DEF LookUpFails, Goto, IInv, TypeOK, WorkerType
    <3>2. user' = user BY <3>1 DEF user
    <3> QED BY <2>2, <3>1, <3>2 DEF IInv, FinalizerHeld, DeletionPass, WriteUnderFinalizer, Current
  <2> QED BY <1>5, <2>1, <2>2 DEF LookUpFails
<1> QED BY <1>1, <1>2, <1>3, <1>4, <1>5 DEF Faults

LEMMA InitKeeps == Init => FinalizerHeld /\ DeletionPass /\ WriteUnderFinalizer
<1> SUFFICES ASSUME Init PROVE FinalizerHeld /\ DeletionPass /\ WriteUnderFinalizer OBVIOUS
<1>1. \A u \in Users : seen[u] = 1 /\ Len(history[u]) = 1 /\ ~history[u][1].finalizer
  BY DEF Init, Absent
<1> QED BY <1>1 DEF Init, Idle, FinalizerHeld, DeletionPass, WriteUnderFinalizer

LEMMA AlwaysGuarded == Spec => []IInv
<1>1. Init => FinalizerHeld /\ DeletionPass /\ WriteUnderFinalizer BY InitKeeps
<1>2. TypeOK /\ TypeOK' /\ FinalizerHeld /\ DeletionPass /\ WriteUnderFinalizer /\ [Next]_vars
        => FinalizerHeld' /\ DeletionPass' /\ WriteUnderFinalizer'
  <2>1. IInv /\ UNCHANGED vars => FinalizerHeld' /\ DeletionPass' /\ WriteUnderFinalizer'
    BY DEF vars, IInv, FinalizerHeld, DeletionPass, WriteUnderFinalizer, Current, user
  <2> QED BY <2>1, OwnersKeep, ManagerKeeps, WorkerKeeps, EnvironmentKeeps DEF Next, IInv
<1>3. IInv <=> TypeOK /\ FinalizerHeld /\ DeletionPass /\ WriteUnderFinalizer BY DEF IInv
<1> QED BY <1>1, <1>2, <1>3, TypeCorrect, PTL DEF Spec

(***************************************************************************)
(* A subscriber is written only under a finalizer, for any number of       *)
(* users, edits, deletions, re-creations, crashes and failures, and however *)
(* far the cache trails behind.                                            *)
(***************************************************************************)
THEOREM WritesUnderFinalizer == Spec => []WriteUnderFinalizer
<1>1. IInv => WriteUnderFinalizer BY DEF IInv
<1> QED BY <1>1, AlwaysGuarded, PTL

-------------------------------------------------------------------------------
(***************************************************************************)
(* Why two calls, FindOne and InsertOne, and no unique index give no IMSI  *)
(* two documents: there is one worker, it is the only one to insert, and   *)
(* what it found missing is still missing when it inserts.                 *)
(***************************************************************************)
InsertsFirst == worker.pc = "InsertOne" /\ worker.core \in Cores => Found = <<>>
Single == AtMostOneDocument /\ InsertsFirst

\* The pass is about to add a document.
Adds(i, imsi) == worker.pc = "InsertOne" /\ worker.core = i /\ profile.imsi = imsi

(***************************************************************************)
(* What any step, of the operator or not, does to the documents of an IMSI *)
(* and to the pass that may add one: it adds what the pass was to add, or  *)
(* it adds none, and brings the pass there only when there are none.       *)
(***************************************************************************)
DocumentsStep == \A i \in Cores, imsi \in IMSIs :
  \/ Len(docs'[i][imsi]) <= Len(docs[i][imsi]) /\ (Adds(i, imsi)' => Adds(i, imsi))
  \/ Len(docs'[i][imsi]) = Len(docs[i][imsi]) + 1 /\ Adds(i, imsi) /\ ~Adds(i, imsi)'
  \/ docs[i][imsi] = <<>> /\ docs'[i][imsi] = <<>>

LEMMA LogKept ==
  ASSUME HistoryType, NEW u \in Users, NEW o, Write(u, o)
  PROVE  \A v \in Users : \A i \in 1..Len(history[v]) : history'[v][i] = history[v][i]
<1>1. history \in [Users -> Seq(Object)] BY DEF HistoryType
<1>2. history' = [history EXCEPT ![u] = Append(history[u], o)] BY DEF Write
<1>3. history[u] \in Seq(Object \cup {o}) BY <1>1
<1>4. \A i \in 1..Len(history[u]) : Append(history[u], o)[i] = history[u][i]
  BY <1>3, AppendFacts
<1> QED BY <1>1, <1>2, <1>4

LEMMA SetDocsFacts ==
  ASSUME StoreType, NEW i \in Cores, NEW imsi \in IMSIs, NEW found, SetDocs(i, imsi, found)
  PROVE  \A j \in Cores, m \in IMSIs :
           docs'[j][m] = IF j = i /\ m = imsi THEN found ELSE docs[j][m]
<1>1. docs \in [Cores -> [IMSIs -> Seq(Document)]] BY DEF StoreType
<1>2. docs' = [docs EXCEPT ![i] = [docs[i] EXCEPT ![imsi] = found]] BY DEF SetDocs
<1> QED BY <1>1, <1>2

\* No list of documents gets longer, and the pass is not about to insert, or was
\* before and has not moved.
LEMMA NoneAdded ==
  ASSUME \A i \in Cores, imsi \in IMSIs : Len(docs'[i][imsi]) <= Len(docs[i][imsi]),
         worker'.pc = "InsertOne" => UNCHANGED worker /\ user' = user
  PROVE  DocumentsStep
<1>1. \A i \in Cores, imsi \in IMSIs : Adds(i, imsi)' => Adds(i, imsi)
  BY DEF Adds, profile
<1> QED BY <1>1 DEF DocumentsStep

LEMMA SameDocs ==
  ASSUME TypeOK, UNCHANGED docs
  PROVE  \A i \in Cores, imsi \in IMSIs : Len(docs'[i][imsi]) <= Len(docs[i][imsi])
<1>1. \A i \in Cores, imsi \in IMSIs : docs[i][imsi] \in Seq(Document)
  BY DEF TypeOK, StoreType
<1> QED BY <1>1

\* The version a pass works on stays where it is, whoever writes to the log.
LEMMA UserKept ==
  ASSUME HistoryType, WorkerType, worker.pc # "idle", UNCHANGED worker,
         UNCHANGED history \/ \E u \in Users : \E o : Write(u, o)
  PROVE  user' = user
<1>1. worker.user \in Users /\ worker.rv \in 1..Len(history[worker.user])
  BY DEF WorkerType
<1>2. CASE UNCHANGED history BY <1>2 DEF user
<1>3. CASE \E u \in Users : \E o : Write(u, o)
  <2>1. PICK u \in Users : \E o : Write(u, o) BY <1>3
  <2>2. PICK o : Write(u, o) BY <2>1
  <2> QED BY <1>1, <2>2, LogKept DEF user
<1> QED BY <1>2, <1>3

\* Steps of which the worker takes no part.
LEMMA OthersAddNone ==
  ASSUME TypeOK, UNCHANGED worker,
         UNCHANGED history \/ \E u \in Users : \E o : Write(u, o),
         \A i \in Cores, imsi \in IMSIs : Len(docs'[i][imsi]) <= Len(docs[i][imsi])
  PROVE  DocumentsStep
<1>1. worker'.pc = "InsertOne" => UNCHANGED worker /\ user' = user
  <2>1. SUFFICES ASSUME worker'.pc = "InsertOne" PROVE user' = user OBVIOUS
  <2>2. HistoryType /\ WorkerType /\ worker.pc # "idle" BY <2>1 DEF TypeOK
  <2> QED BY <2>2, UserKept
<1> QED BY <1>1, NoneAdded

LEMMA OwnersDocuments == TypeOK /\ Owners => DocumentsStep
<1> SUFFICES ASSUME TypeOK, Owners PROVE DocumentsStep OBVIOUS
<1>1. UNCHANGED worker /\ UNCHANGED docs /\ \E u \in Users : \E o : Write(u, o)
  BY DEF Owners, CreateUser, EditUser, DeleteUser
<1> QED BY <1>1, SameDocs, OthersAddNone

LEMMA ManagerDocuments == TypeOK /\ Manager => DocumentsStep
<1> SUFFICES ASSUME TypeOK, Manager PROVE DocumentsStep OBVIOUS
<1>1. UNCHANGED docs BY DEF Manager, Restart, SyncCache, Start, StartGone
<1>2. CASE Restart BY <1>1, <1>2, SameDocs, NoneAdded DEF Restart, Idle
<1>3. ASSUME NEW u \in Users, SyncCache(u) \/ StartGone(u) PROVE DocumentsStep
  BY <1>1, <1>3, SameDocs, OthersAddNone DEF SyncCache, StartGone
<1>4. ASSUME NEW u \in Users, Start(u) PROVE DocumentsStep
  <2>1. worker'.pc # "InsertOne" BY <1>4 DEF Start, FirstStep
  <2> QED BY <1>1, <2>1, SameDocs, NoneAdded
<1> QED BY <1>2, <1>3, <1>4 DEF Manager

\* What a pass does to the documents of its IMSI, in an instance that is up.
LEMMA PassSetsDocs ==
  ASSUME TypeOK, worker.pc # "idle", Answering, NEW found, SetDocs(worker.core, profile.imsi, found)
  PROVE  /\ worker.core \in Cores /\ profile.imsi \in IMSIs /\ Found \in Seq(Document)
         /\ \A j \in Cores, m \in IMSIs :
              docs'[j][m] = IF j = worker.core /\ m = profile.imsi THEN found ELSE docs[j][m]
         /\ Len(found) <= Len(Found) =>
              \A j \in Cores, m \in IMSIs : Len(docs'[j][m]) <= Len(docs[j][m])
<1>1. worker.core \in Cores /\ profile.imsi \in IMSIs /\ Found \in Seq(Document)
  BY FoundType, PassType DEF TypeOK
<1>2. \A j \in Cores, m \in IMSIs :
        docs'[j][m] = IF j = worker.core /\ m = profile.imsi THEN found ELSE docs[j][m]
  BY <1>1, SetDocsFacts DEF TypeOK
<1>3. \A j \in Cores, m \in IMSIs : docs[j][m] \in Seq(Document)
  BY DEF TypeOK, StoreType
<1>4. \A j \in Cores, m \in IMSIs : Len(docs[j][m]) <= Len(docs[j][m])
  BY <1>3
<1>5. ASSUME Len(found) <= Len(Found), NEW j \in Cores, NEW m \in IMSIs
      PROVE  Len(docs'[j][m]) <= Len(docs[j][m])
  <2>1. CASE j = worker.core /\ m = profile.imsi BY <1>2, <1>5, <2>1 DEF Found
  <2>2. CASE ~(j = worker.core /\ m = profile.imsi) BY <1>2, <1>4, <2>2
  <2> QED BY <2>1, <2>2
<1> QED BY <1>1, <1>2, <1>5

LEMMA InsertDocuments == TypeOK /\ InsertOne => DocumentsStep
<1> SUFFICES ASSUME TypeOK, InsertOne, NEW i \in Cores, NEW imsi \in IMSIs
             PROVE  \/ Len(docs'[i][imsi]) <= Len(docs[i][imsi]) /\ ~Adds(i, imsi)'
                    \/ Len(docs'[i][imsi]) = Len(docs[i][imsi]) + 1
                       /\ Adds(i, imsi) /\ ~Adds(i, imsi)'
  BY DEF DocumentsStep
<1> DEFINE found == Append(Found, AddedDocument(profile))
<1>1. worker.pc = "InsertOne" /\ Answering /\ SetDocs(worker.core, profile.imsi, found)
      /\ worker'.pc # "InsertOne"
  BY DEF InsertOne, Requeue, Idle
<1>2. Len(found) = Len(Found) + 1
  <2>1. ~AddFails(profile) /\ profile \in Profile BY <1>1, PassType DEF TypeOK, WorkerType
  <2>2. AddedDocument(profile) \in Document BY <2>1, AddedDocumentType
  <2>3. Found \in Seq(Document) BY <1>1, PassSetsDocs
  <2> HIDE DEF Found
  <2> QED BY <2>2, <2>3, AppendFacts
<1> HIDE DEF found
<1>3. docs'[i][imsi] = IF i = worker.core /\ imsi = profile.imsi THEN found ELSE docs[i][imsi]
  BY <1>1, PassSetsDocs
<1>4. ~Adds(i, imsi)' BY <1>1 DEF Adds
<1>5. CASE i = worker.core /\ imsi = profile.imsi
  <2>1. Adds(i, imsi) BY <1>1, <1>5 DEF Adds
  <2>2. Len(docs'[i][imsi]) = Len(docs[i][imsi]) + 1 BY <1>2, <1>3, <1>5 DEF Found
  <2> QED BY <1>4, <2>1, <2>2
<1>6. CASE ~(i = worker.core /\ imsi = profile.imsi)
  <2>1. docs'[i][imsi] = docs[i][imsi] BY <1>3, <1>6
  <2>2. Len(docs[i][imsi]) \in Nat BY DEF TypeOK, StoreType
  <2>3. Len(docs'[i][imsi]) <= Len(docs[i][imsi]) BY <2>1, <2>2
  <2> QED BY <1>4, <2>3
<1> QED BY <1>5, <1>6

LEMMA LengthFacts ==
  ASSUME NEW S, NEW s \in Seq(S), s # <<>>, NEW e \in S
  PROVE  Len(Tail(s)) <= Len(s) /\ Len(<<e>> \o Tail(s)) <= Len(s)
<1>1. Len(s) \in Nat /\ Len(s) > 0 BY SMT
<1>2. Tail(s) \in Seq(S) /\ Len(Tail(s)) = Len(s) - 1 BY <1>1
<1>3. <<e>> \in Seq(S) /\ Len(<<e>>) = 1 OBVIOUS
<1>4. Len(<<e>> \o Tail(s)) = Len(<<e>>) + Len(Tail(s)) BY <1>2, <1>3
<1> QED BY <1>1, <1>2, <1>3, <1>4

\* Removing the oldest document of the IMSI, the pass going elsewhere.
LEMMA RemovalAddsNone ==
  ASSUME TypeOK, worker.pc # "idle", Answering, Found # <<>>,
         SetDocs(worker.core, profile.imsi, Tail(Found)), worker'.pc # "InsertOne"
  PROVE  DocumentsStep
<1>1. Found \in Seq(Document) BY FoundType
<1>2. Len(Tail(Found)) <= Len(Found)
  <2> HIDE DEF Found
  <2>1. Head(Found) \in Document BY <1>1, NonemptyFacts
  <2> QED BY <1>1, <2>1, LengthFacts
<1> QED BY <1>2, PassSetsDocs, NoneAdded

LEMMA WorkerDocuments == TypeOK /\ Worker => DocumentsStep
<1> SUFFICES ASSUME TypeOK, Worker PROVE DocumentsStep OBVIOUS
<1>1. CASE AddFinalizer
  BY <1>1, SameDocs, NoneAdded DEF AddFinalizer
<1>2. CASE UpdateConflict
  BY <1>2, SameDocs, NoneAdded DEF UpdateConflict, Requeue, Idle
<1>3. CASE reconcileSubscriber
  <2>1. worker'.pc # "InsertOne"
    BY <1>3 DEF reconcileSubscriber, Goto, Requeue, Idle, TypeOK, WorkerType
  <2> QED BY <1>3, <2>1, SameDocs, NoneAdded DEF reconcileSubscriber
<1>4. CASE FindOne
  <2>1. UNCHANGED docs /\ UNCHANGED history BY <1>4 DEF FindOne
  <2>2. CASE worker'.pc # "InsertOne" BY <2>1, <2>2, SameDocs, NoneAdded
  <2>3. CASE worker'.pc = "InsertOne"
    <3>1. NextCall(profile, Found) = "InsertOne" /\ Goto("InsertOne")
      BY <1>4, <2>3 DEF FindOne, Goto, Requeue, Idle, TypeOK, WorkerType
    <3>2. Found = <<>> BY <3>1 DEF NextCall
    <3>3. worker'.core = worker.core /\ worker'.user = worker.user /\ worker'.rv = worker.rv
      BY <3>1 DEF Goto, TypeOK, WorkerType
    <3>4. profile' = profile BY <2>1, <3>3 DEF profile, user
    <3>5. ASSUME NEW i \in Cores, NEW imsi \in IMSIs
          PROVE  \/ docs[i][imsi] = <<>> /\ docs'[i][imsi] = <<>>
                 \/ Len(docs'[i][imsi]) <= Len(docs[i][imsi]) /\ ~Adds(i, imsi)'
      <4>1. CASE i = worker.core /\ imsi = profile.imsi BY <2>1, <3>2, <4>1 DEF Found
      <4>2. CASE ~(i = worker.core /\ imsi = profile.imsi)
        <5>1. ~Adds(i, imsi)' BY <3>3, <3>4, <4>2 DEF Adds
        <5> QED BY <2>1, <5>1, SameDocs
      <4> QED BY <4>1, <4>2
    <3> QED BY <3>5 DEF DocumentsStep
  <2> QED BY <2>2, <2>3
<1>5. CASE InsertOne BY <1>5, InsertDocuments
<1>6. CASE UpdateOne
  <2> DEFINE found == IF Found = <<>> THEN <<>>
                      ELSE <<UpdatedDocument(profile, Head(Found))>> \o Tail(Found)
  <2>1. worker.pc # "idle" /\ Answering /\ SetDocs(worker.core, profile.imsi, found)
        /\ worker'.pc # "InsertOne" /\ ~UpdateFails(profile)
    BY <1>6 DEF UpdateOne, Requeue, Idle, TypeOK, WorkerType
  <2>2. Found \in Seq(Document) /\ profile \in Profile
    BY <2>1, FoundType, PassType DEF TypeOK
  <2>3. Len(found) <= Len(Found)
    <3>1. CASE Found = <<>> BY <3>1
    <3>2. CASE Found # <<>>
      <4>1. UpdatedDocument(profile, Head(Found)) \in Document
        BY <2>1, <2>2, <3>2, NonemptyFacts, UpdatedDocumentType
      <4> HIDE DEF Found
      <4> QED BY <2>2, <3>2, <4>1, LengthFacts
    <3> QED BY <3>1, <3>2
  <2> HIDE DEF found
  <2> QED BY <2>1, <2>3, PassSetsDocs, NoneAdded
<1>7. CASE deleteSubscriber
  <2>1. worker'.pc # "InsertOne"
    BY <1>7 DEF deleteSubscriber, Goto, TypeOK, WorkerType
  <2> QED BY <1>7, <2>1, SameDocs, NoneAdded DEF deleteSubscriber
<1>8. CASE DeleteOne
  <2>1. worker'.pc # "InsertOne" /\ worker.pc # "idle" /\ Answering
    BY <1>8 DEF DeleteOne, Goto, Requeue, Idle, TypeOK, WorkerType
  <2>2. CASE Found = <<>>
    BY <1>8, <2>1, <2>2, SameDocs, NoneAdded DEF DeleteOne
  <2>3. CASE Found # <<>>
    BY <1>8, <2>1, <2>3, RemovalAddsNone DEF DeleteOne
  <2> QED BY <2>2, <2>3
<1>9. CASE RemoveFinalizer
  BY <1>9, SameDocs, NoneAdded DEF RemoveFinalizer, Requeue, Idle
<1>10. CASE MongoUnreachable
  BY <1>10, SameDocs, NoneAdded DEF MongoUnreachable, Requeue, Idle
<1> QED BY <1>1, <1>2, <1>3, <1>4, <1>5, <1>6, <1>7, <1>8, <1>9, <1>10 DEF Worker

LEMMA FaultsDocuments == TypeOK /\ Faults => DocumentsStep
<1> SUFFICES ASSUME TypeOK, Faults PROVE DocumentsStep OBVIOUS
<1>1. CASE RequestFails
  BY <1>1, SameDocs, NoneAdded DEF RequestFails, Requeue, Idle
<1>2. CASE AddFinalizerReplyLost
  BY <1>2, SameDocs, NoneAdded DEF AddFinalizerReplyLost, Requeue, Idle
<1>3. CASE DeleteReplyLost
  BY <1>3, RemovalAddsNone DEF DeleteReplyLost, Requeue, Idle
<1>4. CASE LookUpFails
  <2>1. worker'.pc # "InsertOne"
    BY <1>4 DEF LookUpFails, Requeue, Goto, Idle, TypeOK, WorkerType
  <2> QED BY <1>4, <2>1, SameDocs, NoneAdded DEF LookUpFails
<1> QED BY <1>1, <1>2, <1>3, <1>4 DEF Faults

\* Outside the operator only removals are left when scripts write no document.
LEMMA OutsideOnlyRemoves ==
  ASSUME ExternalDocuments = {}, TypeOK, Outside
  PROVE  \A j \in Cores, m \in IMSIs : docs'[j][m] = <<>> \/ docs'[j][m] = docs[j][m]
<1>1. docs \in [Cores -> [IMSIs -> Seq(Document)]] BY DEF TypeOK, StoreType
<1>2. PICK i \in Cores :
        \/ \E imsi \in IMSIs : SetDocs(i, imsi, <<>>)
        \/ docs' = [docs EXCEPT ![i] = [imsi \in IMSIs |-> <<>>]]
        \/ UNCHANGED docs
  BY DEF Outside, ExternalInsert, ExternalModify, ExternalRemove, CreateOpen5GS,
         DeleteOpen5GS, EnableMongoDB, StartMongoDB, StopMongoDB, LoseVolume, DisableMongoDB
<1>3. CASE \E imsi \in IMSIs : SetDocs(i, imsi, <<>>)
  <2>1. PICK imsi \in IMSIs : SetDocs(i, imsi, <<>>) BY <1>3
  <2> QED BY <2>1, SetDocsFacts DEF TypeOK
<1>4. CASE docs' = [docs EXCEPT ![i] = [imsi \in IMSIs |-> <<>>]] BY <1>1, <1>4
<1>5. CASE UNCHANGED docs BY <1>5
<1> QED BY <1>2, <1>3, <1>4, <1>5

LEMMA OutsideDocuments ==
  ASSUME ExternalDocuments = {}, TypeOK, Outside
  PROVE  DocumentsStep
<1>1. UNCHANGED <<worker, history>>
  BY DEF Outside, ExternalInsert, ExternalModify, ExternalRemove, CreateOpen5GS,
         DeleteOpen5GS, EnableMongoDB, StartMongoDB, StopMongoDB, LoseVolume, DisableMongoDB
<1>2. \A j \in Cores, m \in IMSIs :
        docs[j][m] \in Seq(Document) /\ Len(docs[j][m]) \in Nat /\ Len(<<>>) = 0
  <2>1. docs \in [Cores -> [IMSIs -> Seq(Document)]] BY DEF TypeOK, StoreType
  <2> QED BY <2>1
<1>3. ASSUME NEW j \in Cores, NEW m \in IMSIs PROVE Len(docs'[j][m]) <= Len(docs[j][m])
  <2>1. docs'[j][m] = <<>> \/ docs'[j][m] = docs[j][m] BY OutsideOnlyRemoves
  <2> QED BY <1>2, <2>1
<1> QED BY <1>1, <1>3, OthersAddNone

LEMMA InitSingle == Init => Single
BY DEF Init, Idle, Single, AtMostOneDocument, InsertsFirst

LEMMA StepSingle == TypeOK /\ TypeOK' /\ Single /\ DocumentsStep => Single'
<1> SUFFICES ASSUME TypeOK, TypeOK', Single, DocumentsStep PROVE Single' OBVIOUS
<1>1. \A i \in Cores, imsi \in IMSIs :
        docs[i][imsi] \in Seq(Document) /\ docs'[i][imsi] \in Seq(Document)
  BY DEF TypeOK, StoreType
<1>2. \A s \in Seq(Document) : Len(s) \in Nat /\ (Len(s) <= 0 <=> s = <<>>) OBVIOUS
<1>3. ASSUME NEW i \in Cores, NEW imsi \in IMSIs
      PROVE  Len(docs'[i][imsi]) <= 1 /\ (Adds(i, imsi)' => docs'[i][imsi] = <<>>)
  <2>1. Len(docs[i][imsi]) <= 1 BY DEF Single, AtMostOneDocument
  <2>2. Adds(i, imsi) => docs[i][imsi] = <<>>
    BY DEF Single, InsertsFirst, Adds, Found
  <2>3. CASE Len(docs'[i][imsi]) <= Len(docs[i][imsi]) /\ (Adds(i, imsi)' => Adds(i, imsi))
    <3>1. Len(docs'[i][imsi]) <= 1 BY <1>1, <1>2, <2>1, <2>3
    <3>2. docs[i][imsi] = <<>> => docs'[i][imsi] = <<>> BY <1>1, <1>2, <2>3
    <3> QED BY <2>2, <2>3, <3>1, <3>2
  <2>4. CASE Len(docs'[i][imsi]) = Len(docs[i][imsi]) + 1 /\ Adds(i, imsi) /\ ~Adds(i, imsi)'
    <3>1. Len(docs'[i][imsi]) <= 1 BY <1>1, <1>2, <2>2, <2>4
    <3> QED BY <2>4, <3>1
  <2>5. CASE docs[i][imsi] = <<>> /\ docs'[i][imsi] = <<>> BY <1>2, <2>5
  <2> QED BY <2>3, <2>4, <2>5 DEF DocumentsStep
<1>4. ASSUME worker'.pc = "InsertOne", worker'.core \in Cores PROVE Found' = <<>>
  <2>1. /\ worker'.user \in Users /\ history' \in [Users -> Seq(Object)]
        /\ worker'.rv \in 1..Len(history'[worker'.user]) /\ user'.present
    BY <1>4 DEF TypeOK, HistoryType, WorkerType
  <2>2. user' \in Existing
    <3>1. user' = history'[worker'.user][worker'.rv] BY DEF user
    <3>2. user' \in Object BY <2>1, <3>1
    <3> QED BY <2>1, <3>2, ObjectTypes
  <2>3. user'.spec.profile.imsi \in IMSIs BY <2>2 DEF Existing, UserSpec, Profile
  <2>4. profile' = user'.spec.profile BY DEF profile
  <2>5. ASSUME NEW i \in Cores, NEW imsi \in IMSIs, i = worker'.core, imsi = profile'.imsi
        PROVE  docs'[i][imsi] = <<>>
    <3>1. Adds(i, imsi)' BY <1>4, <2>5 DEF Adds
    <3> QED BY <1>3, <3>1
  <2>6. Found' = docs'[worker'.core][profile'.imsi] BY DEF Found
  <2> QED BY <1>4, <2>3, <2>4, <2>5, <2>6
<1>5. InsertsFirst' BY <1>4 DEF InsertsFirst
<1> QED BY <1>3, <1>5 DEF Single, AtMostOneDocument

LEMMA AddedByThePass == ExternalDocuments = {} /\ TypeOK /\ Next => DocumentsStep
BY OwnersDocuments, ManagerDocuments, WorkerDocuments, FaultsDocuments, OutsideDocuments DEF Next

LEMMA AlwaysSingle ==
  ASSUME ExternalDocuments = {}
  PROVE  Spec => []Single
<1>1. Init => Single BY InitSingle
<1>2. TypeOK /\ TypeOK' /\ Single /\ [Next]_vars => Single'
  <2>1. TypeOK /\ TypeOK' /\ Single /\ UNCHANGED vars => Single'
    BY DEF vars, Single, AtMostOneDocument, InsertsFirst, Found, profile, user
  <2> QED BY <2>1, AddedByThePass, StepSingle
<1> QED BY <1>1, <1>2, TypeCorrect, PTL DEF Spec

(***************************************************************************)
(* FindOne and InsertOne give no IMSI a second document, for any number of *)
(* users (also when several name the same IMSI), instances, edits, crashes *)
(* and lost replies, as long as only the operator inserts.                 *)
(***************************************************************************)
THEOREM OneDocumentPerIMSI ==
  ASSUME ExternalDocuments = {}
  PROVE  Spec => []AtMostOneDocument
<1>1. Single => AtMostOneDocument BY DEF Single
<1> QED BY <1>1, AlwaysSingle, PTL

-------------------------------------------------------------------------------
(***************************************************************************)
(* What an onlooker knows of a step: another manager, say, whose cache,    *)
(* queue and pass the step does not touch.                                 *)
(***************************************************************************)
LogGrows == UNCHANGED history \/ \E u \in Users : \E object \in Object : Write(u, object)
FaultsCount == used'["fault"] >= used["fault"]

LEMMA LogOnlyGrows == TypeOK /\ Next => LogGrows
<1> SUFFICES ASSUME TypeOK, Next PROVE LogGrows OBVIOUS
<1>1. UNCHANGED history \/ \E u \in Users : \E o : Write(u, o)
  <2>1. CASE Owners BY <2>1 DEF Owners, CreateUser, EditUser, DeleteUser
  <2>2. CASE Manager BY <2>2 DEF Manager, Restart, SyncCache, Start, StartGone
  <2>3. CASE Worker
    <3>1. worker.pc # "idle" => worker.user \in Users BY PassType DEF TypeOK
    <3> QED BY <2>3, <3>1
            DEF Worker, AddFinalizer, UpdateConflict, reconcileSubscriber, FindOne, InsertOne,
                UpdateOne, deleteSubscriber, DeleteOne, RemoveFinalizer, MongoUnreachable
  <2>4. CASE Faults
    <3>1. worker.pc # "idle" => worker.user \in Users BY PassType DEF TypeOK
    <3> QED BY <2>4, <3>1
            DEF Faults, RequestFails, LookUpFails, AddFinalizerReplyLost, DeleteReplyLost
  <2>5. CASE Outside
    BY <2>5 DEF Outside, ExternalInsert, ExternalModify, ExternalRemove, CreateOpen5GS,
                DeleteOpen5GS, EnableMongoDB, StartMongoDB, StopMongoDB, LoseVolume, DisableMongoDB
  <2> QED BY <2>1, <2>2, <2>3, <2>4, <2>5 DEF Next
<1>2. ASSUME NEW u \in Users, NEW o, Write(u, o) PROVE o \in Object
  <2>1. history \in [Users -> Seq(Object)] /\ history' \in [Users -> Seq(Object)]
    BY TypesStay DEF TypeOK, HistoryType
  <2>2. history'[u] = Append(history[u], o) BY <1>2, <2>1 DEF Write
  <2>3. history[u] \in Seq(Object) /\ Append(history[u], o) \in Seq(Object) BY <2>1, <2>2
  <2>4. Append(history[u], o)[Len(history[u]) + 1] = o
        /\ Len(history[u]) + 1 \in 1..Len(Append(history[u], o))
    BY <2>3
  <2> QED BY <2>3, <2>4
<1> QED BY <1>1, <1>2 DEF LogGrows

LEMMA FaultsOnlyCount == TypeOK /\ Next => FaultsCount
<1> SUFFICES ASSUME TypeOK, Next PROVE FaultsCount OBVIOUS
<1>1. used \in [Kinds -> Nat] /\ "fault" \in Kinds BY DEF TypeOK, UsedType, Kinds
<1>2. UNCHANGED used \/ \E kind \in Kinds : Spend(kind)
  <2> USE DEF Kinds
  <2>1. CASE Owners BY <2>1 DEF Owners, CreateUser, EditUser, DeleteUser
  <2>2. CASE Manager BY <2>2 DEF Manager, Restart, SyncCache, Start, StartGone
  <2>3. CASE Worker
    BY <2>3 DEF Worker, AddFinalizer, UpdateConflict, reconcileSubscriber, FindOne, InsertOne,
                UpdateOne, deleteSubscriber, DeleteOne, RemoveFinalizer, MongoUnreachable
  <2>4. CASE Faults
    BY <2>4 DEF Faults, RequestFails, LookUpFails, AddFinalizerReplyLost, DeleteReplyLost
  <2>5. CASE Outside
    BY <2>5 DEF Outside, ExternalInsert, ExternalModify, ExternalRemove, CreateOpen5GS,
                DeleteOpen5GS, EnableMongoDB, StartMongoDB, StopMongoDB, LoseVolume, DisableMongoDB
  <2> QED BY <2>1, <2>2, <2>3, <2>4, <2>5 DEF Next
<1>3. CASE UNCHANGED used BY <1>1, <1>3 DEF FaultsCount
<1>4. ASSUME NEW kind \in Kinds, Spend(kind) PROVE FaultsCount
  BY <1>1, <1>4 DEF Spend, FaultsCount
<1> QED BY <1>2, <1>3, <1>4

\* One who takes no part in a step stays well typed and adds what it was to add.
LEMMA OnlookerStays ==
  ASSUME TypeOK, LogGrows, UNCHANGED <<seen, queue, worker>>,
         StoreType', UsedType'
  PROVE  TypeOK' /\ \A i \in Cores, imsi \in IMSIs : Adds(i, imsi)' <=> Adds(i, imsi)
<1>1. HistoryType' /\ WorkerType'
  <2>1. CASE UNCHANGED history BY <2>1 DEF TypeOK, HistoryType, WorkerType, user, profile
  <2>2. CASE \E u \in Users : \E object \in Object : Write(u, object)
    BY <2>2, WriteType DEF TypeOK
  <2> QED BY <2>1, <2>2 DEF LogGrows
<1>2. worker.pc # "idle" => user' = user BY UserKept DEF TypeOK, LogGrows
<1>3. \A i \in Cores, imsi \in IMSIs : Adds(i, imsi)' <=> Adds(i, imsi)
  BY <1>2 DEF Adds, profile
<1> QED BY <1>1, <1>3 DEF TypeOK

===============================================================================
