------------------------ MODULE Open5GSUserStoreProofs ------------------------
(***************************************************************************)
(* The user controller touches only documents that are managed (or were,   *)
(* for a deletion that comes late), leaves none behind, and implements     *)
(* SubscriberStore: for every number of users (also of one IMSI),          *)
(* instances, edits, crashes and failed calls.                             *)
(*                                                                         *)
(* The hypotheses are those of the properties: an owner may edit           *)
(* everything but the IMSI and the name of the Open5GS, whose old document *)
(* the code never looks for. What scripts write and remove is free for the *)
(* first of these; for the other two only the operator inserts.            *)
(***************************************************************************)
EXTENDS Open5GSUserStore, Open5GSUserProofs

SettledSpecs ==
  \A u \in Users : \A s, t \in SpecsOf[u] :
    s.profile.imsi = t.profile.imsi /\ s.open5gs.name = t.open5gs.name

-------------------------------------------------------------------------------
(***************************************************************************)
(* Why a deletion seen late does no harm. A pass may work on a version     *)
(* marked for deletion long after the resource is gone and was created     *)
(* anew. But only a pass puts the finalizer on, and only on a version the  *)
(* cache has reached: a resource that is in service again was marked for   *)
(* deletion before any version that a pass can still hold.                 *)
(***************************************************************************)
LogsFaithful ==
  \A u \in Users : \A i \in 1..Len(history[u]) :
    /\ history[u][i].present => history[u][i].spec \in SpecsOf[u]
    /\ history[u][i].deleting => history[u][i].present /\ history[u][i].finalizer

InService(u) == Current(u).finalizer /\ ~Current(u).deleting

MarkedBefore(u, rv) == \A i \in 1..Len(history[u]) : history[u][i].deleting => i < rv

CacheNotRevived == \A u \in Users : InService(u) => MarkedBefore(u, seen[u])
PassNotRevived ==
  worker.pc # "idle" /\ InService(worker.user) => MarkedBefore(worker.user, worker.rv)

AddingPass ==
  worker.pc = "addFinalizer" => ~user.deleting /\ worker.rv <= seen[worker.user]

LogInv == LogsFaithful /\ CacheNotRevived /\ PassNotRevived /\ AddingPass

\* What a write that keeps the logs faithful, and revives nothing, leaves of LogInv
\* when the pass stays as it is or ends.
LEMMA WriteKeepsLogInv ==
  ASSUME TypeOK, LogInv, NEW u \in Users, NEW o \in Object, Write(u, o), UNCHANGED seen,
         UNCHANGED worker \/ worker'.pc = "idle",
         o.present => o.spec \in SpecsOf[u],
         o.deleting => o.present /\ o.finalizer,
         o.finalizer /\ ~o.deleting => InService(u)
  PROVE  LogInv'
<1>1. /\ history \in [Users -> Seq(Object)]
      /\ \A v \in Users : Len(history[v]) \in Nat
  <2>1. history \in [Users -> Seq(Object)] BY DEF TypeOK, HistoryType
  <2> QED BY <2>1
<1>2. /\ Len(history'[u]) = Len(history[u]) + 1
      /\ \A i \in 1..Len(history[u]) : history'[u][i] = history[u][i]
      /\ history'[u][Len(history[u]) + 1] = o
      /\ \A v \in Users \ {u} : history'[v] = history[v]
  BY <1>1, WriteFacts
<1>3. Current(u)' = o /\ \A v \in Users \ {u} : Current(v)' = Current(v)
  BY <1>2 DEF Current
<1>4. ASSUME NEW v \in Users, NEW i \in 1..Len(history'[v])
      PROVE  \/ i \in 1..Len(history[v]) /\ history'[v][i] = history[v][i]
             \/ v = u /\ history'[v][i] = o
  <2>1. CASE v = u
    <3>1. CASE i = Len(history[u]) + 1 BY <1>2, <2>1, <3>1
    <3>2. CASE i # Len(history[u]) + 1
      <4>1. i \in 1..Len(history[u]) BY <1>1, <1>2, <1>4, <2>1, <3>2
      <4> QED BY <1>2, <2>1, <4>1
    <3> QED BY <3>1, <3>2
  <2>2. CASE v # u BY <1>2, <1>4, <2>2
  <2> QED BY <2>1, <2>2
<1>5. LogsFaithful' BY <1>4 DEF LogInv, LogsFaithful
<1>6. ASSUME NEW v \in Users, InService(v)', NEW rv, MarkedBefore(v, rv)
      PROVE  InService(v) /\ \A i \in 1..Len(history'[v]) : history'[v][i].deleting => i < rv
  <2>1. InService(v) BY <1>3, <1>6 DEF InService
  <2>2. v = u => ~o.deleting BY <1>3, <1>6 DEF InService
  <2> QED BY <1>4, <1>6, <2>1, <2>2 DEF MarkedBefore
<1>7. CacheNotRevived'
  <2>1. ASSUME NEW v \in Users, InService(v)'
        PROVE  \A i \in 1..Len(history'[v]) : history'[v][i].deleting => i < seen[v]
    <3>1. InService(v) BY <1>3, <2>1 DEF InService
    <3>2. MarkedBefore(v, seen[v]) BY <3>1 DEF LogInv, CacheNotRevived
    <3> QED BY <1>6, <2>1, <3>2
  <2> QED BY <2>1 DEF CacheNotRevived, MarkedBefore
<1>8. PassNotRevived'
  <2>1. SUFFICES ASSUME worker'.pc # "idle", InService(worker.user)', UNCHANGED worker
                 PROVE  MarkedBefore(worker.user, worker.rv)'
    BY DEF PassNotRevived
  <2>2. worker.user \in Users BY <2>1 DEF TypeOK, WorkerType
  <2>3. InService(worker.user) BY <1>3, <2>1, <2>2 DEF InService
  <2>4. MarkedBefore(worker.user, worker.rv) BY <2>1, <2>3 DEF LogInv, PassNotRevived
  <2>5. \A i \in 1..Len(history'[worker.user]) : history'[worker.user][i].deleting => i < worker.rv
    BY <1>6, <2>1, <2>2, <2>4
  <2> QED BY <2>1, <2>5 DEF MarkedBefore
<1>9. AddingPass'
  <2>1. SUFFICES ASSUME worker'.pc = "addFinalizer", UNCHANGED worker
                 PROVE  ~user'.deleting /\ worker'.rv <= seen'[worker'.user]
    BY DEF AddingPass
  <2>2. worker.pc # "idle" /\ HistoryType /\ WorkerType BY <2>1 DEF TypeOK
  <2>3. user' = user BY <2>1, <2>2, UserKept
  <2> QED BY <2>1, <2>3 DEF LogInv, AddingPass
<1> QED BY <1>5, <1>7, <1>8, <1>9 DEF LogInv

LEMMA OwnersLogInv == TypeOK /\ LogInv /\ Owners => LogInv'
<1> SUFFICES ASSUME TypeOK, LogInv, NEW u \in Users,
                    \/ \E spec \in SpecsOf[u] : CreateUser(u, spec) \/ EditUser(u, spec)
                    \/ DeleteUser(u)
             PROVE  LogInv'
  BY DEF Owners
<1>1. SpecsOf[u] \subseteq UserSpec /\ Current(u) \in Object /\ Len(history[u]) \in 1..Len(history[u])
  BY ResourceAssumption, CurrentType DEF TypeOK
<1>2. Current(u).present => Current(u).spec \in SpecsOf[u]
  BY <1>1 DEF LogInv, LogsFaithful, Current
<1>3. ASSUME NEW spec \in SpecsOf[u], CreateUser(u, spec) PROVE LogInv'
  <2>1. Created(spec) \in Object BY <1>1, ObjectTypes DEF Object
  <2> QED BY <1>3, <2>1, WriteKeepsLogInv DEF CreateUser, Created
<1>4. ASSUME NEW spec \in SpecsOf[u], EditUser(u, spec) PROVE LogInv'
  <2> DEFINE o == [Current(u) EXCEPT !.spec = spec]
  <2>1. Current(u) \in Existing BY <1>1, <1>4, ObjectTypes DEF EditUser
  <2>2. /\ o \in Object /\ o.present /\ o.spec = spec
        /\ o.finalizer = Current(u).finalizer /\ o.deleting = Current(u).deleting
    <3>1. Current(u) \in [present : {TRUE}, deleting : BOOLEAN, finalizer : BOOLEAN, spec : UserSpec]
      BY <2>1 DEF Existing
    <3>2. o \in Existing BY <1>1, <2>1, ObjectTypes
    <3> QED BY <3>1, <3>2 DEF Object
  <2>3. Current(u).deleting => Current(u).finalizer
    BY <1>1 DEF LogInv, LogsFaithful, Current
  <2>4. Write(u, o) /\ UNCHANGED <<seen, worker>> BY <1>4 DEF EditUser
  <2> HIDE DEF o
  <2> QED BY <2>2, <2>3, <2>4, WriteKeepsLogInv DEF InService
<1>5. CASE DeleteUser(u)
  <2> DEFINE o == Deleted(Current(u))
  <2>1. Current(u) \in Existing BY <1>1, <1>5, ObjectTypes DEF DeleteUser
  <2>2. CASE Current(u).finalizer
    <3>1. o = [Current(u) EXCEPT !.deleting = TRUE] BY <2>2 DEF Deleted
    <3>2. Current(u) \in [present : {TRUE}, deleting : BOOLEAN, finalizer : BOOLEAN, spec : UserSpec]
      BY <2>1 DEF Existing
    <3>3. /\ o \in Object /\ o.present /\ o.spec = Current(u).spec
          /\ o.finalizer /\ o.deleting
      BY <2>1, <2>2, <3>1, <3>2, ObjectTypes DEF Object
    <3>4. Write(u, o) /\ UNCHANGED <<seen, worker>> BY <1>5 DEF DeleteUser
    <3> HIDE DEF o
    <3> QED BY <1>2, <2>1, <3>3, <3>4, WriteKeepsLogInv DEF Existing
  <2>3. CASE ~Current(u).finalizer
    <3>1. Deleted(Current(u)) = Absent BY <2>3 DEF Deleted
    <3> QED BY <1>5, <3>1, ObjectTypes, WriteKeepsLogInv DEF DeleteUser, Absent
  <2> QED BY <2>2, <2>3
<1> QED BY <1>3, <1>4, <1>5

\* A pass that goes on with the version it has, or ends, to a step that adds no finalizer.
LEMMA PassKeepsLogInv ==
  ASSUME TypeOK, LogInv, UNCHANGED <<history, seen>>, worker'.pc # "addFinalizer",
         \/ worker'.pc = "idle"
         \/ /\ worker.pc # "idle"
            /\ worker'.user = worker.user /\ worker'.rv = worker.rv
  PROVE  LogInv'
<1>1. LogsFaithful' BY DEF LogInv, LogsFaithful
<1>2. CacheNotRevived' BY DEF LogInv, CacheNotRevived, MarkedBefore, InService, Current
<1>3. PassNotRevived'
  BY DEF LogInv, PassNotRevived, MarkedBefore, InService, Current
<1>4. AddingPass' BY DEF AddingPass
<1> QED BY <1>1, <1>2, <1>3, <1>4 DEF LogInv

LEMMA ManagerLogInv == TypeOK /\ LogInv /\ Manager => LogInv'
<1> SUFFICES ASSUME TypeOK, LogInv, Manager PROVE LogInv' OBVIOUS
<1>1. CASE Restart BY <1>1, PassKeepsLogInv DEF Restart, Idle
<1>2. ASSUME NEW u \in Users, SyncCache(u) PROVE LogInv'
  <2>1. /\ UNCHANGED <<history, worker>> /\ seen \in [Users -> Nat]
        /\ seen' = [seen EXCEPT ![u] = seen[u] + 1]
        /\ \A v \in Users : Len(history[v]) \in Nat
    BY <1>2 DEF SyncCache, TypeOK, HistoryType
  <2>2. \A v \in Users : seen[v] <= seen'[v] /\ seen[v] \in Nat /\ seen'[v] \in Nat BY <2>1
  <2>3. LogsFaithful' BY <2>1 DEF LogInv, LogsFaithful
  <2>4. ASSUME NEW v \in Users, InService(v)' PROVE MarkedBefore(v, seen[v])'
    <3>1. InService(v) BY <2>1, <2>4 DEF InService, Current
    <3>2. MarkedBefore(v, seen[v]) BY <3>1 DEF LogInv, CacheNotRevived
    <3>3. ASSUME NEW i \in 1..Len(history[v]), history[v][i].deleting PROVE i < seen'[v]
      <4>1. i < seen[v] /\ i \in Int BY <3>2, <3>3 DEF MarkedBefore
      <4> QED BY <2>2, <4>1
    <3> QED BY <2>1, <3>3 DEF MarkedBefore
  <2>5. CacheNotRevived' BY <2>4 DEF CacheNotRevived
  <2>6. PassNotRevived'
    BY <2>1 DEF LogInv, PassNotRevived, MarkedBefore, InService, Current
  <2>7. AddingPass'
    <3>1. SUFFICES ASSUME worker.pc = "addFinalizer"
                   PROVE  ~user'.deleting /\ worker.rv <= seen'[worker.user]
      BY <2>1 DEF AddingPass
    <3>2. worker.user \in Users /\ worker.rv \in Nat BY <3>1 DEF TypeOK, WorkerType
    <3>3. ~user.deleting /\ worker.rv <= seen[worker.user] BY <3>1 DEF LogInv, AddingPass
    <3>4. worker.rv <= seen'[worker.user] BY <2>2, <3>2, <3>3
    <3> QED BY <2>1, <3>3, <3>4 DEF user
  <2> QED BY <2>3, <2>5, <2>6, <2>7 DEF LogInv
<1>3. ASSUME NEW u \in Users, Start(u) PROVE LogInv'
  <2>1. /\ worker'.pc = FirstStep(Cached(u)) /\ worker'.user = u /\ worker'.rv = seen[u]
        /\ UNCHANGED <<history, seen>>
    BY <1>3 DEF Start
  <2>2. LogsFaithful' BY <2>1 DEF LogInv, LogsFaithful
  <2>3. CacheNotRevived' BY <2>1 DEF LogInv, CacheNotRevived, MarkedBefore, InService, Current
  <2>4. PassNotRevived'
    BY <2>1 DEF LogInv, CacheNotRevived, PassNotRevived, MarkedBefore, InService, Current
  <2>5. AddingPass'
    <3>1. user' = Cached(u) BY <2>1 DEF user, Cached
    <3>2. seen[u] <= seen[u] BY DEF TypeOK, HistoryType
    <3> QED BY <2>1, <3>1, <3>2 DEF AddingPass, FirstStep
  <2> QED BY <2>2, <2>3, <2>4, <2>5 DEF LogInv
<1>4. ASSUME NEW u \in Users, StartGone(u) PROVE LogInv'
  BY <1>4 DEF StartGone, LogInv, LogsFaithful, CacheNotRevived, PassNotRevived, AddingPass,
              MarkedBefore, InService, Current, user
<1> QED BY <1>1, <1>2, <1>3, <1>4 DEF Manager

\* Putting the finalizer on the last version of a resource, and going on or not.
LEMMA AddFinalizerLogInv ==
  ASSUME TypeOK, LogInv, worker.pc = "addFinalizer", UpToDate, UNCHANGED seen,
         Write(worker.user, [user EXCEPT !.finalizer = TRUE]),
         \/ worker'.pc = "idle"
         \/ /\ worker'.pc # "addFinalizer"
            /\ worker'.user = worker.user /\ worker'.rv = worker.rv + 1
  PROVE  LogInv'
<1> DEFINE u == worker.user
           o == [user EXCEPT !.finalizer = TRUE]
<1>1. HistoryType /\ WorkerType /\ worker.pc # "idle" BY DEF TypeOK
<1>2. /\ u \in Users /\ worker.rv \in Nat /\ worker.rv = Len(history[u])
      /\ worker.rv \in 1..Len(history[u]) /\ history \in [Users -> Seq(Object)]
  BY <1>1, PassType DEF HistoryType, WorkerType, UpToDate
<1>3. /\ o \in Object /\ o.present /\ o.finalizer /\ o.deleting = user.deleting
      /\ o.spec = user.spec /\ user.present
  <2>1. user \in Existing BY <1>1, PassType
  <2>2. user \in [present : {TRUE}, deleting : BOOLEAN, finalizer : BOOLEAN, spec : UserSpec]
    BY <2>1 DEF Existing
  <2> HIDE DEF user
  <2>3. o.spec = user.spec /\ user.present BY <2>2
  <2> QED BY <1>1, <2>3, WithFinalizer
<1>4. ~o.deleting /\ worker.rv <= seen[u] BY <1>3 DEF LogInv, AddingPass
<1>5. o.spec \in SpecsOf[u] BY <1>2, <1>3 DEF LogInv, LogsFaithful, user
<1>6. Write(u, o) OBVIOUS
<1> HIDE DEF o
<1>7. /\ Len(history'[u]) = Len(history[u]) + 1
      /\ \A i \in 1..Len(history[u]) : history'[u][i] = history[u][i]
      /\ history'[u][Len(history[u]) + 1] = o
      /\ \A v \in Users \ {u} : history'[v] = history[v]
  BY <1>2, <1>3, <1>6, WriteFacts
<1>8. LogsFaithful'
  <2>1. ASSUME NEW v \in Users, NEW i \in 1..Len(history'[v])
        PROVE  /\ history'[v][i].present => history'[v][i].spec \in SpecsOf[v]
               /\ history'[v][i].deleting => history'[v][i].present /\ history'[v][i].finalizer
    <3>1. CASE v = u /\ i = Len(history[u]) + 1 BY <1>3, <1>4, <1>5, <1>7, <3>1
    <3>2. CASE v = u /\ i # Len(history[u]) + 1
      <4>1. i \in 1..Len(history[u]) BY <1>2, <1>7, <2>1, <3>2
      <4> QED BY <1>2, <1>7, <3>2, <4>1 DEF LogInv, LogsFaithful
    <3>3. CASE v # u BY <1>7, <2>1, <3>3 DEF LogInv, LogsFaithful
    <3> QED BY <3>1, <3>2, <3>3
  <2> QED BY <2>1 DEF LogsFaithful
\* Every version marked for deletion is older than the one the pass holds.
<1>9. ASSUME NEW i \in 1..Len(history'[u]), history'[u][i].deleting
      PROVE  i < worker.rv
  <2>1. i # Len(history[u]) + 1 BY <1>4, <1>7, <1>9
  <2>2. i \in 1..Len(history[u]) BY <1>2, <1>7, <1>9, <2>1
  <2>3. i # worker.rv
    <3>1. ~history[u][worker.rv].deleting BY <1>3, <1>4 DEF user
    <3> QED BY <1>7, <1>9, <2>2, <3>1
  <2> QED BY <1>2, <2>2, <2>3
<1>10. CacheNotRevived'
  <2>1. ASSUME NEW v \in Users, InService(v)' PROVE MarkedBefore(v, seen[v])'
    <3>1. CASE v = u
      <4>1. ASSUME NEW i \in 1..Len(history'[u]), history'[u][i].deleting PROVE i < seen'[u]
        <5>1. i < worker.rv /\ i \in Int BY <1>9, <4>1
        <5>2. seen[u] \in Nat BY <1>1, <1>2 DEF HistoryType
        <5> QED BY <1>2, <1>4, <5>1, <5>2
      <4> QED BY <3>1, <4>1 DEF MarkedBefore
    <3>2. CASE v # u
      <4>1. history'[v] = history[v] /\ seen'[v] = seen[v] BY <1>7, <3>2
      <4>2. InService(v) BY <2>1, <4>1 DEF InService, Current
      <4>3. MarkedBefore(v, seen[v]) BY <4>2 DEF LogInv, CacheNotRevived
      <4> QED BY <4>1, <4>3 DEF MarkedBefore
    <3> QED BY <3>1, <3>2
  <2> QED BY <2>1 DEF CacheNotRevived
<1>11. PassNotRevived'
  <2>1. SUFFICES ASSUME worker'.user = u, worker'.rv = worker.rv + 1
                 PROVE  MarkedBefore(worker.user, worker.rv)'
    BY DEF PassNotRevived
  <2>2. ASSUME NEW i \in 1..Len(history'[u]), history'[u][i].deleting PROVE i < worker.rv + 1
    <3>1. i < worker.rv /\ i \in Int BY <1>9, <2>2
    <3> QED BY <1>2, <3>1
  <2> QED BY <2>1, <2>2 DEF MarkedBefore
<1>12. AddingPass' BY DEF AddingPass
<1> QED BY <1>8, <1>10, <1>11, <1>12 DEF LogInv

LEMMA WorkerLogInv == TypeOK /\ LogInv /\ Worker => LogInv'
<1> SUFFICES ASSUME TypeOK, LogInv, Worker PROVE LogInv' OBVIOUS
<1>1. ASSUME Requeue, UNCHANGED <<history, seen>> PROVE LogInv'
  BY <1>1, PassKeepsLogInv DEF Requeue, Idle
<1>2. ASSUME NEW pc, Goto(pc), pc # "addFinalizer", worker.pc # "idle", UNCHANGED <<history, seen>>
      PROVE  LogInv'
  <2>1. worker'.pc = pc /\ worker'.user = worker.user /\ worker'.rv = worker.rv
    BY <1>2 DEF Goto, TypeOK, WorkerType
  <2> QED BY <1>2, <2>1, PassKeepsLogInv
<1>3. CASE AddFinalizer
  <2>1. /\ worker'.pc = "reconcileSubscriber" /\ worker'.user = worker.user
        /\ worker'.rv = worker.rv + 1
    BY <1>3 DEF AddFinalizer
  <2> QED BY <1>3, <2>1, AddFinalizerLogInv DEF AddFinalizer
<1>4. CASE RemoveFinalizer
  <2>1. worker.user \in Users /\ worker'.pc = "idle"
    BY <1>4 DEF RemoveFinalizer, TypeOK, WorkerType, Requeue, Idle
  <2> QED BY <1>4, <2>1, ObjectTypes, WriteKeepsLogInv DEF RemoveFinalizer, Absent
<1>5. CASE UpdateConflict BY <1>1, <1>5 DEF UpdateConflict
<1>6. CASE reconcileSubscriber BY <1>1, <1>2, <1>6 DEF reconcileSubscriber
<1>7. CASE FindOne
  <2>1. NextCall(profile, Found) # "addFinalizer" BY DEF NextCall
  <2> QED BY <1>1, <1>2, <1>7, <2>1 DEF FindOne
<1>8. CASE InsertOne BY <1>1, <1>8 DEF InsertOne
<1>9. CASE UpdateOne BY <1>1, <1>9 DEF UpdateOne
<1>10. CASE deleteSubscriber BY <1>2, <1>10 DEF deleteSubscriber
<1>11. CASE DeleteOne BY <1>1, <1>2, <1>11 DEF DeleteOne
<1>12. CASE MongoUnreachable BY <1>1, <1>12 DEF MongoUnreachable
<1> QED BY <1>3, <1>4, <1>5, <1>6, <1>7, <1>8, <1>9, <1>10, <1>11, <1>12 DEF Worker

LEMMA EnvironmentLogInv == TypeOK /\ LogInv /\ (Faults \/ Outside) => LogInv'
<1> SUFFICES ASSUME TypeOK, LogInv, Faults \/ Outside PROVE LogInv' OBVIOUS
<1>1. CASE RequestFails \/ DeleteReplyLost
  BY <1>1, PassKeepsLogInv DEF RequestFails, DeleteReplyLost, Requeue, Idle
<1>2. CASE AddFinalizerReplyLost
  BY <1>2, AddFinalizerLogInv DEF AddFinalizerReplyLost, Requeue, Idle
<1>3. CASE LookUpFails
  <2>1. /\ worker'.pc = "idle" \/ worker'.pc = "removeFinalizer"
        /\ worker'.pc # "idle" =>
             worker.pc # "idle" /\ worker'.user = worker.user /\ worker'.rv = worker.rv
    BY <1>3 DEF LookUpFails, Requeue, Idle, Goto, TypeOK, WorkerType
  <2> QED BY <1>3, <2>1, PassKeepsLogInv DEF LookUpFails
<1>4. CASE Outside
  <2>1. UNCHANGED <<history, seen, worker>>
    BY <1>4 DEF Outside, ExternalInsert, ExternalModify, ExternalRemove, CreateOpen5GS,
                DeleteOpen5GS, EnableMongoDB, StartMongoDB, StopMongoDB, LoseVolume, DisableMongoDB
  <2> QED BY <2>1 DEF LogInv, LogsFaithful, CacheNotRevived, PassNotRevived, AddingPass,
                      MarkedBefore, InService, Current, user
<1> QED BY <1>1, <1>2, <1>3, <1>4 DEF Faults

LEMMA InitLogInv == Init => LogInv
<1> SUFFICES ASSUME Init PROVE LogInv OBVIOUS
<1>1. \A u \in Users : /\ history[u] = <<Absent>> /\ Len(history[u]) = 1 /\ history[u][1] = Absent
                      /\ Current(u) = Absent
  BY DEF Init, Current
<1>2. worker.pc = "idle" BY DEF Init, Idle
<1> QED BY <1>1, <1>2 DEF LogInv, LogsFaithful, CacheNotRevived, PassNotRevived, AddingPass, InService, Absent

LEMMA StepLogInv == TypeOK /\ LogInv /\ [Next]_vars => LogInv'
<1>1. TypeOK /\ LogInv /\ UNCHANGED vars => LogInv'
  BY DEF vars, LogInv, LogsFaithful, CacheNotRevived, PassNotRevived, AddingPass,
         MarkedBefore, InService, Current, user
<1> QED BY <1>1, OwnersLogInv, ManagerLogInv, WorkerLogInv, EnvironmentLogInv DEF Next

-------------------------------------------------------------------------------
(***************************************************************************)
(* Whose documents a pass can reach, whatever scripts put into MongoDB: a  *)
(* pass stays with the instance its version means, and a deletion mark     *)
(* stays in the log until the resource is released.                        *)
(***************************************************************************)
PassOnTarget ==
  worker.pc # "idle" => worker.core \in {NoCore, Target(worker.user, user.spec)}

ReleasedBetween(u, m, n) == \E k \in m..n : ~history[u][k].present
MarksLast ==
  \A u \in Users : \A m \in 1..Len(history[u]) : \A n \in m..Len(history[u]) :
    history[u][m].deleting => history[u][n].deleting \/ ReleasedBetween(u, m, n)

ReachInv == LogInv /\ PassOnTarget /\ MarksLast

\* The version written next keeps the mark of the last one or has no resource.
MarkKept(u, o) == Current(u).deleting => o.deleting \/ ~o.present

LEMMA WriteKeepsMarks ==
  ASSUME HistoryType, MarksLast, NEW u \in Users, NEW o \in Object, Write(u, o), MarkKept(u, o)
  PROVE  MarksLast'
<1>1. history \in [Users -> Seq(Object)] BY DEF HistoryType
<1>2. /\ Len(history'[u]) = Len(history[u]) + 1 /\ Len(history[u]) \in Nat
      /\ \A i \in 1..Len(history[u]) : history'[u][i] = history[u][i]
      /\ history'[u][Len(history[u]) + 1] = o
      /\ \A v \in Users \ {u} : history'[v] = history[v]
  BY <1>1, WriteFacts
<1> SUFFICES ASSUME NEW v \in Users, NEW m \in 1..Len(history'[v]), NEW n \in m..Len(history'[v]),
                    history'[v][m].deleting, ~history'[v][n].deleting
             PROVE  \E k \in m..n : ~history'[v][k].present
  BY DEF MarksLast, ReleasedBetween
<1>3. CASE v # u
  <2>1. \E k \in m..n : ~history[v][k].present BY <1>2, <1>3 DEF MarksLast, ReleasedBetween
  <2> QED BY <1>2, <1>3, <2>1
<1>4. CASE v = u /\ n # Len(history[u]) + 1
  <2>1. m \in 1..Len(history[u]) /\ n \in m..Len(history[u]) /\ n \in 1..Len(history[u])
    BY <1>2, <1>4
  <2>2. history[u][m].deleting /\ ~history[u][n].deleting BY <1>2, <1>4, <2>1
  <2>3. PICK k \in m..n : ~history[u][k].present BY <2>1, <2>2 DEF MarksLast, ReleasedBetween
  <2>4. k \in 1..Len(history[u]) BY <2>1
  <2> QED BY <1>2, <1>4, <2>3, <2>4
<1>5. CASE v = u /\ n = Len(history[u]) + 1
  <2>1. ~o.deleting /\ m # n BY <1>2, <1>5
  <2>2. m \in 1..Len(history[u]) /\ Len(history[u]) \in m..Len(history[u]) BY <1>2, <1>5, <2>1
  <2>3. history[u][m].deleting BY <1>2, <1>5, <2>2
  <2>4. CASE Current(u).deleting
    <3>1. ~o.present BY <2>1, <2>4 DEF MarkKept
    <3> QED BY <1>2, <1>5, <3>1
  <2>5. CASE ~Current(u).deleting
    <3>1. PICK k \in m..Len(history[u]) : ~history[u][k].present
      BY <2>2, <2>3, <2>5 DEF MarksLast, ReleasedBetween, Current
    <3>2. k \in 1..Len(history[u]) /\ k \in m..n BY <1>2, <1>5, <2>2
    <3> QED BY <1>2, <1>5, <3>1, <3>2
  <2> QED BY <2>4, <2>5
<1> QED BY <1>3, <1>4, <1>5

\* Every version written keeps the mark of the last one, or there is none.
LEMMA StepKeepsMarks == TypeOK /\ LogInv /\ MarksLast /\ Next => MarksLast'
<1> SUFFICES ASSUME TypeOK, LogInv, MarksLast, Next PROVE MarksLast' OBVIOUS
<1>1. HistoryType /\ WorkerType BY DEF TypeOK
<1>2. CASE UNCHANGED history BY <1>2 DEF MarksLast, ReleasedBetween
<1>3. ASSUME NEW u \in Users, NEW spec \in SpecsOf[u], CreateUser(u, spec) PROVE MarksLast'
  <2>1. Created(spec) \in Object
    BY ResourceAssumption, ObjectTypes DEF Object
  <2>2. ~Current(u).deleting
    <3>1. Len(history[u]) \in 1..Len(history[u]) BY <1>1, CurrentType
    <3> QED BY <1>3, <3>1 DEF CreateUser, LogInv, LogsFaithful, Current
  <2> QED BY <1>1, <1>3, <2>1, <2>2, WriteKeepsMarks DEF CreateUser, MarkKept
<1>4. ASSUME NEW u \in Users, NEW spec \in SpecsOf[u], EditUser(u, spec) PROVE MarksLast'
  <2> DEFINE o == [Current(u) EXCEPT !.spec = spec]
  <2>1. Current(u) \in Existing /\ spec \in UserSpec
    BY <1>1, <1>4, CurrentType, ObjectTypes, ResourceAssumption DEF EditUser
  <2>2. o \in Object /\ o.deleting = Current(u).deleting
    <3>1. Current(u) \in [present : {TRUE}, deleting : BOOLEAN, finalizer : BOOLEAN, spec : UserSpec]
      BY <2>1 DEF Existing
    <3>2. o \in Existing BY <2>1, ObjectTypes
    <3> QED BY <3>1, <3>2 DEF Object
  <2>3. Write(u, o) BY <1>4 DEF EditUser
  <2> HIDE DEF o
  <2> QED BY <1>1, <2>2, <2>3, WriteKeepsMarks DEF MarkKept
<1>5. ASSUME NEW u \in Users, DeleteUser(u) PROVE MarksLast'
  <2> DEFINE o == Deleted(Current(u))
  <2>1. o \in Object /\ (o.deleting \/ ~o.present)
    <3>1. Current(u) \in Existing BY <1>1, <1>5, CurrentType, ObjectTypes DEF DeleteUser
    <3>2. Current(u) \in [present : {TRUE}, deleting : BOOLEAN, finalizer : BOOLEAN, spec : UserSpec]
      BY <3>1 DEF Existing
    <3>3. CASE Current(u).finalizer
      <4>1. o = [Current(u) EXCEPT !.deleting = TRUE] BY <3>3 DEF Deleted
      <4> QED BY <3>2, <4>1 DEF Object, Existing
    <3>4. CASE ~Current(u).finalizer BY <3>4 DEF Deleted, Object, Absent
    <3> QED BY <3>3, <3>4
  <2>2. Write(u, o) BY <1>5 DEF DeleteUser
  <2> HIDE DEF o
  <2> QED BY <1>1, <2>1, <2>2, WriteKeepsMarks DEF MarkKept
<1>6. CASE AddFinalizer \/ AddFinalizerReplyLost
  <2> DEFINE o == [user EXCEPT !.finalizer = TRUE]
  <2>1. worker.pc = "addFinalizer" /\ UpToDate /\ Write(worker.user, o)
    BY <1>6 DEF AddFinalizer, AddFinalizerReplyLost
  <2>2. o \in Object /\ worker.user \in Users BY <1>1, <2>1, WithFinalizer DEF WorkerType
  <2>3. ~Current(worker.user).deleting
    BY <2>1 DEF LogInv, AddingPass, user, Current, UpToDate
  <2> HIDE DEF o
  <2> QED BY <1>1, <2>1, <2>2, <2>3, WriteKeepsMarks DEF MarkKept
<1>7. CASE RemoveFinalizer
  <2>1. Write(worker.user, Absent) /\ worker.user \in Users
    BY <1>1, <1>7 DEF RemoveFinalizer, WorkerType
  <2> QED BY <1>1, <2>1, ObjectTypes, WriteKeepsMarks DEF MarkKept, Absent
<1>8. UNCHANGED history \/ Owners \/ AddFinalizer \/ AddFinalizerReplyLost \/ RemoveFinalizer
  <2>1. CASE Manager BY <2>1 DEF Manager, Restart, SyncCache, Start, StartGone
  <2>2. CASE Worker
    BY <2>2 DEF Worker, UpdateConflict, reconcileSubscriber, FindOne, InsertOne, UpdateOne,
                deleteSubscriber, DeleteOne, MongoUnreachable
  <2>3. CASE Faults BY <2>3 DEF Faults, RequestFails, LookUpFails, DeleteReplyLost
  <2>4. CASE Outside
    BY <2>4 DEF Outside, ExternalInsert, ExternalModify, ExternalRemove, CreateOpen5GS,
                DeleteOpen5GS, EnableMongoDB, StartMongoDB, StopMongoDB, LoseVolume, DisableMongoDB
  <2> QED BY <2>1, <2>2, <2>3, <2>4 DEF Next
<1> QED BY <1>2, <1>3, <1>4, <1>5, <1>6, <1>7, <1>8 DEF Owners

\* How a step moves the pass.
LEMMA PassMoves ==
  ASSUME TypeOK, Next, UNCHANGED worker => worker.pc = "idle"
  PROVE  \/ worker'.pc = "idle"
         \/ \E u \in Users : Start(u)
         \/ AddFinalizer
         \/ /\ worker.pc # "idle" /\ UNCHANGED history
            /\ worker'.user = worker.user /\ worker'.rv = worker.rv /\ worker'.core = worker.core
<1>0. WorkerType BY DEF TypeOK
<1>1. ASSUME NEW pc, Goto(pc), worker.pc # "idle", UNCHANGED history
      PROVE  /\ worker.pc # "idle" /\ UNCHANGED history
             /\ worker'.user = worker.user /\ worker'.rv = worker.rv /\ worker'.core = worker.core
  BY <1>0, <1>1 DEF Goto, WorkerType
<1>2. Requeue => worker'.pc = "idle" BY DEF Requeue, Idle
<1>3. CASE Owners \/ Outside
  BY <1>3 DEF Owners, CreateUser, EditUser, DeleteUser,
              Outside, ExternalInsert, ExternalModify, ExternalRemove, CreateOpen5GS,
              DeleteOpen5GS, EnableMongoDB, StartMongoDB, StopMongoDB, LoseVolume, DisableMongoDB
<1>4. CASE Manager
  <2>1. Restart => worker'.pc = "idle" BY DEF Restart, Idle
  <2>2. ASSUME NEW u \in Users, SyncCache(u) \/ StartGone(u) PROVE UNCHANGED worker
    BY <2>2 DEF SyncCache, StartGone
  <2> QED BY <1>4, <2>1, <2>2 DEF Manager
<1>5. CASE Worker
  <2>1. CASE UpdateConflict \/ InsertOne \/ UpdateOne \/ RemoveFinalizer \/ MongoUnreachable
    BY <1>2, <2>1 DEF UpdateConflict, InsertOne, UpdateOne, RemoveFinalizer, MongoUnreachable
  <2>2. CASE reconcileSubscriber BY <1>1, <1>2, <2>2 DEF reconcileSubscriber
  <2>3. CASE FindOne BY <1>1, <1>2, <2>3 DEF FindOne
  <2>4. CASE deleteSubscriber BY <1>1, <2>4 DEF deleteSubscriber
  <2>5. CASE DeleteOne BY <1>1, <1>2, <2>5 DEF DeleteOne
  <2> QED BY <1>5, <2>1, <2>2, <2>3, <2>4, <2>5 DEF Worker
<1>6. CASE Faults
  <2>1. CASE RequestFails \/ AddFinalizerReplyLost \/ DeleteReplyLost
    BY <1>2, <2>1 DEF RequestFails, AddFinalizerReplyLost, DeleteReplyLost
  <2>2. CASE LookUpFails BY <1>1, <1>2, <2>2 DEF LookUpFails
  <2> QED BY <1>6, <2>1, <2>2 DEF Faults
<1> QED BY <1>3, <1>4, <1>5, <1>6 DEF Next

LEMMA StepKeepsTarget == TypeOK /\ PassOnTarget /\ Next => PassOnTarget'
<1> SUFFICES ASSUME TypeOK, PassOnTarget, Next PROVE PassOnTarget' OBVIOUS
<1>1. HistoryType /\ WorkerType BY DEF TypeOK
<1>2. CASE worker'.pc = "idle" BY <1>2 DEF PassOnTarget
<1>3. CASE UNCHANGED worker /\ worker.pc # "idle"
  <2>1. UNCHANGED history \/ \E u \in Users : \E o : Write(u, o) BY LogOnlyGrows DEF LogGrows
  <2>2. user' = user BY <1>1, <1>3, <2>1, UserKept
  <2> QED BY <1>3, <2>2 DEF PassOnTarget
<1>4. ASSUME NEW u \in Users, Start(u) PROVE PassOnTarget'
  <2>1. /\ worker'.user = u /\ worker'.rv = seen[u] /\ UNCHANGED history
        /\ worker'.core = GetOpen5GS(u, Cached(u).spec)
    BY <1>4 DEF Start
  <2>2. user' = Cached(u) BY <2>1 DEF user, Cached
  <2> QED BY <2>1, <2>2 DEF PassOnTarget, GetOpen5GS
<1>5. CASE AddFinalizer
  <2> DEFINE o == [user EXCEPT !.finalizer = TRUE]
  <2>1. /\ Write(worker.user, o) /\ worker.pc # "idle" /\ worker'.user = worker.user
        /\ worker'.rv = worker.rv + 1 /\ worker'.core = worker.core
        /\ worker.rv = Len(history[worker.user])
    BY <1>5 DEF AddFinalizer, UpToDate
  <2>2. worker.user \in Users /\ o \in Object /\ o.spec = user.spec
    <3>1. user \in Existing BY <1>1, <2>1, PassType
    <3>2. user \in [present : {TRUE}, deleting : BOOLEAN, finalizer : BOOLEAN, spec : UserSpec]
      BY <3>1 DEF Existing
    <3>3. worker.user \in Users /\ o \in Object BY <1>1, <2>1, WithFinalizer DEF WorkerType
    <3> HIDE DEF user
    <3> QED BY <3>2, <3>3
  <2> HIDE DEF o
  <2>3. history \in [Users -> Seq(Object)] BY <1>1 DEF HistoryType
  <2>4. user' = o BY <2>1, <2>2, <2>3, WriteFacts DEF user
  <2> QED BY <2>1, <2>2, <2>4 DEF PassOnTarget
<1>6. CASE /\ worker.pc # "idle" /\ UNCHANGED history
           /\ worker'.user = worker.user /\ worker'.rv = worker.rv /\ worker'.core = worker.core
  <2>1. user' = user BY <1>6 DEF user
  <2> QED BY <1>6, <2>1 DEF PassOnTarget
<1> QED BY <1>2, <1>3, <1>4, <1>5, <1>6, PassMoves

LEMMA ReachInvariant == Spec => [](IInv /\ ReachInv)
<1>1. Init => ReachInv
  <2> SUFFICES ASSUME Init PROVE ReachInv OBVIOUS
  <2>1. \A u \in Users : Len(history[u]) = 1 /\ history[u][1] = Absent BY DEF Init
  <2>2. MarksLast BY <2>1 DEF MarksLast, Absent
  <2>3. PassOnTarget BY DEF Init, Idle, PassOnTarget
  <2> QED BY <2>2, <2>3, InitLogInv DEF ReachInv
<1>2. TypeOK /\ ReachInv /\ [Next]_vars => ReachInv'
  <2>1. ReachInv /\ UNCHANGED vars => PassOnTarget' /\ MarksLast'
    BY DEF vars, ReachInv, PassOnTarget, MarksLast, ReleasedBetween, user
  <2> QED BY <2>1, StepLogInv, StepKeepsMarks, StepKeepsTarget DEF ReachInv
<1>3. IInv => TypeOK BY DEF IInv
<1> QED BY <1>1, <1>2, <1>3, AlwaysGuarded, PTL DEF Spec

(***************************************************************************)
(* Whatever scripts write and remove, whichever instances come and go and  *)
(* whatever fails: a pass alters only documents that a resource with the   *)
(* finalizer stands for, unless it is a deletion whose resource has been   *)
(* released since the version it works on. A pass that writes has the      *)
(* finalizer behind it (WriteUnderFinalizer); one that deletes has a mark, *)
(* and a mark that no release followed is still there.                     *)
(***************************************************************************)
THEOREM ManagedOnlyAltered ==
  ASSUME SettledSpecs
  PROVE  Spec => UnmanagedKept
<1> DEFINE Kept == \A i \in Cores, imsi \in IMSIs :
             Altered(i, imsi) => (\E u \in Users : ManagedBy(u, i, imsi)) \/ LateDeletion(i, imsi)
<1>1. IInv /\ ReachInv /\ [Next]_vars => [Kept]_vars
  <2> SUFFICES ASSUME IInv, ReachInv, Next, NEW i \in Cores, NEW imsi \in IMSIs,
                      worker' # worker, docs'[i][imsi] # docs[i][imsi]
               PROVE  (\E u \in Users : ManagedBy(u, i, imsi)) \/ LateDeletion(i, imsi)
    BY DEF Altered
  <2>0. TypeOK /\ HistoryType /\ WorkerType BY DEF IInv, TypeOK
  <2>1. UNCHANGED worker \/ UNCHANGED docs \/ InsertOne \/ UpdateOne \/ DeleteOne \/ DeleteReplyLost
    <3>1. CASE Owners BY <3>1 DEF Owners, CreateUser, EditUser, DeleteUser
    <3>2. CASE Manager BY <3>2 DEF Manager, Restart, SyncCache, Start, StartGone
    <3>3. CASE Worker
      BY <3>3 DEF Worker, AddFinalizer, UpdateConflict, reconcileSubscriber, FindOne, deleteSubscriber,
                  RemoveFinalizer, MongoUnreachable
    <3>4. CASE Faults BY <3>4 DEF Faults, RequestFails, LookUpFails, AddFinalizerReplyLost
    <3>5. CASE Outside
      BY <3>5 DEF Outside, ExternalInsert, ExternalModify, ExternalRemove, CreateOpen5GS,
                  DeleteOpen5GS, EnableMongoDB, StartMongoDB, StopMongoDB, LoseVolume, DisableMongoDB
    <3> QED BY <3>1, <3>2, <3>3, <3>4, <3>5 DEF Next
  <2>2. /\ worker.pc \in {"InsertOne", "UpdateOne", "DeleteOne"} /\ worker.pc # "idle" /\ Answering
        /\ \E found : SetDocs(worker.core, profile.imsi, found)
    BY <2>1 DEF InsertOne, UpdateOne, DeleteOne, DeleteReplyLost
  <2>3. worker.core = i /\ profile.imsi = imsi
    <3>1. PICK found : SetDocs(worker.core, profile.imsi, found) BY <2>2
    <3>2. \A j \in Cores, m \in IMSIs :
            docs'[j][m] = IF j = worker.core /\ m = profile.imsi THEN found ELSE docs[j][m]
      BY <2>0, <2>2, <3>1, PassSetsDocs
    <3> QED BY <3>2
  <2>4. /\ worker.user \in Users /\ worker.rv \in 1..Len(history[worker.user]) /\ user.present
        /\ Len(history[worker.user]) \in worker.rv..Len(history[worker.user])
        /\ Len(history[worker.user]) \in 1..Len(history[worker.user])
    BY <2>0, <2>2, CurrentType DEF WorkerType
  \* A resource that exists with its finalizer stands for the subscriber of the pass.
  <2>5. ASSUME Current(worker.user).present, Current(worker.user).finalizer
        PROVE  ManagedBy(worker.user, i, imsi)
    <3>1. user.spec \in SpecsOf[worker.user] /\ Current(worker.user).spec \in SpecsOf[worker.user]
      BY <2>4, <2>5 DEF ReachInv, LogInv, LogsFaithful, user, Current
    <3>2. worker.core = Target(worker.user, user.spec)
      BY <2>2, <2>3, UserAssumption DEF ReachInv, PassOnTarget
    <3>3. /\ Current(worker.user).spec.profile.imsi = profile.imsi
          /\ Target(worker.user, Current(worker.user).spec) = Target(worker.user, user.spec)
      BY <2>4, <3>1 DEF SettledSpecs, profile, Target
    <3> QED BY <2>3, <2>5, <3>2, <3>3 DEF ManagedBy
  <2>6. CASE worker.pc \in {"InsertOne", "UpdateOne"}
    BY <2>4, <2>5, <2>6 DEF IInv, WriteUnderFinalizer
  <2>7. CASE worker.pc = "DeleteOne"
    <3>1. user.deleting BY <2>7 DEF IInv, DeletionPass
    <3>2. CASE ReleasedBetween(worker.user, worker.rv, Len(history[worker.user]))
      BY <2>3, <3>1, <3>2 DEF LateDeletion, ReleasedBetween
    <3>3. CASE ~ReleasedBetween(worker.user, worker.rv, Len(history[worker.user]))
      <4>1. Current(worker.user).deleting
        BY <2>4, <3>1, <3>3 DEF ReachInv, MarksLast, user, Current
      <4>2. Current(worker.user).present /\ Current(worker.user).finalizer
        BY <2>4, <4>1 DEF ReachInv, LogInv, LogsFaithful, Current
      <4> QED BY <2>4, <2>5, <4>2
    <3> QED BY <3>2, <3>3
  <2> QED BY <2>2, <2>6, <2>7
<1>2. UnmanagedKept <=> [][Kept]_vars BY DEF UnmanagedKept
<1> QED BY <1>1, <1>2, ReachInvariant, PTL DEF Spec

-------------------------------------------------------------------------------
(***************************************************************************)
(* Why no document is left behind. In an instance that is never missed,    *)
(* every document belongs to a resource that carries the finalizer; a pass *)
(* works on the instance its version means; and when it comes to take the  *)
(* finalizer off there is no document left. Where an instance may be       *)
(* missed NeverMissed is empty, and all of this says nothing.              *)
(***************************************************************************)
MongoStays == NeverMissed \subseteq open5gs \cap service

PassTarget == worker.pc # "idle" =>
  /\ worker.core \in {NoCore, Target(worker.user, user.spec)}
  /\ Target(worker.user, user.spec) \in NeverMissed => worker.core = Target(worker.user, user.spec)

Covered ==
  \A i \in NeverMissed, imsi \in IMSIs :
    docs[i][imsi] # <<>> => \E u \in Users : ManagedBy(u, i, imsi)

ReleasedLast ==
  worker.pc = "removeFinalizer" /\ Target(worker.user, user.spec) \in NeverMissed =>
    docs[Target(worker.user, user.spec)][profile.imsi] = <<>>

StoreInv == MongoStays /\ PassTarget /\ Covered /\ ReleasedLast

\* The invariants proved so far, which the rest relies on.
Known == IInv /\ Single /\ LogInv

LEMMA NeverMissedType == NeverMissed \subseteq Cores
BY UserAssumption DEF NeverMissed

LEMMA MissedWhenSpent ==
  ASSUME UsedType, NEW kind \in {"core", "lookup"}, Spend(kind)
  PROVE  NeverMissed = {}
<1>1. kind \in Kinds BY DEF Kinds
<1>2. used[kind] \in Nat /\ used[kind] < Bound[kind] BY <1>1 DEF UsedType, Spend
<1>3. Bound[kind] # 0 BY <1>2
<1> QED BY <1>3 DEF NeverMissed

\* Who is managed stays managed when nothing is written to the logs, or when what is
\* written keeps the finalizer, the IMSI and the instance.
LEMMA ManagedKept ==
  ASSUME HistoryType, NEW u \in Users, NEW o \in Object, Write(u, o),
         \A i, imsi : ManagedBy(u, i, imsi) =>
           o.present /\ o.finalizer /\ o.spec.profile.imsi = imsi /\ Target(u, o.spec) = i
  PROVE  \A v \in Users : \A i, imsi : ManagedBy(v, i, imsi) => ManagedBy(v, i, imsi)'
<1>1. history \in [Users -> Seq(Object)] BY DEF HistoryType
<1>2. Current(u)' = o /\ \A v \in Users \ {u} : Current(v)' = Current(v)
  BY <1>1, WriteFacts DEF Current
<1>3. ASSUME NEW v \in Users, NEW i, NEW imsi, ManagedBy(v, i, imsi)
      PROVE  ManagedBy(v, i, imsi)'
  <2>1. CASE v = u BY <1>2, <1>3, <2>1 DEF ManagedBy, Target
  <2>2. CASE v # u BY <1>2, <1>3, <2>2 DEF ManagedBy, Target
  <2> QED BY <2>1, <2>2
<1> QED BY <1>3

\* A document that is new is one of a managed subscriber.
LEMMA CoveredKept ==
  ASSUME Covered,
         \A v \in Users : \A i, imsi : ManagedBy(v, i, imsi) => ManagedBy(v, i, imsi)',
         \A i \in NeverMissed, imsi \in IMSIs :
           docs'[i][imsi] # <<>> => docs[i][imsi] # <<>> \/ \E v \in Users : ManagedBy(v, i, imsi)
  PROVE  Covered'
<1>1. NeverMissed' = NeverMissed BY DEF NeverMissed
<1>2. ASSUME NEW i \in NeverMissed, NEW imsi \in IMSIs, docs'[i][imsi] # <<>>
      PROVE  \E v \in Users : ManagedBy(v, i, imsi)'
  <2>1. PICK v \in Users : ManagedBy(v, i, imsi) BY <1>2 DEF Covered
  <2> QED BY <2>1
<1> QED BY <1>1, <1>2 DEF Covered

\* The subscriber a pass writes is one of a resource that exists and holds the
\* finalizer, however old its version is: only IMSI and instance must be the same.
LEMMA PassManages ==
  ASSUME SettledSpecs, Known, StoreInv, worker.pc \in Writing, worker.core \in Cores
  PROVE  /\ worker.user \in Users /\ ManagedBy(worker.user, worker.core, profile.imsi)
         /\ user.spec \in SpecsOf[worker.user] /\ worker.core = Target(worker.user, user.spec)
<1>1. worker.pc # "idle" /\ HistoryType /\ WorkerType BY DEF Known, IInv, TypeOK, Writing
<1>2. /\ worker.user \in Users /\ worker.rv \in 1..Len(history[worker.user]) /\ user.present
      /\ Len(history[worker.user]) \in 1..Len(history[worker.user])
  BY <1>1, CurrentType DEF WorkerType
<1>3. Current(worker.user).present /\ Current(worker.user).finalizer
  BY DEF Known, IInv, WriteUnderFinalizer, Writing
<1>4. user.spec \in SpecsOf[worker.user] /\ Current(worker.user).spec \in SpecsOf[worker.user]
  BY <1>2, <1>3 DEF Known, LogInv, LogsFaithful, user, Current
<1>5. worker.core = Target(worker.user, user.spec)
  BY <1>1, UserAssumption DEF StoreInv, PassTarget
<1>6. /\ Current(worker.user).spec.profile.imsi = profile.imsi
      /\ Target(worker.user, Current(worker.user).spec) = Target(worker.user, user.spec)
  BY <1>2, <1>4 DEF SettledSpecs, profile, Target
<1> QED BY <1>2, <1>3, <1>4, <1>5, <1>6 DEF ManagedBy

\* Steps of which the worker takes no part, and that write no document.
LEMMA OthersKeepPass ==
  ASSUME TypeOK, StoreInv, UNCHANGED worker,
         UNCHANGED history \/ \E u \in Users : \E o : Write(u, o),
         \A i \in Cores, imsi \in IMSIs : docs[i][imsi] = <<>> => docs'[i][imsi] = <<>>
  PROVE  PassTarget' /\ ReleasedLast'
<1> SUFFICES ASSUME worker.pc # "idle" PROVE PassTarget' /\ ReleasedLast'
  BY DEF PassTarget, ReleasedLast
<1>1. HistoryType /\ WorkerType BY DEF TypeOK
<1>2. user' = user /\ profile' = profile BY <1>1, UserKept DEF profile
<1>3. NeverMissed' = NeverMissed /\ NeverMissed \subseteq Cores /\ profile.imsi \in IMSIs
  BY <1>1, NeverMissedType, PassType DEF NeverMissed
<1>4. PassTarget' BY <1>2, <1>3 DEF StoreInv, PassTarget
<1>5. ReleasedLast' BY <1>2, <1>3 DEF StoreInv, ReleasedLast
<1> QED BY <1>4, <1>5

\* Steps that leave documents and logs alone and end the pass or start another.
LEMMA QuietKeeps ==
  ASSUME StoreInv, UNCHANGED <<history, cluster, docs>>
  PROVE  MongoStays' /\ Covered'
BY DEF StoreInv, MongoStays, Covered, NeverMissed, ManagedBy, Current, cluster

LEMMA IdleKeepsPass == worker'.pc = "idle" => PassTarget' /\ ReleasedLast'
BY DEF PassTarget, ReleasedLast

LEMMA OwnersStore == TypeOK /\ LogInv /\ SettledSpecs /\ StoreInv /\ Owners => StoreInv'
<1> SUFFICES ASSUME TypeOK, LogInv, SettledSpecs, StoreInv, NEW u \in Users,
                    \/ \E spec \in SpecsOf[u] : CreateUser(u, spec) \/ EditUser(u, spec)
                    \/ DeleteUser(u)
             PROVE  StoreInv'
  BY DEF Owners
<1>1. /\ HistoryType /\ SpecsOf[u] \subseteq UserSpec /\ Current(u) \in Object
      /\ Len(history[u]) \in 1..Len(history[u])
  BY ResourceAssumption, CurrentType DEF TypeOK
<1>2. ASSUME NEW o \in Object, Write(u, o), UNCHANGED <<worker, cluster, docs>>,
             \A i, imsi : ManagedBy(u, i, imsi) =>
               o.present /\ o.finalizer /\ o.spec.profile.imsi = imsi /\ Target(u, o.spec) = i
      PROVE  StoreInv'
  <2>1. MongoStays' BY <1>2 DEF StoreInv, MongoStays, NeverMissed, cluster
  <2>2. Covered' BY <1>1, <1>2, ManagedKept, CoveredKept DEF StoreInv
  <2>3. PassTarget' /\ ReleasedLast' BY <1>2, OthersKeepPass
  <2> QED BY <2>1, <2>2, <2>3 DEF StoreInv
<1>3. ASSUME NEW spec \in SpecsOf[u], CreateUser(u, spec) PROVE StoreInv'
  <2>1. Created(spec) \in Object BY <1>1, ObjectTypes DEF Object
  <2> QED BY <1>2, <1>3, <2>1 DEF CreateUser, ManagedBy
<1>4. ASSUME NEW spec \in SpecsOf[u], EditUser(u, spec) PROVE StoreInv'
  <2> DEFINE o == [Current(u) EXCEPT !.spec = spec]
  <2>1. Current(u) \in Existing BY <1>1, <1>4, ObjectTypes DEF EditUser
  <2>2. /\ o \in Object /\ o.present /\ o.spec = spec /\ o.finalizer = Current(u).finalizer
    <3>1. Current(u) \in [present : {TRUE}, deleting : BOOLEAN, finalizer : BOOLEAN, spec : UserSpec]
      BY <2>1 DEF Existing
    <3>2. o \in Existing BY <1>1, <2>1, ObjectTypes
    <3> QED BY <3>1, <3>2 DEF Object
  <2>3. Current(u).spec \in SpecsOf[u]
    BY <1>1, <1>4 DEF EditUser, LogInv, LogsFaithful, Current
  <2>4. spec.profile.imsi = Current(u).spec.profile.imsi /\ Target(u, spec) = Target(u, Current(u).spec)
    BY <2>3 DEF SettledSpecs, Target
  <2>5. Write(u, o) /\ UNCHANGED <<worker, cluster, docs>> BY <1>4 DEF EditUser
  <2> HIDE DEF o
  <2> QED BY <1>2, <2>2, <2>4, <2>5 DEF ManagedBy
<1>5. CASE DeleteUser(u)
  <2> DEFINE o == Deleted(Current(u))
  <2>1. Current(u) \in Existing BY <1>1, <1>5, ObjectTypes DEF DeleteUser
  <2>2. o \in Object
    <3>1. [Current(u) EXCEPT !.deleting = TRUE] \in Existing BY <2>1 DEF Existing
    <3> QED BY <3>1, ObjectTypes DEF Deleted, Object
  <2>3. Current(u).finalizer => o.present /\ o.finalizer /\ o.spec = Current(u).spec
    BY <2>1 DEF Deleted, Existing
  <2>4. Write(u, o) /\ UNCHANGED <<worker, cluster, docs>> BY <1>5 DEF DeleteUser
  <2> HIDE DEF o
  <2> QED BY <1>2, <2>2, <2>3, <2>4 DEF ManagedBy
<1> QED BY <1>3, <1>4, <1>5

LEMMA ManagerStore == TypeOK /\ StoreInv /\ Manager => StoreInv'
<1> SUFFICES ASSUME TypeOK, StoreInv, Manager PROVE StoreInv' OBVIOUS
<1>1. UNCHANGED <<history, cluster, docs>> BY DEF Manager, Restart, SyncCache, Start, StartGone
<1>2. MongoStays' /\ Covered' BY <1>1, QuietKeeps
<1>3. CASE Restart
  <2>1. worker'.pc = "idle" BY <1>3 DEF Restart, Idle
  <2> QED BY <1>2, <2>1, IdleKeepsPass DEF StoreInv
<1>4. ASSUME NEW u \in Users, SyncCache(u) \/ StartGone(u) PROVE StoreInv'
  <2>1. UNCHANGED worker BY <1>4 DEF SyncCache, StartGone
  <2> QED BY <1>1, <1>2, <2>1, OthersKeepPass DEF StoreInv
<1>5. ASSUME NEW u \in Users, Start(u) PROVE StoreInv'
  <2>1. /\ worker'.pc # "removeFinalizer" /\ worker'.user = u /\ worker'.rv = seen[u]
        /\ worker'.core = GetOpen5GS(u, Cached(u).spec)
    BY <1>5 DEF Start, FirstStep
  <2>2. user' = Cached(u) BY <1>1, <2>1 DEF user, Cached
  <2>3. PassTarget'
    BY <2>1, <2>2 DEF StoreInv, MongoStays, PassTarget, GetOpen5GS, NeverMissed
  <2>4. ReleasedLast' BY <2>1 DEF ReleasedLast
  <2> QED BY <1>2, <2>3, <2>4 DEF StoreInv
<1> QED BY <1>3, <1>4, <1>5 DEF Manager

\* A pass that goes on with the version and the instance it has.
LEMMA GoingOnKeepsTarget ==
  ASSUME StoreInv, UNCHANGED history, worker.pc # "idle",
         worker'.user = worker.user, worker'.rv = worker.rv, worker'.core = worker.core
  PROVE  PassTarget' /\ user' = user /\ profile' = profile
<1>1. user' = user BY DEF user
<1>2. profile' = profile BY <1>1 DEF profile
<1> QED BY <1>1, <1>2 DEF StoreInv, PassTarget, NeverMissed

\* Putting the finalizer on the last version of a resource, and going on or not.
LEMMA AddFinalizerStore ==
  ASSUME TypeOK, StoreInv, worker.pc = "addFinalizer", UpToDate, UNCHANGED <<cluster, docs>>,
         Write(worker.user, [user EXCEPT !.finalizer = TRUE]),
         \/ worker'.pc = "idle"
         \/ /\ worker'.pc # "removeFinalizer" /\ worker'.user = worker.user
            /\ worker'.rv = worker.rv + 1 /\ worker'.core = worker.core
  PROVE  StoreInv'
<1> DEFINE u == worker.user
           o == [user EXCEPT !.finalizer = TRUE]
<1>1. HistoryType /\ WorkerType /\ worker.pc # "idle" BY DEF TypeOK
<1>2. /\ u \in Users /\ user = Current(u) /\ worker.rv = Len(history[u])
      /\ history \in [Users -> Seq(Object)]
  BY <1>1, PassType DEF HistoryType, UpToDate, user, Current
<1>3. o \in Object /\ o.present /\ o.finalizer /\ o.spec = user.spec
  <2>1. user \in Existing BY <1>1, PassType
  <2>2. user \in [present : {TRUE}, deleting : BOOLEAN, finalizer : BOOLEAN, spec : UserSpec]
    BY <2>1 DEF Existing
  <2> HIDE DEF user
  <2>3. o.spec = user.spec BY <2>2
  <2> QED BY <1>1, <2>3, WithFinalizer
<1>4. Write(u, o) OBVIOUS
<1> HIDE DEF o
<1>5. MongoStays' BY DEF StoreInv, MongoStays, NeverMissed, cluster
<1>6. Covered'
  <2>1. \A i, imsi : ManagedBy(u, i, imsi) =>
          o.present /\ o.finalizer /\ o.spec.profile.imsi = imsi /\ Target(u, o.spec) = i
    BY <1>2, <1>3 DEF ManagedBy
  <2> QED BY <1>1, <1>2, <1>3, <1>4, <2>1, ManagedKept, CoveredKept DEF StoreInv
<1>7. PassTarget'
  <2>1. SUFFICES ASSUME worker'.user = u, worker'.rv = worker.rv + 1, worker'.core = worker.core
                 PROVE  PassTarget'
    BY DEF PassTarget
  <2>2. user' = o BY <1>2, <1>3, <1>4, <2>1, WriteFacts DEF user
  <2> QED BY <1>1, <1>3, <2>1, <2>2 DEF StoreInv, PassTarget, NeverMissed
<1>8. ReleasedLast' BY DEF ReleasedLast
<1> QED BY <1>5, <1>6, <1>7, <1>8 DEF StoreInv

\* The resource goes, and no document needs it.
LEMMA RemoveFinalizerStore ==
  ASSUME TypeOK, StoreInv, RemoveFinalizer
  PROVE  StoreInv'
<1> DEFINE u == worker.user
<1>1. HistoryType /\ WorkerType /\ worker.pc # "idle" BY DEF TypeOK, RemoveFinalizer
<1>2. /\ u \in Users /\ user = Current(u) /\ Write(u, Absent) /\ worker.pc = "removeFinalizer"
      /\ history \in [Users -> Seq(Object)] /\ worker'.pc = "idle" /\ UNCHANGED <<cluster, docs>>
  BY <1>1, PassType DEF RemoveFinalizer, HistoryType, UpToDate, user, Current, Requeue, Idle
<1>3. \A v \in Users \ {u} : Current(v)' = Current(v)
  BY <1>2, ObjectTypes, WriteFacts DEF Current
<1>4. MongoStays' BY <1>2 DEF StoreInv, MongoStays, NeverMissed, cluster
<1>5. Covered'
  <2>1. ASSUME NEW i \in NeverMissed, NEW imsi \in IMSIs, docs[i][imsi] # <<>>
        PROVE  \E v \in Users : ManagedBy(v, i, imsi)'
    <3>1. PICK v \in Users : ManagedBy(v, i, imsi) BY <2>1 DEF StoreInv, Covered
    <3>2. v # u
      BY <1>2, <2>1, <3>1 DEF StoreInv, ReleasedLast, ManagedBy, profile
    <3> QED BY <1>3, <3>1, <3>2 DEF ManagedBy
  <2> QED BY <1>2, <2>1 DEF Covered, NeverMissed
<1> QED BY <1>2, <1>4, <1>5, IdleKeepsPass DEF StoreInv

\* What a pass writes to MongoDB belongs to a managed subscriber, or it writes nothing.
LEMMA WriteKeepsCovered ==
  ASSUME TypeOK, StoreInv, worker.pc # "idle", Answering, UNCHANGED history,
         NEW found, SetDocs(worker.core, profile.imsi, found),
         found = <<>> \/ \E v \in Users : ManagedBy(v, worker.core, profile.imsi)
  PROVE  Covered'
<1>1. \A j \in Cores, m \in IMSIs :
        docs'[j][m] = IF j = worker.core /\ m = profile.imsi THEN found ELSE docs[j][m]
  BY PassSetsDocs
<1>2. ASSUME NEW j \in NeverMissed, NEW m \in IMSIs, docs'[j][m] # <<>>
      PROVE  docs[j][m] # <<>> \/ \E v \in Users : ManagedBy(v, j, m)
  BY <1>1, <1>2, NeverMissedType
<1>3. \A v \in Users : \A i, imsi : ManagedBy(v, i, imsi) => ManagedBy(v, i, imsi)'
  BY DEF ManagedBy, Current
<1> QED BY <1>2, <1>3, CoveredKept DEF StoreInv

\* With no IMSI holding two documents, the removal of one leaves none.
LEMMA RemovalEmpties ==
  ASSUME TypeOK, AtMostOneDocument, worker.pc # "idle", Answering, Found # <<>>
  PROVE  Tail(Found) = <<>>
<1>1. worker.core \in Cores /\ Found \in Seq(Document) /\ profile.imsi \in IMSIs
  BY FoundType, PassType DEF TypeOK
<1>2. Len(Found) <= 1 BY <1>1 DEF AtMostOneDocument, Found
<1> HIDE DEF Found
<1> QED BY <1>1, <1>2

LEMMA WorkerStore == SettledSpecs /\ Known /\ StoreInv /\ Worker => StoreInv'
<1> SUFFICES ASSUME SettledSpecs, Known, StoreInv, Worker PROVE StoreInv' OBVIOUS
<1>0. TypeOK /\ AtMostOneDocument /\ WorkerType BY DEF Known, IInv, Single, TypeOK
<1>1. ASSUME Requeue, UNCHANGED <<history, cluster, docs>> PROVE StoreInv'
  BY <1>1, QuietKeeps, IdleKeepsPass DEF Requeue, Idle, StoreInv
<1>2. ASSUME NEW pc, Goto(pc), worker.pc # "idle", UNCHANGED <<history, cluster>>
      PROVE  /\ worker'.pc = pc /\ worker'.core = worker.core /\ worker'.user = worker.user
             /\ PassTarget' /\ user' = user /\ profile' = profile /\ MongoStays'
             /\ (pc # "removeFinalizer" => ReleasedLast')
  <2>1. /\ worker'.pc = pc /\ worker'.user = worker.user /\ worker'.rv = worker.rv
        /\ worker'.core = worker.core
    BY <1>0, <1>2 DEF Goto, WorkerType
  <2> QED BY <1>2, <2>1, GoingOnKeepsTarget
          DEF ReleasedLast, StoreInv, MongoStays, NeverMissed, cluster
<1>3. CASE AddFinalizer
  BY <1>0, <1>3, AddFinalizerStore DEF AddFinalizer
<1>4. CASE RemoveFinalizer BY <1>0, <1>4, RemoveFinalizerStore
<1>5. CASE UpdateConflict BY <1>1, <1>5 DEF UpdateConflict
<1>6. CASE reconcileSubscriber
  <2>1. CASE Reachable BY <1>2, <1>6, <2>1, QuietKeeps DEF reconcileSubscriber, StoreInv
  <2>2. CASE ~Reachable BY <1>1, <1>6, <2>2 DEF reconcileSubscriber
  <2> QED BY <2>1, <2>2
<1>7. CASE FindOne
  <2> DEFINE call == NextCall(profile, Found)
  <2>1. call # "removeFinalizer" BY DEF NextCall
  <2>2. /\ worker.pc # "idle" /\ UNCHANGED <<history, cluster, docs>>
        /\ IF call = "return" THEN Requeue ELSE Goto(call)
    BY <1>7 DEF FindOne
  <2> HIDE DEF call
  <2>3. CASE call = "return" BY <1>1, <2>2, <2>3
  <2>4. CASE call # "return" BY <1>2, <2>1, <2>2, <2>4, QuietKeeps DEF StoreInv
  <2> QED BY <2>3, <2>4
<1>8. CASE InsertOne \/ UpdateOne
  <2> DEFINE found == IF worker.pc = "InsertOne" THEN Append(Found, AddedDocument(profile))
                      ELSE IF Found = <<>> THEN <<>>
                      ELSE <<UpdatedDocument(profile, Head(Found))>> \o Tail(Found)
  <2>1. /\ worker.pc \in Writing /\ worker.pc # "idle" /\ Answering /\ Requeue
        /\ SetDocs(worker.core, profile.imsi, found) /\ UNCHANGED <<history, cluster>>
    BY <1>8 DEF InsertOne, UpdateOne, Writing
  <2> HIDE DEF found
  <2>2. worker.user \in Users /\ ManagedBy(worker.user, worker.core, profile.imsi)
    BY <1>0, <2>1, FoundType, PassManages
  <2>3. Covered' BY <1>0, <2>1, <2>2, WriteKeepsCovered
  <2>4. MongoStays' BY <2>1 DEF StoreInv, MongoStays, NeverMissed, cluster
  <2>5. worker'.pc = "idle" BY <2>1 DEF Requeue, Idle
  <2> QED BY <2>3, <2>4, <2>5, IdleKeepsPass DEF StoreInv
<1>9. CASE deleteSubscriber
  <2>1. worker.pc # "idle" /\ UNCHANGED <<history, cluster, docs>> BY <1>9 DEF deleteSubscriber
  <2>2. CASE Reachable BY <1>2, <1>9, <2>1, <2>2, QuietKeeps DEF deleteSubscriber, StoreInv
  <2>3. CASE ~Reachable
    <3>1. Target(worker.user, user.spec) \notin NeverMissed
      BY <2>1, <2>3 DEF StoreInv, PassTarget, MongoStays, Reachable
    <3>2. Goto("removeFinalizer") BY <1>9, <2>3 DEF deleteSubscriber
    <3>3. /\ PassTarget' /\ user' = user /\ worker'.user = worker.user /\ MongoStays'
      BY <1>2, <2>1, <3>2
    <3>4. ReleasedLast' BY <3>1, <3>3 DEF ReleasedLast, NeverMissed
    <3> QED BY <2>1, <3>3, <3>4, QuietKeeps DEF StoreInv
  <2> QED BY <2>2, <2>3
<1>10. CASE DeleteOne
  <2>1. worker.pc # "idle" /\ Answering /\ UNCHANGED <<history, cluster>> BY <1>10 DEF DeleteOne
  <2>2. CASE Found = <<>> BY <1>1, <1>10, <2>2 DEF DeleteOne
  <2>3. CASE Found # <<>>
    <3>1. Goto("removeFinalizer") /\ SetDocs(worker.core, profile.imsi, <<>>)
      BY <1>0, <1>10, <2>1, <2>3, RemovalEmpties DEF DeleteOne
    <3>2. /\ PassTarget' /\ user' = user /\ profile' = profile /\ worker'.user = worker.user
          /\ MongoStays'
      BY <1>2, <2>1, <3>1
    <3>3. Covered' BY <1>0, <2>1, <3>1, WriteKeepsCovered
    <3>4. docs'[worker.core][profile.imsi] = <<>>
      BY <1>0, <2>1, <3>1, PassSetsDocs
    <3>5. ReleasedLast'
      BY <2>1, <3>2, <3>4 DEF ReleasedLast, StoreInv, PassTarget, NeverMissed
    <3> QED BY <3>2, <3>3, <3>5 DEF StoreInv
  <2> QED BY <2>2, <2>3
<1>11. CASE MongoUnreachable BY <1>1, <1>11 DEF MongoUnreachable
<1> QED BY <1>3, <1>4, <1>5, <1>6, <1>7, <1>8, <1>9, <1>10, <1>11 DEF Worker

LEMMA FaultsStore == SettledSpecs /\ Known /\ StoreInv /\ Faults => StoreInv'
<1> SUFFICES ASSUME SettledSpecs, Known, StoreInv, Faults PROVE StoreInv' OBVIOUS
<1>0. TypeOK /\ AtMostOneDocument /\ UsedType BY DEF Known, IInv, Single, TypeOK
<1>1. CASE RequestFails
  <2>1. worker'.pc = "idle" /\ UNCHANGED <<history, cluster, docs>>
    BY <1>1 DEF RequestFails, Requeue, Idle
  <2> QED BY <2>1, QuietKeeps, IdleKeepsPass DEF StoreInv
<1>2. CASE LookUpFails
  <2>1. NeverMissed = {} BY <1>0, <1>2, MissedWhenSpent DEF LookUpFails
  <2>2. UNCHANGED <<history, cluster, docs>> BY <1>2 DEF LookUpFails
  <2>3. CASE Requeue
    <3>1. worker'.pc = "idle" BY <2>3 DEF Requeue, Idle
    <3> QED BY <2>2, <3>1, QuietKeeps, IdleKeepsPass DEF StoreInv
  <2>4. CASE worker.pc = "deleteSubscriber" /\ Goto("removeFinalizer")
    <3>1. /\ worker.pc # "idle" /\ worker'.user = worker.user /\ worker'.rv = worker.rv
          /\ worker'.core = worker.core
      BY <1>0, <2>4 DEF Goto, TypeOK, WorkerType
    <3>2. PassTarget' BY <2>2, <3>1, GoingOnKeepsTarget
    <3>3. ReleasedLast' BY <2>1 DEF ReleasedLast, NeverMissed
    <3> QED BY <2>2, <3>2, <3>3, QuietKeeps DEF StoreInv
  <2> QED BY <1>2, <2>3, <2>4 DEF LookUpFails
<1>3. CASE AddFinalizerReplyLost
  <2>1. worker'.pc = "idle" BY <1>3 DEF AddFinalizerReplyLost, Requeue, Idle
  <2> QED BY <1>0, <1>3, <2>1, AddFinalizerStore DEF AddFinalizerReplyLost
<1>4. CASE DeleteReplyLost
  <2>1. /\ worker.pc # "idle" /\ Answering /\ Found # <<>> /\ UNCHANGED <<history, cluster>>
        /\ SetDocs(worker.core, profile.imsi, Tail(Found)) /\ worker'.pc = "idle"
    BY <1>4 DEF DeleteReplyLost, Requeue, Idle
  <2>2. Tail(Found) = <<>> BY <1>0, <2>1, RemovalEmpties
  <2>3. Covered' BY <1>0, <2>1, <2>2, WriteKeepsCovered
  <2>4. MongoStays' BY <2>1 DEF StoreInv, MongoStays, NeverMissed, cluster
  <2> QED BY <2>1, <2>3, <2>4, IdleKeepsPass DEF StoreInv
<1> QED BY <1>1, <1>2, <1>3, <1>4 DEF Faults

LEMMA OutsideStore ==
  ASSUME ExternalDocuments = {}, TypeOK, StoreInv, Outside
  PROVE  StoreInv'
<1>1. UNCHANGED <<worker, history>>
  BY DEF Outside, ExternalInsert, ExternalModify, ExternalRemove, CreateOpen5GS,
         DeleteOpen5GS, EnableMongoDB, StartMongoDB, StopMongoDB, LoseVolume, DisableMongoDB
<1>2. \A j \in Cores, m \in IMSIs : docs'[j][m] = <<>> \/ docs'[j][m] = docs[j][m]
  BY OutsideOnlyRemoves
<1>3. PassTarget' /\ ReleasedLast' BY <1>1, <1>2, OthersKeepPass
<1>4. Covered'
  <2>1. \A v \in Users : \A i, imsi : ManagedBy(v, i, imsi) => ManagedBy(v, i, imsi)'
    BY <1>1 DEF ManagedBy, Current
  <2>2. \A i \in NeverMissed, imsi \in IMSIs : docs'[i][imsi] # <<>> => docs[i][imsi] # <<>>
    BY <1>2, NeverMissedType
  <2> QED BY <2>1, <2>2, CoveredKept DEF StoreInv
<1>5. MongoStays'
  <2>1. Spend("core") \/ UNCHANGED <<open5gs, service>>
    BY DEF Outside, ExternalInsert, ExternalModify, ExternalRemove, CreateOpen5GS, cluster,
           DeleteOpen5GS, EnableMongoDB, StartMongoDB, StopMongoDB, LoseVolume, DisableMongoDB
  <2>2. CASE Spend("core")
    <3>1. NeverMissed = {} BY <2>2, MissedWhenSpent DEF TypeOK
    <3> QED BY <3>1 DEF MongoStays, NeverMissed
  <2>3. CASE UNCHANGED <<open5gs, service>> BY <2>3 DEF StoreInv, MongoStays, NeverMissed
  <2> QED BY <2>1, <2>2, <2>3
<1> QED BY <1>3, <1>4, <1>5 DEF StoreInv

(***************************************************************************)
(* The invariant that the two theorems below and the refinement rest on.   *)
(***************************************************************************)
LEMMA StoreInvariant ==
  ASSUME ExternalDocuments = {}, SettledSpecs
  PROVE  Spec => [](Known /\ StoreInv)
<1>1. Init => Known /\ StoreInv
  <2> SUFFICES ASSUME Init PROVE Known /\ StoreInv OBVIOUS
  <2>1. TypeOK BY InitType
  <2>2. FinalizerHeld /\ DeletionPass /\ WriteUnderFinalizer BY InitKeeps
  <2>3. Single BY InitSingle
  <2>4. worker.pc = "idle" BY DEF Init, Idle
  <2>5. StoreInv
    BY <2>4, NeverMissedType
       DEF Init, StoreInv, MongoStays, NeverMissed, PassTarget, Covered, ReleasedLast
  <2> QED BY <2>1, <2>2, <2>3, <2>5, InitLogInv DEF Known, IInv
<1>2. TypeOK /\ LogInv /\ [Next]_vars => LogInv'
  BY StepLogInv
<1>3. Known /\ StoreInv /\ [Next]_vars => StoreInv'
  <2>1. ASSUME TypeOK, StoreInv, UNCHANGED vars PROVE StoreInv'
    <3>1. UNCHANGED <<history, worker, cluster, docs>> BY <2>1 DEF vars, cluster
    <3> QED BY <2>1, <3>1, OthersKeepPass, QuietKeeps DEF StoreInv
  <2> QED BY <2>1, OwnersStore, ManagerStore, WorkerStore, FaultsStore, OutsideStore
          DEF Next, Known, IInv
<1>4. Spec => []IInv BY AlwaysGuarded
<1>5. Spec => []Single BY AlwaysSingle
<1>6. Known <=> IInv /\ Single /\ LogInv BY DEF Known
<1>7. IInv => TypeOK BY DEF IInv
<1> QED BY <1>1, <1>2, <1>3, <1>4, <1>5, <1>6, <1>7, PTL DEF Spec

\* With instances that neither come nor go, documents are in those of the start only.
AtHome ==
  service = InitialInstances /\ \A i \in Cores \ InitialInstances, imsi \in IMSIs : docs[i][imsi] = <<>>

LEMMA DocumentsAtHome ==
  ASSUME ExternalDocuments = {}, Bound["core"] = 0
  PROVE  Spec => []AtHome
<1>1. Init => AtHome BY DEF Init, AtHome
<1>2. TypeOK /\ AtHome /\ [Next]_vars => AtHome'
  <2> SUFFICES ASSUME TypeOK, AtHome, [Next]_vars PROVE AtHome' OBVIOUS
  <2>1. CASE UNCHANGED <<service, docs>> BY <2>1 DEF AtHome
  <2>2. ASSUME worker.pc # "idle", Answering, UNCHANGED service,
               NEW found, SetDocs(worker.core, profile.imsi, found)
        PROVE  AtHome'
    <3>1. \A j \in Cores, m \in IMSIs :
            docs'[j][m] = IF j = worker.core /\ m = profile.imsi THEN found ELSE docs[j][m]
      BY <2>2, PassSetsDocs
    <3>2. worker.core \in InitialInstances BY <2>2 DEF Answering, Reachable, AtHome
    <3> QED BY <2>2, <3>1, <3>2 DEF AtHome
  <2>3. CASE Outside
    <3>1. ~Spend("core")
      BY UserAssumption DEF Spend, TypeOK, UsedType, Kinds
    <3>2. UNCHANGED service
      BY <2>3, <3>1 DEF Outside, ExternalInsert, ExternalModify, ExternalRemove, CreateOpen5GS, cluster,
             DeleteOpen5GS, EnableMongoDB, StartMongoDB, StopMongoDB, LoseVolume, DisableMongoDB
    <3> QED BY <2>3, <3>2, OutsideOnlyRemoves DEF AtHome
  <2>4. CASE Worker
    <3>1. CASE InsertOne BY <2>2, <3>1 DEF InsertOne, cluster
    <3>2. CASE UpdateOne BY <2>2, <3>2 DEF UpdateOne, cluster
    <3>3. CASE DeleteOne
      BY <2>1, <2>2, <3>3 DEF DeleteOne, cluster
    <3>4. CASE UNCHANGED <<service, docs>> BY <2>1, <3>4
    <3> QED BY <2>4, <3>1, <3>2, <3>3, <3>4
            DEF Worker, AddFinalizer, UpdateConflict, reconcileSubscriber, FindOne, deleteSubscriber,
                RemoveFinalizer, MongoUnreachable, cluster
  <2>5. CASE Faults
    <3>1. CASE DeleteReplyLost BY <2>2, <3>1 DEF DeleteReplyLost, cluster
    <3>2. CASE UNCHANGED <<service, docs>> BY <2>1, <3>2
    <3> QED BY <2>5, <3>1, <3>2
            DEF Faults, RequestFails, LookUpFails, AddFinalizerReplyLost, cluster
  <2>6. CASE Owners \/ Manager \/ UNCHANGED vars
    <3>1. UNCHANGED <<service, docs>>
      BY <2>6 DEF Owners, CreateUser, EditUser, DeleteUser, Manager, Restart, SyncCache, Start,
                  StartGone, vars, cluster
    <3> QED BY <2>1, <3>1
  <2> QED BY <2>3, <2>4, <2>5, <2>6 DEF Next
<1> QED BY <1>1, <1>2, TypeCorrect, PTL DEF Spec

(***************************************************************************)
(* No document outlives its resource: however the finalizer, the four      *)
(* calls of a pass, stale passes, crashes and failed calls interleave, as  *)
(* long as no look-up fails and the instances stay.                        *)
(***************************************************************************)
THEOREM NoDocumentOrphaned ==
  ASSUME ExternalDocuments = {}, SettledSpecs, Bound["core"] = 0, Bound["lookup"] = 0
  PROVE  Spec => []NoOrphan
<1>1. StoreInv /\ AtHome => NoOrphan
  <2>1. NeverMissed = InitialInstances BY DEF NeverMissed
  <2> QED BY <2>1 DEF StoreInv, Covered, AtHome, NoOrphan, ManagedBy
<1> QED BY <1>1, StoreInvariant, DocumentsAtHome, PTL

-------------------------------------------------------------------------------
(***************************************************************************)
(* The refinement, step by step. A step of the controller is a step of     *)
(* SubscriberStore on the resources and documents, or changes neither.     *)
(***************************************************************************)
StoreStep == Store!Next \/ UNCHANGED <<Resources, docs, OutsideEvents>>

LEMMA SameOperators ==
  /\ \A u, s : Store!Target(u, s) = Target(u, s)
  /\ \A s : Store!Created(s) = Created(s)
  /\ \A o : Store!Deleted(o) = Deleted(o)
  /\ Store!Absent = Absent
  /\ Store!Cores = Cores
BY DEF Store!Target, Target, Store!Created, Created, Store!Deleted, Deleted, Store!Absent, Absent,
       Store!Cores, Cores

LEMMA SameDocuments ==
  /\ \A p : Store!AddFails(p) = AddFails(p)
  /\ \A p : Store!UpdateFails(p) = UpdateFails(p)
  /\ \A p : Store!AddedDocument(p) = AddedDocument(p)
  /\ \A p, doc : Store!UpdatedDocument(p, doc) = UpdatedDocument(p, doc)
BY DEF Store!AddFails, AddFails, Store!UpdateFails, UpdateFails, Store!HasSlice, HasSlice,
       Store!IsNumeric, IsNumeric, Store!SetsSlice, SetsSlice, Store!AddedDocument, AddedDocument,
       Store!UpdatedDocument, UpdatedDocument, Store!Unset, Unset, Store!BsonInteger, BsonInteger,
       Store!addSubscriberWithSlice, addSubscriberWithSlice, Store!addSubscriberWithAPN,
       addSubscriberWithAPN, Store!addSubscriberWithDefaults, addSubscriberWithDefaults,
       Store!NewDocument, NewDocument, Store!DefaultSST, DefaultSST, Store!DefaultAPN, DefaultAPN

\* An accepted write is a change of one resource.
LEMMA WriteIsSetResource ==
  ASSUME HistoryType, NEW u \in Users, NEW o \in Object, Write(u, o), UNCHANGED <<docs, OutsideEvents>>
  PROVE  /\ Store!SetResource(u, o)
         /\ Resources[u] = Current(u)
<1>1. history \in [Users -> Seq(Object)] BY DEF HistoryType
<1>2. Current(u)' = o /\ \A v \in Users \ {u} : Current(v)' = Current(v)
  BY <1>1, WriteFacts DEF Current
<1>3. Resources' = [Resources EXCEPT ![u] = o] BY <1>2 DEF Resources
<1> QED BY <1>3 DEF Store!SetResource, Resources

\* What is spent on anything but scripts and instances is no event outside.
LEMMA SpendCounts ==
  ASSUME UsedType, NEW kind \in Kinds, Spend(kind)
  PROVE  OutsideEvents' = IF kind \in {"external", "core"} THEN OutsideEvents + 1 ELSE OutsideEvents
<1>1. "external" \in Kinds /\ "core" \in Kinds BY DEF Kinds
<1>2. used' = [used EXCEPT ![kind] = used[kind] + 1] /\ used \in [Kinds -> Nat]
  BY DEF Spend, UsedType
<1>3. used["external"] \in Nat /\ used["core"] \in Nat BY <1>1, <1>2
<1>4. CASE kind = "external" BY <1>1, <1>2, <1>3, <1>4 DEF OutsideEvents
<1>5. CASE kind = "core" BY <1>1, <1>2, <1>3, <1>5 DEF OutsideEvents
<1>6. CASE kind \notin {"external", "core"} BY <1>1, <1>2, <1>6 DEF OutsideEvents
<1> QED BY <1>4, <1>5, <1>6

LEMMA OwnersRefine == TypeOK /\ LogInv /\ Owners => StoreStep
<1> SUFFICES ASSUME TypeOK, LogInv, NEW u \in Users,
                    \/ \E spec \in SpecsOf[u] : CreateUser(u, spec) \/ EditUser(u, spec)
                    \/ DeleteUser(u)
             PROVE  StoreStep
  BY DEF Owners
<1>1. /\ HistoryType /\ UsedType /\ SpecsOf[u] \subseteq UserSpec /\ Current(u) \in Object
      /\ Resources[u] = Current(u)
  BY ResourceAssumption, CurrentType DEF TypeOK, Resources
<1>2. ASSUME NEW spec \in SpecsOf[u], CreateUser(u, spec) PROVE StoreStep
  <2>1. Created(spec) \in Object BY <1>1, ObjectTypes DEF Object
  <2>2. UNCHANGED OutsideEvents BY <1>1, <1>2, SpendCounts DEF CreateUser, Kinds
  <2>3. Store!SetResource(u, Created(spec)) BY <1>1, <1>2, <2>1, <2>2, WriteIsSetResource DEF CreateUser
  <2>4. Store!CreateUser(u, spec) BY <1>1, <1>2, <2>3, SameOperators DEF CreateUser, Store!CreateUser
  <2> QED BY <2>4 DEF StoreStep, Store!Next
<1>3. ASSUME NEW spec \in SpecsOf[u], EditUser(u, spec) PROVE StoreStep
  <2>1. Current(u) \in Existing BY <1>1, <1>3, ObjectTypes DEF EditUser
  <2>2. [Current(u) EXCEPT !.spec = spec] \in Object BY <1>1, <2>1, ObjectTypes DEF Object
  <2>3. UNCHANGED OutsideEvents BY <1>1, <1>3, SpendCounts DEF EditUser, Kinds
  <2>4. Store!SetResource(u, [Current(u) EXCEPT !.spec = spec])
    BY <1>1, <1>3, <2>2, <2>3, WriteIsSetResource DEF EditUser
  <2>5. Store!EditUser(u, spec) BY <1>1, <1>3, <2>4 DEF EditUser, Store!EditUser
  <2> QED BY <2>5 DEF StoreStep, Store!Next
<1>4. CASE DeleteUser(u)
  <2>1. Current(u) \in Existing BY <1>1, <1>4, ObjectTypes DEF DeleteUser
  <2>2. Deleted(Current(u)) \in Object
    <3>1. [Current(u) EXCEPT !.deleting = TRUE] \in Existing BY <2>1 DEF Existing
    <3> QED BY <3>1, ObjectTypes DEF Deleted, Object
  <2>3. UNCHANGED OutsideEvents BY <1>1, <1>4, SpendCounts DEF DeleteUser, Kinds
  <2>4. Store!SetResource(u, Deleted(Current(u)))
    BY <1>1, <1>4, <2>2, <2>3, WriteIsSetResource DEF DeleteUser
  <2>5. Store!DeleteUser(u) BY <1>1, <1>4, <2>4, SameOperators DEF DeleteUser, Store!DeleteUser
  <2> QED BY <2>5 DEF StoreStep, Store!Next
<1> QED BY <1>2, <1>3, <1>4

\* Steps that write nothing.
LEMMA QuietRefines == UNCHANGED <<history, docs, OutsideEvents>> => StoreStep
BY DEF StoreStep, Resources, Current

LEMMA ManagerRefines == TypeOK /\ Manager => StoreStep
<1> SUFFICES ASSUME TypeOK, Manager PROVE StoreStep OBVIOUS
<1>1. CASE Restart
  <2>1. UNCHANGED OutsideEvents BY <1>1, SpendCounts DEF Restart, TypeOK, Kinds
  <2> QED BY <1>1, <2>1, QuietRefines DEF Restart
<1>2. ASSUME NEW u \in Users, SyncCache(u) \/ Start(u) \/ StartGone(u) PROVE StoreStep
  BY <1>2, QuietRefines DEF SyncCache, Start, StartGone, OutsideEvents
<1> QED BY <1>1, <1>2 DEF Manager

\* The finalizer goes on the last version of a resource.
LEMMA AddFinalizerRefines ==
  ASSUME TypeOK, LogInv, worker.pc = "addFinalizer", UpToDate, UNCHANGED <<docs, OutsideEvents>>,
         Write(worker.user, [user EXCEPT !.finalizer = TRUE])
  PROVE  StoreStep
<1> DEFINE u == worker.user
<1>1. HistoryType /\ WorkerType /\ worker.pc # "idle" BY DEF TypeOK
<1>2. /\ u \in Users /\ user = Current(u) /\ user.present /\ ~user.deleting
      /\ [user EXCEPT !.finalizer = TRUE] \in Object
  BY <1>1, WithFinalizer DEF WorkerType, UpToDate, user, Current, LogInv, AddingPass
<1>3. Store!SetResource(u, [user EXCEPT !.finalizer = TRUE]) /\ Resources[u] = user
  BY <1>1, <1>2, WriteIsSetResource
<1>4. Store!Guard(u) BY <1>2, <1>3 DEF Store!Guard
<1> QED BY <1>2, <1>4 DEF StoreStep, Store!Next

\* The resource goes, marked, with its finalizer and after its document.
LEMMA RemoveFinalizerRefines ==
  ASSUME Known, StoreInv, RemoveFinalizer
  PROVE  StoreStep
<1> DEFINE u == worker.user
<1>1. TypeOK /\ HistoryType /\ WorkerType /\ worker.pc # "idle" /\ worker.pc = "removeFinalizer"
  BY DEF Known, IInv, TypeOK, RemoveFinalizer
<1>2. /\ u \in Users /\ user = Current(u) /\ user.deleting /\ worker.rv \in 1..Len(history[u])
      /\ Write(u, Absent) /\ UNCHANGED <<docs, OutsideEvents>>
  BY <1>1 DEF RemoveFinalizer, WorkerType, UpToDate, user, Current, Known, IInv, DeletionPass, OutsideEvents
<1>3. user.present /\ user.finalizer BY <1>2 DEF Known, LogInv, LogsFaithful, user
<1>4. Store!SetResource(u, Absent) /\ Resources[u] = user
  BY <1>1, <1>2, ObjectTypes, WriteIsSetResource
<1>5. Target(u, user.spec) \in NeverMissed => docs[Target(u, user.spec)][user.spec.profile.imsi] = <<>>
  BY <1>1 DEF StoreInv, ReleasedLast, profile
<1>6. Store!Release(u)
  BY <1>2, <1>3, <1>4, <1>5, SameOperators DEF Store!Release, Store!Held, Store!DocsFor
<1> QED BY <1>2, <1>6 DEF StoreStep, Store!Next

\* What a pass does to MongoDB, seen by SubscriberStore.
LEMMA PassSetsStore ==
  ASSUME TypeOK, LogInv, StoreInv, worker.pc # "idle", Answering,
         UNCHANGED <<history, OutsideEvents>>, NEW found, SetDocs(worker.core, profile.imsi, found)
  PROVE  /\ worker.user \in Users /\ user.spec \in SpecsOf[worker.user]
         /\ worker.core = Target(worker.user, user.spec)
         /\ Store!SetDocsFor(worker.user, user.spec, found)
         /\ Store!DocsFor(worker.user, user.spec) = Found
<1>1. worker.user \in Users /\ worker.rv \in 1..Len(history[worker.user]) /\ user.present
  BY DEF TypeOK, WorkerType
<1>2. user.spec \in SpecsOf[worker.user] BY <1>1 DEF LogInv, LogsFaithful, user
<1>3. worker.core \in Cores BY FoundType
<1>4. worker.core = Target(worker.user, user.spec)
  BY <1>3, UserAssumption DEF StoreInv, PassTarget
<1>5. Store!Target(worker.user, user.spec) = worker.core BY <1>4, SameOperators
<1>6. UNCHANGED Resources BY DEF Resources, Current
<1>7. Store!SetDocsFor(worker.user, user.spec, found)
  BY <1>5, <1>6 DEF Store!SetDocsFor, SetDocs, profile
<1>8. Store!DocsFor(worker.user, user.spec) = Found BY <1>5 DEF Store!DocsFor, Found, profile
<1> QED BY <1>1, <1>2, <1>4, <1>7, <1>8

LEMMA InsertOneRefines ==
  ASSUME SettledSpecs, Known, StoreInv, InsertOne
  PROVE  StoreStep
<1> DEFINE u == worker.user
<1>1. /\ TypeOK /\ LogInv /\ worker.pc \in Writing /\ worker.pc # "idle" /\ Answering
      /\ UNCHANGED <<history, OutsideEvents>> /\ ~AddFails(profile) /\ Found = <<>>
  <2>1. /\ TypeOK /\ LogInv /\ worker.pc \in Writing /\ worker.pc # "idle" /\ Answering
        /\ UNCHANGED <<history, OutsideEvents>> /\ ~AddFails(profile)
    BY DEF InsertOne, Writing, Known, IInv, TypeOK, WorkerType, OutsideEvents
  <2>2. worker.core \in Cores BY <2>1, FoundType
  <2> QED BY <2>1, <2>2 DEF InsertOne, Known, Single, InsertsFirst
<1>2. SetDocs(worker.core, profile.imsi, <<AddedDocument(profile)>>)
  <2>1. Append(Found, AddedDocument(profile)) = <<AddedDocument(profile)>> BY <1>1
  <2> QED BY <2>1 DEF InsertOne
<1>3. /\ u \in Users /\ user.spec \in SpecsOf[u] /\ Store!DocsFor(u, user.spec) = <<>>
      /\ Store!SetDocsFor(u, user.spec, <<AddedDocument(profile)>>)
  BY <1>1, <1>2, PassSetsStore
<1>4. Store!Held(u)
  BY <1>1, <1>3 DEF Store!Held, Resources, Known, IInv, WriteUnderFinalizer, Writing
<1>5. Store!Provision(u, user.spec)
  BY <1>1, <1>3, <1>4, SameDocuments DEF Store!Provision, profile
<1> QED BY <1>3, <1>5 DEF StoreStep, Store!Next

LEMMA NothingAppended ==
  ASSUME NEW element
  PROVE  <<element>> \o <<>> = <<element>>
<1>1. <<element>> \in Seq({element}) OBVIOUS
<1> QED BY <1>1

LEMMA UpdateOneRefines ==
  ASSUME SettledSpecs, Known, StoreInv, UpdateOne
  PROVE  StoreStep
<1> DEFINE u == worker.user
           new == UpdatedDocument(profile, Head(Found))
<1>1. /\ TypeOK /\ LogInv /\ AtMostOneDocument /\ worker.pc \in Writing /\ worker.pc # "idle"
      /\ Answering /\ UNCHANGED <<history, OutsideEvents>> /\ ~UpdateFails(profile)
  BY DEF UpdateOne, Writing, Known, IInv, TypeOK, WorkerType, Single, OutsideEvents
\* MatchedCount is 0: nothing is written.
<1>2. CASE Found = <<>>
  <2>1. docs' = [docs EXCEPT ![worker.core][profile.imsi] = <<>>] BY <1>2 DEF UpdateOne, SetDocs
  <2>2. worker.core \in Cores /\ profile.imsi \in IMSIs BY <1>1, FoundType, PassType DEF TypeOK
  <2>3. docs \in [Cores -> [IMSIs -> Seq(Document)]] BY <1>1 DEF TypeOK, StoreType
  <2>4. docs[worker.core][profile.imsi] = <<>> BY <1>2 DEF Found
  <2>5. UNCHANGED docs BY <2>1, <2>2, <2>3, <2>4
  <2> QED BY <1>1, <2>5, QuietRefines
<1>3. CASE Found # <<>>
  <2>1. Tail(Found) = <<>> BY <1>1, <1>3, RemovalEmpties
  <2>2. <<new>> \o Tail(Found) = <<new>> BY <2>1, NothingAppended
  <2>3. SetDocs(worker.core, profile.imsi, <<new>>) BY <1>3, <2>2 DEF UpdateOne
  <2>4. /\ u \in Users /\ user.spec \in SpecsOf[u] /\ Store!DocsFor(u, user.spec) = Found
        /\ Store!SetDocsFor(u, user.spec, <<new>>)
    BY <1>1, <2>3, PassSetsStore
  <2>5. Store!Held(u)
    BY <1>1, <2>4 DEF Store!Held, Resources, Known, IInv, WriteUnderFinalizer, Writing
  <2>6. Store!Correct(u, user.spec)
    BY <1>1, <1>3, <2>4, <2>5, SameDocuments DEF Store!Correct, profile
  <2> QED BY <2>4, <2>6 DEF StoreStep, Store!Next
<1> QED BY <1>2, <1>3

(***************************************************************************)
(* A deletion pass, however old its version, removes the document of a     *)
(* resource marked for deletion, of a namesake, or of nobody: never that   *)
(* of its own resource created anew.                                       *)
(***************************************************************************)
LEMMA RemovalRefines ==
  ASSUME Known, StoreInv, worker.pc = "DeleteOne", Answering, Found # <<>>,
         SetDocs(worker.core, profile.imsi, Tail(Found)), UNCHANGED <<history, OutsideEvents>>
  PROVE  StoreStep
<1> DEFINE u == worker.user
           i == Target(u, user.spec)
           imsi == user.spec.profile.imsi
<1>1. TypeOK /\ LogInv /\ AtMostOneDocument /\ worker.pc # "idle" BY DEF Known, IInv, Single
<1>2. SetDocs(worker.core, profile.imsi, <<>>) BY <1>1, RemovalEmpties
<1>3. /\ u \in Users /\ user.spec \in SpecsOf[u] /\ worker.core = i
      /\ Store!DocsFor(u, user.spec) = Found /\ Store!SetDocsFor(u, user.spec, <<>>)
  BY <1>1, <1>2, PassSetsStore
<1>4. \A v \in Users : Store!HeldFor(v, i, imsi) <=> ManagedBy(v, i, imsi)
  BY SameOperators DEF Store!HeldFor, Store!Held, Resources, ManagedBy
<1>5. CASE \E v \in Users \ {u} : ManagedBy(v, i, imsi)
  <2>1. Store!Remove(u, user.spec)
    BY <1>3, <1>4, <1>5, SameOperators DEF Store!Remove
  <2> QED BY <1>3, <2>1 DEF StoreStep, Store!Next
<1>6. CASE ManagedBy(u, i, imsi)
  <2>1. user.deleting /\ worker.rv \in 1..Len(history[u]) /\ worker.rv \in Nat
    BY <1>1 DEF Known, IInv, DeletionPass, TypeOK, WorkerType
  <2>2. ~(InService(u) /\ MarkedBefore(u, worker.rv))
    <3>1. SUFFICES ASSUME MarkedBefore(u, worker.rv) PROVE FALSE OBVIOUS
    <3>2. worker.rv < worker.rv BY <2>1, <3>1 DEF MarkedBefore, user
    <3> QED BY <2>1, <3>2
  <2>3. Current(u).deleting
    BY <1>1, <1>6, <2>2 DEF LogInv, PassNotRevived, InService, ManagedBy
  <2>4. Store!Held(u) /\ Resources[u].deleting
    BY <1>3, <1>6, <2>3 DEF Store!Held, Resources, ManagedBy
  <2>5. Store!Remove(u, user.spec) BY <1>3, <2>4 DEF Store!Remove
  <2> QED BY <1>3, <2>5 DEF StoreStep, Store!Next
<1>7. CASE \A v \in Users : ~ManagedBy(v, i, imsi)
  <2>1. profile.imsi \in IMSIs /\ profile.imsi = imsi BY <1>1, PassType DEF TypeOK, profile
  <2>2. i \notin NeverMissed
    BY <1>3, <1>7, <2>1 DEF StoreInv, Covered, Found
  <2>3. Store!Remove(u, user.spec)
    BY <1>3, <1>4, <1>7, <2>2, SameOperators DEF Store!Remove
  <2> QED BY <1>3, <2>3 DEF StoreStep, Store!Next
<1> QED BY <1>5, <1>6, <1>7

LEMMA WorkerRefines == SettledSpecs /\ Known /\ StoreInv /\ Worker => StoreStep
<1> SUFFICES ASSUME SettledSpecs, Known, StoreInv, Worker PROVE StoreStep OBVIOUS
<1>1. TypeOK /\ LogInv BY DEF Known, IInv
<1>2. UNCHANGED OutsideEvents
  BY DEF Worker, AddFinalizer, UpdateConflict, reconcileSubscriber, FindOne, InsertOne, UpdateOne,
         deleteSubscriber, DeleteOne, RemoveFinalizer, MongoUnreachable, OutsideEvents
<1>3. CASE AddFinalizer BY <1>1, <1>2, <1>3, AddFinalizerRefines DEF AddFinalizer
<1>4. CASE InsertOne BY <1>4, InsertOneRefines
<1>5. CASE UpdateOne BY <1>5, UpdateOneRefines
<1>6. CASE DeleteOne
  <2>1. CASE Found = <<>> BY <1>2, <1>6, <2>1, QuietRefines DEF DeleteOne
  <2>2. CASE Found # <<>> BY <1>2, <1>6, <2>2, RemovalRefines DEF DeleteOne
  <2> QED BY <2>1, <2>2
<1>7. CASE RemoveFinalizer BY <1>7, RemoveFinalizerRefines
<1>8. CASE UNCHANGED <<history, docs>> BY <1>2, <1>8, QuietRefines
<1> QED BY <1>3, <1>4, <1>5, <1>6, <1>7, <1>8
        DEF Worker, UpdateConflict, reconcileSubscriber, FindOne, deleteSubscriber, MongoUnreachable

LEMMA FaultsRefine == Known /\ StoreInv /\ Faults => StoreStep
<1> SUFFICES ASSUME Known, StoreInv, Faults PROVE StoreStep OBVIOUS
<1>1. TypeOK /\ LogInv BY DEF Known, IInv
<1>2. UNCHANGED OutsideEvents
  BY <1>1, SpendCounts
     DEF Faults, RequestFails, LookUpFails, AddFinalizerReplyLost, DeleteReplyLost, TypeOK, Kinds
<1>3. CASE AddFinalizerReplyLost
  BY <1>1, <1>2, <1>3, AddFinalizerRefines DEF AddFinalizerReplyLost
<1>4. CASE DeleteReplyLost BY <1>2, <1>4, RemovalRefines DEF DeleteReplyLost
<1>5. CASE RequestFails \/ LookUpFails
  BY <1>2, <1>5, QuietRefines DEF RequestFails, LookUpFails
<1> QED BY <1>3, <1>4, <1>5 DEF Faults

LEMMA OutsideRefines == ExternalDocuments = {} /\ TypeOK /\ Outside => StoreStep
<1> SUFFICES ASSUME ExternalDocuments = {}, TypeOK, NEW i \in Cores,
                    \/ \E imsi \in IMSIs : ExternalRemove(i, imsi)
                    \/ CreateOpen5GS(i) \/ DeleteOpen5GS(i)
                    \/ EnableMongoDB(i) \/ DisableMongoDB(i)
                    \/ StartMongoDB(i) \/ StopMongoDB(i) \/ LoseVolume(i)
             PROVE  StoreStep
  BY DEF Outside
<1>1. /\ docs \in [Cores -> [IMSIs -> Seq(Document)]] /\ UsedType /\ UNCHANGED history
      /\ i \in Store!Cores
  BY SameOperators
     DEF TypeOK, StoreType, ExternalRemove, CreateOpen5GS, DeleteOpen5GS, EnableMongoDB, DisableMongoDB,
         StartMongoDB, StopMongoDB, LoseVolume
<1>2. UNCHANGED Resources BY <1>1 DEF Resources, Current
<1>3. ASSUME NEW imsis \in SUBSET IMSIs, OutsideEvents' = OutsideEvents + 1,
             docs' = [docs EXCEPT ![i] = [imsi \in IMSIs |-> IF imsi \in imsis THEN <<>> ELSE docs[i][imsi]]]
      PROVE  StoreStep
  BY <1>1, <1>2, <1>3 DEF Store!Lose, StoreStep, Store!Next
<1>4. CASE \E imsi \in IMSIs : ExternalRemove(i, imsi)
  <2>1. PICK imsi \in IMSIs : ExternalRemove(i, imsi) BY <1>4
  <2>2. OutsideEvents' = OutsideEvents + 1
    BY <1>1, <2>1, SpendCounts DEF ExternalRemove, Kinds
  <2>3. docs' = [docs EXCEPT ![i] = [docs[i] EXCEPT ![imsi] = <<>>]]
    BY <2>1 DEF ExternalRemove, SetDocs
  <2>4. [docs[i] EXCEPT ![imsi] = <<>>]
          = [m \in IMSIs |-> IF m \in {imsi} THEN <<>> ELSE docs[i][m]]
    BY <1>1
  <2> QED BY <1>3, <2>2, <2>3, <2>4
<1>5. CASE LoseVolume(i)
  <2>1. OutsideEvents' = OutsideEvents + 1 BY <1>1, <1>5, SpendCounts DEF LoseVolume, Kinds
  <2>2. [imsi \in IMSIs |-> <<>>] = [imsi \in IMSIs |-> IF imsi \in IMSIs THEN <<>> ELSE docs[i][imsi]]
    OBVIOUS
  <2> QED BY <1>3, <1>5, <2>1, <2>2 DEF LoseVolume
<1>6. CASE \/ CreateOpen5GS(i) \/ DeleteOpen5GS(i) \/ EnableMongoDB(i)
           \/ DisableMongoDB(i) \/ StopMongoDB(i)
  <2>1. Spend("core") /\ UNCHANGED docs
    BY <1>6 DEF CreateOpen5GS, DeleteOpen5GS, EnableMongoDB, DisableMongoDB, StopMongoDB
  <2>2. OutsideEvents' = OutsideEvents + 1 BY <1>1, <2>1, SpendCounts DEF Kinds
  <2>3. docs[i] = [imsi \in IMSIs |-> IF imsi \in {} THEN <<>> ELSE docs[i][imsi]] BY <1>1
  <2>4. docs' = [docs EXCEPT ![i] = docs[i]] BY <1>1, <2>1
  <2> QED BY <1>3, <2>2, <2>3, <2>4
<1>7. CASE StartMongoDB(i) BY <1>7, QuietRefines DEF StartMongoDB, OutsideEvents
<1> QED BY <1>4, <1>5, <1>6, <1>7

(***************************************************************************)
(* The controller implements SubscriberStore, for every value of the       *)
(* constants under the hypotheses above: with instances that come and go   *)
(* and look-ups that fail as well, where a document may be left behind but *)
(* is still never taken from a resource in service.                        *)
(***************************************************************************)
THEOREM StoreImplemented ==
  ASSUME ExternalDocuments = {}, SettledSpecs
  PROVE  Spec => ImplementsStore
<1>1. Init => Store!Init
  BY SameOperators DEF Init, Store!Init, Resources, Current, OutsideEvents, Kinds
<1>2. Known /\ StoreInv /\ [Next]_vars => [Store!Next]_(Store!storeVars)
  <2>1. Known => TypeOK /\ LogInv BY DEF Known, IInv
  <2>2. StoreStep => [Store!Next]_(Store!storeVars) BY DEF StoreStep, Store!storeVars
  <2>3. UNCHANGED vars => StoreStep BY QuietRefines DEF vars, OutsideEvents
  <2> QED BY <2>1, <2>2, <2>3, OwnersRefine, ManagerRefines, WorkerRefines, FaultsRefine, OutsideRefines
          DEF Next
<1> QED BY <1>1, <1>2, StoreInvariant, PTL DEF Spec, ImplementsStore, Store!Spec

===============================================================================
