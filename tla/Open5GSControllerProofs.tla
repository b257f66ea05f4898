----------------------- MODULE Open5GSControllerProofs -----------------------
(***************************************************************************)
(* What the Open5GS controller may touch, and in which order, for any      *)
(* instances and specs and any lag of the caches. In five parts:           *)
(*                                                                         *)
(*  - an update hits only what the resource of its pass owns: the API      *)
(*    server refuses an update of anything but the version that was read,  *)
(*    so the owner that was checked is the owner there is;                 *)
(*  - the types, and where every version in a log comes from;              *)
(*  - what somebody else owns is spared (ForeignSpared);                   *)
(*  - what another instance owns is spared (InstancesApart), also when the *)
(*    name of one instance begins with that of another;                    *)
(*  - a Deployment follows its ConfigMap (RolloutAfterConfig).             *)
(***************************************************************************)
EXTENDS Open5GSController, Open5GSPlanProofs, TLAPS

\* What the proof needs of the logs: they are sequences, and never empty.
IsLog(log) == log # <<>> /\ \E S : log \in Seq(S)
Logs == DOMAIN objects = Keys /\ \A key \in Keys : IsLog(objects[key])

LEMMA SingletonLog ==
  ASSUME NEW object
  PROVE  IsLog(<<object>>) /\ Current(<<object>>) = object
<1>1. <<object>> \in Seq({object}) OBVIOUS
<1> QED BY <1>1 DEF IsLog, Current

LEMMA AppendedLog ==
  ASSUME NEW S, NEW log \in Seq(S), NEW object
  PROVE  IsLog(Append(log, object)) /\ Current(Append(log, object)) = object
<1>1. log \in Seq(S \cup {object}) OBVIOUS
<1>2. Append(log, object) \in Seq(S \cup {object}) BY <1>1
<1>3. Len(Append(log, object)) = Len(log) + 1 /\ Len(log) \in Nat BY <1>1
<1>4. Append(log, object) # <<>> BY <1>3
<1>5. Append(log, object)[Len(log) + 1] = object BY <1>1, <1>3
<1> QED BY <1>2, <1>3, <1>4, <1>5 DEF IsLog, Current

LEMMA TailLog ==
  ASSUME NEW log, IsLog(log), ~Fresh(log)
  PROVE  IsLog(Tail(log)) /\ Current(Tail(log)) = Current(log)
<1>1. PICK S : log \in Seq(S) BY DEF IsLog
<1>2. Len(log) \in Nat /\ Len(log) > 1
  <2>1. Len(log) \in Nat BY <1>1
  <2>2. log # <<>> BY DEF IsLog
  <2>3. Len(log) # 0 BY <1>1, <2>2
  <2>4. Len(log) # 1 BY DEF Fresh
  <2>5. \A n \in Nat : n # 0 /\ n # 1 => n > 1 OBVIOUS
  <2> QED BY <2>1, <2>3, <2>4, <2>5
<1>3. Tail(log) \in Seq(S) /\ Len(Tail(log)) = Len(log) - 1 BY <1>1, <1>2
<1>4. Tail(log)[Len(log) - 1] = log[Len(log)] BY <1>1, <1>2
<1>5. Len(Tail(log)) > 0 BY <1>2, <1>3
<1>6. \A s \in Seq(S) : Len(s) > 0 => s # <<>> OBVIOUS
<1>7. Tail(log) # <<>> BY <1>3, <1>5, <1>6
<1> QED BY <1>3, <1>4, <1>7 DEF IsLog, Current

\* Whatever a cache drops, the version that was written is the current one.
LEMMA GrownLog ==
  ASSUME NEW key, NEW log, NEW object, IsLog(log)
  PROVE  IsLog(Grown(key, log, object)) /\ Current(Grown(key, log, object)) = object
<1>1. PICK S : log \in Seq(S) BY DEF IsLog
<1>2. Tail(log) \in Seq(S) BY <1>1 DEF IsLog
<1> QED BY <1>1, <1>2, SingletonLog, AppendedLog DEF Grown

\* A version found in a cache that is up to date is the current one.
LEMMA FreshLog ==
  ASSUME NEW log, IsLog(log), Fresh(log)
  PROVE  Cached(log) = Current(log)
BY DEF IsLog, Fresh, Cached, Current

LEMMA WriteFacts ==
  ASSUME Logs, NEW key, NEW object, Write(key, object)
  PROVE  /\ Logs'
         /\ \A k \in Keys : k # key => objects'[k] = objects[k]
         /\ key \in Keys => Current(objects'[key]) = object
<1>1. DOMAIN objects' = Keys BY DEF Logs, Write
<1>2. \A k \in Keys : k # key => objects'[k] = objects[k] BY DEF Logs, Write
<1>3. CASE key \in Keys
  <2>1. IsLog(objects[key]) BY <1>3 DEF Logs
  <2>2. objects'[key] = IF object = Current(objects[key]) THEN objects[key]
                        ELSE Grown(key, objects[key], object)
    BY <1>3 DEF Logs, Write
  <2>3. IsLog(objects'[key]) /\ Current(objects'[key]) = object BY <2>1, <2>2, GrownLog
  <2> QED BY <1>1, <1>2, <2>3 DEF Logs
<1>4. CASE key \notin Keys BY <1>1, <1>2, <1>4 DEF Logs
<1> QED BY <1>3, <1>4

-------------------------------------------------------------------------------
Safe == Logs' /\ \A key \in Keys : UpdatesOwned(key)

LEMMA NothingWritten ==
  ASSUME Logs, UNCHANGED objects
  PROVE  Safe
BY DEF Logs, Safe, UpdatesOwned, ByWorker

LEMMA NotTheWorker ==
  ASSUME Logs', UNCHANGED worker
  PROVE  Safe
BY DEF Safe, UpdatesOwned, ByWorker

\* A delete, or a write in place of nothing, is no update.
LEMMA NoUpdate ==
  ASSUME Logs, NEW key, NEW object, Write(key, object),
         object = NoObject \/ (key \in Keys => Current(objects[key]) = NoObject)
  PROVE  Safe
<1>1. Logs' BY WriteFacts
<1>2. ASSUME NEW k \in Keys PROVE UpdatesOwned(k)
  <2>1. CASE k # key
    <3>1. objects'[k] = objects[k] BY <2>1, WriteFacts
    <3> QED BY <3>1 DEF UpdatesOwned, ByWorker
  <2>2. CASE k = key
    <3>1. Current(objects'[k]) = object BY <2>2, WriteFacts
    <3> QED BY <2>2, <3>1 DEF UpdatesOwned
  <2> QED BY <2>1, <2>2
<1> QED BY <1>1, <1>2 DEF Safe

LEMMA DeleteOneSafe ==
  ASSUME Logs, NEW key, NEW next, DeleteOne(key, next)
  PROVE  Safe
<1>1. CASE UNCHANGED objects BY <1>1, NothingWritten
<1>2. CASE Write(key, NoObject) BY <1>2, NoUpdate
<1> QED BY <1>1, <1>2 DEF DeleteOne

LEMMA CreateSafe == Logs /\ Create => Safe
<1> SUFFICES ASSUME Logs, Create PROVE Safe OBVIOUS
<1>1. Write(step.key, [owner |-> worker.uid, body |-> step.body]) BY DEF Create
<1>2. Current(objects[step.key]) = NoObject BY DEF Create, current
<1> QED BY <1>1, <1>2, NoUpdate

\* The update is accepted of the version found, which the pass's resource owns.
LEMMA UpdateSafe == Logs /\ Update => Safe
<1> SUFFICES ASSUME Logs, Update PROVE Safe OBVIOUS
<1> DEFINE new == [owner |-> found.owner, body |-> NewBody]
<1>1. Write(step.key, new) BY DEF Update
<1>2. found.owner = worker.uid BY DEF Update, Owned, hasOwnerReference
<1>3. Fresh(objects[step.key]) BY DEF Update, Accepted
<1>4. Logs' BY <1>1, WriteFacts
<1>5. ASSUME NEW k \in Keys PROVE UpdatesOwned(k)
  <2>1. CASE k # step.key
    <3>1. objects'[k] = objects[k] BY <1>1, <2>1, WriteFacts
    <3> QED BY <3>1 DEF UpdatesOwned, ByWorker
  <2>2. CASE k = step.key
    <3>1. IsLog(objects[k]) BY DEF Logs
    <3>2. Current(objects[k]) = found BY <1>3, <2>2, <3>1, FreshLog DEF found
    <3>3. Current(objects'[k]) = new BY <1>1, <2>2, WriteFacts
    <3>4. Current(objects'[k]).owner = found.owner BY <3>3
    <3> QED BY <1>2, <3>2, <3>4 DEF UpdatesOwned
  <2> QED BY <2>1, <2>2
<1> QED BY <1>4, <1>5 DEF Safe

LEMMA WorkerSafe == Logs /\ Worker => Safe
<1> SUFFICES ASSUME Logs, Worker PROVE Safe OBVIOUS
<1>1. CASE Create BY <1>1, CreateSafe
<1>2. CASE Update BY <1>2, UpdateSafe
<1>3. CASE DeleteNextListed
  <2>1. PICK key \in worker.doomed : DeleteOne(key, [worker EXCEPT !.doomed = @ \ {key}])
    BY <1>3 DEF DeleteNextListed
  <2> QED BY <2>1, DeleteOneSafe
<1>4. CASE DeleteByName
  <2>1. CASE DeleteOne(step.key, NextCall) BY <2>1, DeleteOneSafe
  <2>2. CASE UNCHANGED objects BY <2>2, NothingWritten
  <2> QED BY <1>4, <2>1, <2>2 DEF DeleteByName
<1>5. CASE UNCHANGED objects BY <1>5, NothingWritten
<1> QED BY <1>1, <1>2, <1>3, <1>4, <1>5
    DEF Worker, Finish, AlreadyExists, LeaveForeign, LeaveEqual, UpdateRefused, LookUpMonitorAPI,
        MonitorsGone, ListByLabel, ListUnwantedMonitors, ListOwnedByName, AllListedDeleted

LEMMA OwnersSafe == Logs /\ Owners => Safe
BY NothingWritten DEF Owners, CreateOpen5GS, EditOpen5GS, DeleteOpen5GS

LEMMA ManagerSafe == Logs /\ Manager => Safe
<1> SUFFICES ASSUME Logs, Manager PROVE Safe OBVIOUS
<1>1. CASE UNCHANGED objects BY <1>1, NothingWritten
<1>2. ASSUME NEW key \in Keys, SyncObject(key) PROVE Safe
  <2>1. IsLog(objects[key]) /\ ~Fresh(objects[key]) BY <1>2 DEF Logs, SyncObject
  <2>2. IsLog(Tail(objects[key])) BY <2>1, TailLog
  <2>3. objects' = [objects EXCEPT ![key] = Tail(@)] BY <1>2 DEF SyncObject
  <2>4. Logs' BY <2>2, <2>3 DEF Logs
  <2> QED BY <1>2, <2>4, NotTheWorker DEF SyncObject
<1> QED BY <1>1, <1>2 DEF Manager, Restart, SyncOpen5GS, Start, StartGone

LEMMA OutsideSafe == Logs /\ Outside => Safe
<1> SUFFICES ASSUME Logs, Outside PROVE Safe OBVIOUS
<1>1. ASSUME NEW key \in Keys, NEW object, Write(key, object), UNCHANGED worker PROVE Safe
  BY <1>1, WriteFacts, NotTheWorker
<1>2. ASSUME NEW key \in Keys, CollectGarbage(key) PROVE Safe BY <1>1, <1>2 DEF CollectGarbage
<1>3. ASSUME NEW key \in Keys, ExternalDelete(key) PROVE Safe BY <1>1, <1>3 DEF ExternalDelete
<1>4. ASSUME NEW key \in Keys, NEW f, Drift(key, f) PROVE Safe BY <1>1, <1>4 DEF Drift
<1>5. ASSUME NEW key \in Keys, NEW body, CreateForeign(key, body) PROVE Safe
  BY <1>1, <1>5 DEF CreateForeign
<1>6. CASE InstallMonitorCRD BY <1>6, NothingWritten DEF InstallMonitorCRD
<1>7. CASE UninstallMonitorCRD
  <2>1. \A key \in Keys : objects'[key] = <<NoObject>> \/ objects'[key] = objects[key]
    BY <1>7 DEF UninstallMonitorCRD
  <2>2. DOMAIN objects' = Keys BY <1>7 DEF UninstallMonitorCRD
  <2>3. Logs' BY <2>1, <2>2, SingletonLog DEF Logs
  <2> QED BY <1>7, <2>3, NotTheWorker DEF UninstallMonitorCRD
<1>8. Exposed \subseteq Keys /\ Contested \subseteq Keys BY ControllerAssumption
<1> QED BY <1>2, <1>3, <1>4, <1>5, <1>6, <1>7, <1>8 DEF Outside

LEMMA StepSafe == Logs /\ [Next]_vars => Safe
<1>1. ASSUME Logs, RequestFails \/ LookUpFails PROVE Safe
  BY <1>1, NothingWritten DEF RequestFails, LookUpFails
<1>2. ASSUME Logs, UNCHANGED vars PROVE Safe BY <1>2, NothingWritten DEF vars
<1> QED BY <1>1, <1>2, WorkerSafe, OwnersSafe, ManagerSafe, OutsideSafe DEF Next

LEMMA LogsStay == Logs /\ [Next]_vars => Logs'
BY StepSafe DEF Safe

(***************************************************************************)
(* An object that exists is changed by a pass only if the resource of that *)
(* pass owns it, before and after.                                         *)
(***************************************************************************)
THEOREM UpdatesAreOwned == Spec => UpdatesOnlyOwned
<1>1. Init => Logs BY SingletonLog DEF Init, Logs
<1>2. Logs /\ [Next]_vars => \A key \in Keys : UpdatesOwned(key) BY StepSafe DEF Safe
<1> QED BY <1>1, <1>2, LogsStay, PTL DEF Spec, UpdatesOnlyOwned

-------------------------------------------------------------------------------
(* The versions in a log. *)

LEMMA LogVersions ==
  ASSUME NEW log, IsLog(log)
  PROVE  /\ Len(log) \in Nat /\ Len(log) > 0 /\ DOMAIN log = 1..Len(log) /\ log \in Seq(Range(log))
         /\ Current(log) \in Range(log) /\ Cached(log) \in Range(log)
         /\ Cached(log) = log[1]
<1>1. PICK S : log \in Seq(S) /\ log # <<>> BY DEF IsLog
<1>2. Len(log) \in Nat /\ Len(log) > 0 /\ DOMAIN log = 1..Len(log) BY <1>1
<1>3. \A n \in 1..Len(log) : log[n] \in Range(log) BY <1>2 DEF Range
<1>4. log \in Seq(Range(log)) BY <1>1, <1>2, <1>3
<1>5. Cached(log) = log[1] BY <1>1 DEF Cached
<1> QED BY <1>2, <1>3, <1>4, <1>5 DEF Current

LEMMA TailVersions ==
  ASSUME NEW log, IsLog(log)
  PROVE  Range(Tail(log)) \subseteq Range(log)
<1>1. PICK S : log \in Seq(S) /\ log # <<>> BY DEF IsLog
<1>2. /\ Tail(log) \in Seq(S) /\ Len(Tail(log)) = Len(log) - 1 /\ Len(log) \in Nat
      /\ \A n \in 1..(Len(log) - 1) : Tail(log)[n] = log[n + 1]
  BY <1>1
<1>3. DOMAIN Tail(log) = 1..(Len(log) - 1) /\ DOMAIN log = 1..Len(log) BY <1>1, <1>2
<1>4. \A n \in 1..(Len(log) - 1) : n + 1 \in 1..Len(log) BY <1>2
<1> QED BY <1>2, <1>3, <1>4 DEF Range

LEMMA AppendVersions ==
  ASSUME NEW S, NEW log \in Seq(S), NEW object
  PROVE  Range(Append(log, object)) \subseteq Range(log) \cup {object}
<1>1. log \in Seq(S \cup {object}) /\ object \in S \cup {object} OBVIOUS
<1>2. /\ Len(log) \in Nat /\ DOMAIN Append(log, object) = 1..(Len(log) + 1) /\ DOMAIN log = 1..Len(log)
      /\ Append(log, object)[Len(log) + 1] = object
      /\ \A n \in 1..Len(log) : Append(log, object)[n] = log[n]
  BY <1>1
<1>3. \A n \in 1..(Len(log) + 1) : n \in 1..Len(log) \/ n = Len(log) + 1 BY <1>2
<1> QED BY <1>2, <1>3 DEF Range

LEMMA SingletonVersions == ASSUME NEW object PROVE Range(<<object>>) = {object}
<1>1. DOMAIN <<object>> = {1} /\ <<object>>[1] = object OBVIOUS
<1> QED BY <1>1 DEF Range

LEMMA GrownVersions ==
  ASSUME NEW key, NEW log, NEW object, IsLog(log)
  PROVE  Range(Grown(key, log, object)) \subseteq Range(log) \cup {object}
<1>1. PICK S : log \in Seq(S) /\ log # <<>> BY DEF IsLog
<1>2. Tail(log) \in Seq(S) BY <1>1
<1> QED BY <1>1, <1>2, SingletonVersions, AppendVersions, TailVersions DEF Grown

LEMMA WriteVersions ==
  ASSUME Logs, NEW key, NEW object, Write(key, object), NEW k \in Keys
  PROVE  Range(objects'[k]) \subseteq Range(objects[k]) \cup (IF k = key THEN {object} ELSE {})
<1>1. CASE k # key BY <1>1, WriteFacts
<1>2. CASE k = key
  <2>1. IsLog(objects[k]) BY DEF Logs
  <2>2. objects'[k] = IF object = Current(objects[k]) THEN objects[k]
                      ELSE Grown(key, objects[k], object)
    BY <1>2 DEF Logs, Write
  <2> QED BY <1>2, <2>1, <2>2, GrownVersions
<1> QED BY <1>1, <1>2

(***************************************************************************)
(* Where a version comes from: a pass that applies the object of its step, *)
(* or somebody else. Everything else that happens only removes objects,    *)
(* or brings a cache up to date.                                           *)
(***************************************************************************)
AppliedVersion(key, object) ==
  /\ Applying /\ key = step.key
  /\ \/ object = [owner |-> worker.uid, body |-> step.body]
     \/ \E before \in Range(objects[key]) \ {NoObject} :
          /\ before.owner = worker.uid
          /\ object = [owner |-> before.owner,
                       body |-> Updated(key, worker.instance, before.body, step.body)]
OutsideVersion(key, object) ==
  \/ /\ key \in Exposed
     /\ \E before \in Range(objects[key]) \ {NoObject}, field \in DriftFields :
          object = [before EXCEPT !.body[field] = Changed]
  \/ /\ key \in Contested
     /\ \E i \in Instances, c \in Functions5G : object = [owner |-> Foreign, body |-> ForeignBody(i, c)]
NewVersions ==
  \A key \in Keys : \A object \in Range(objects'[key]) :
    \/ object \in Range(objects[key]) \cup {NoObject}
    \/ AppliedVersion(key, object) \/ OutsideVersion(key, object)

LEMMA NothingNew == UNCHANGED objects => NewVersions
BY DEF NewVersions

LEMMA DeleteVersions ==
  ASSUME Logs, NEW key, Write(key, NoObject)
  PROVE  NewVersions
BY WriteVersions DEF NewVersions

LEMMA WorkerVersions == Logs /\ Worker => NewVersions
<1> SUFFICES ASSUME Logs, Worker PROVE NewVersions OBVIOUS
<1>1. CASE Create
  <2> DEFINE new == [owner |-> worker.uid, body |-> step.body]
  <2>1. Write(step.key, new) /\ Applying BY <1>1 DEF Create
  <2>2. AppliedVersion(step.key, new) BY <2>1 DEF AppliedVersion
  <2> HIDE DEF new
  <2> QED BY <2>1, <2>2, WriteVersions DEF NewVersions
<1>2. CASE Update
  <2> DEFINE new == [owner |-> found.owner, body |-> NewBody]
  <2>1. Write(step.key, new) /\ Applying /\ found # NoObject /\ found.owner = worker.uid
    BY <1>2 DEF Update, Owned, hasOwnerReference
  <2>2. ASSUME step.key \in Keys PROVE AppliedVersion(step.key, new)
    <3>1. found \in Range(objects[step.key]) BY <2>2, LogVersions DEF Logs, found
    <3> QED BY <2>1, <3>1 DEF AppliedVersion, NewBody
  <2> HIDE DEF new
  <2> QED BY <2>1, <2>2, WriteVersions DEF NewVersions
<1>3. ASSUME NEW key, NEW next, DeleteOne(key, next) PROVE NewVersions
  BY <1>3, DeleteVersions, NothingNew DEF DeleteOne
<1>4. CASE DeleteNextListed BY <1>3, <1>4 DEF DeleteNextListed
<1>5. CASE DeleteByName BY <1>3, <1>5, NothingNew DEF DeleteByName
<1>6. CASE UNCHANGED objects BY <1>6, NothingNew
<1> QED BY <1>1, <1>2, <1>4, <1>5, <1>6
    DEF Worker, Finish, AlreadyExists, LeaveForeign, LeaveEqual, UpdateRefused, LookUpMonitorAPI,
        MonitorsGone, ListByLabel, ListUnwantedMonitors, ListOwnedByName, AllListedDeleted

LEMMA OutsideVersions == Logs /\ Outside => NewVersions
<1> SUFFICES ASSUME Logs, Outside PROVE NewVersions OBVIOUS
<1>1. ASSUME NEW key \in Keys, CollectGarbage(key) \/ ExternalDelete(key) PROVE NewVersions
  BY <1>1, DeleteVersions DEF CollectGarbage, ExternalDelete
<1>2. ASSUME NEW key \in Exposed, NEW f \in DriftFields, Drift(key, f) PROVE NewVersions
  <2> DEFINE before == Current(objects[key])
             new == [before EXCEPT !.body[f] = Changed]
  <2>1. key \in Keys BY ControllerAssumption
  <2>2. before \in Range(objects[key]) \ {NoObject} BY <1>2, <2>1, LogVersions DEF Drift, Logs
  <2>3. Write(key, new) BY <1>2 DEF Drift
  <2>4. OutsideVersion(key, new) BY <2>2 DEF OutsideVersion
  <2> HIDE DEF new
  <2> QED BY <2>3, <2>4, WriteVersions DEF NewVersions
<1>3. ASSUME NEW key \in Contested, NEW i \in Instances, NEW c \in Functions5G,
             CreateForeign(key, ForeignBody(i, c))
      PROVE  NewVersions
  <2> DEFINE new == [owner |-> Foreign, body |-> ForeignBody(i, c)]
  <2>1. Write(key, new) BY <1>3 DEF CreateForeign
  <2>2. OutsideVersion(key, new) BY DEF OutsideVersion
  <2> HIDE DEF new
  <2> QED BY <2>1, <2>2, WriteVersions DEF NewVersions
<1>4. CASE InstallMonitorCRD BY <1>4, NothingNew DEF InstallMonitorCRD
<1>5. CASE UninstallMonitorCRD
  <2>1. \A key \in Keys : objects'[key] = <<NoObject>> \/ objects'[key] = objects[key]
    BY <1>5 DEF UninstallMonitorCRD
  <2> QED BY <2>1, SingletonVersions DEF NewVersions
<1>6. Exposed \subseteq Keys BY ControllerAssumption
<1> QED BY <1>1, <1>2, <1>3, <1>4, <1>5, <1>6 DEF Outside

LEMMA VersionsAppear == Logs /\ [Next]_vars => NewVersions
<1> SUFFICES ASSUME Logs, [Next]_vars PROVE NewVersions OBVIOUS
<1>1. CASE UNCHANGED objects BY <1>1, NothingNew
<1>2. ASSUME NEW key \in Keys, SyncObject(key) PROVE NewVersions
  <2>1. \A k \in Keys : objects'[k] = IF k = key THEN Tail(objects[k]) ELSE objects[k]
    BY <1>2 DEF SyncObject, Logs
  <2> QED BY <2>1, TailVersions DEF NewVersions, Logs
<1>3. CASE Manager BY <1>1, <1>2, <1>3 DEF Manager, Restart, SyncOpen5GS, Start, StartGone
<1>4. CASE Owners BY <1>1, <1>4 DEF Owners, CreateOpen5GS, EditOpen5GS, DeleteOpen5GS
<1> QED BY <1>1, <1>3, <1>4, WorkerVersions, OutsideVersions
    DEF Next, RequestFails, LookUpFails, vars

-------------------------------------------------------------------------------
(***************************************************************************)
(* Types. An object is a record with all of the fields of a body; a pass   *)
(* is a record, too, and its plan is one of those of Open5GSPlanProofs.    *)
(***************************************************************************)
IsRecord(object) ==
  /\ object = [owner |-> object.owner, body |-> object.body]
  /\ object.owner \in UIDs \cup {Foreign} /\ IsBody(object.body)
RecordsSound == \A key \in Keys : \A object \in Range(objects[key]) \ {NoObject} : IsRecord(object)
IsPass ==
  worker \in [at : Nat, instance : Instances \cup {NoInstance}, uid : UIDs \cup {Foreign},
              version : Versions \cup {Nil}, monitors : BOOLEAN, doomed : SUBSET Keys]
Sound == TypeOK /\ RecordsSound /\ IsPass

LEMMA SoundLogs == Sound => Logs
BY DEF Sound, TypeOK, LogsType, Logs, IsLog

LEMMA PassHasPlan ==
  ASSUME Sound, InPass
  PROVE  /\ worker.instance \in Instances /\ IsPlan(plan, worker.instance)
         /\ Len(plan) \in Nat /\ DOMAIN plan = 1..Len(plan) /\ worker.at \in 1..(Len(plan) + 1)
<1>1. worker.instance \in Instances /\ worker.version \in Versions /\ worker.at \in 1..(Len(plan) + 1)
  BY DEF Sound, TypeOK, PassType
<1>2. IsPlan(plan, worker.instance) BY <1>1, PassPlan DEF plan, PlanOf
<1>3. PICK S : plan \in Seq(S) BY <1>2 DEF IsPlan, IsSequence
<1> QED BY <1>1, <1>2, <1>3

LEMMA CallFacts ==
  ASSUME Sound, InPass, worker.at \in DOMAIN plan
  PROVE  /\ SoundStep(step, worker.instance)
         /\ MayList(step) => DeletedFrom(plan, worker.at + 1)
         /\ AppliesDeployment(step) =>
              worker.at > 1 /\ Announces(plan[worker.at - 1], step, worker.instance)
BY PassHasPlan DEF IsPlan, step

LEMMA AppliedKeys ==
  ASSUME Sound, Applying
  PROVE  /\ InPass /\ worker.at \in DOMAIN plan /\ step.key \in Keys
         /\ OfInstance(step.key, worker.instance)
         /\ IsBody(step.body) /\ step.body.labels \in LabelsOf(worker.instance)
<1>1. InPass /\ worker.at \in DOMAIN plan /\ step.do \in Applies BY DEF Applying, Calling, Applies
<1>2. worker.at \in Desired(plan) BY <1>1 DEF Desired, step
<1>3. step.key \in DesiredKeys(plan) BY <1>2 DEF DesiredKeys, step
<1>4. worker.instance \in Instances /\ worker.version \in Versions
  BY <1>1 DEF Sound, TypeOK, PassType
<1>5. step.key \in Keys BY <1>3, <1>4 DEF Keys, plan
<1> QED BY <1>1, <1>5, CallFacts DEF SoundStep

\* What a step of a plan may list: by its labels, or because it is owned.
Listed(key) ==
  /\ key \in Keys /\ key.kind \in ListedKinds /\ Cached(objects[key]) # NoObject
  /\ \/ Cached(objects[key]).body.labels \in LabelsOf(worker.instance)
     \/ hasOwnerReference(Cached(objects[key]))

\* The pass goes on, and how: to the next call, with what was doomed before, nothing,
\* or what was listed; or to another deletion of the same call.
PassAt(at, monitors, doomed) ==
  worker' = [at |-> at, instance |-> worker.instance, uid |-> worker.uid,
             version |-> worker.version, monitors |-> monitors, doomed |-> doomed]
GoesOn ==
  /\ InPass /\ worker.at \in DOMAIN plan /\ UNCHANGED <<queue, cr>>
  /\ \E monitors \in BOOLEAN, doomed \in SUBSET Keys :
       \/ /\ PassAt(worker.at + 1, monitors, doomed)
          /\ \/ doomed = {}
             \/ doomed = worker.doomed /\ step.do # "deleteListed"
             \/ MayList(step) /\ \A key \in doomed : Listed(key)
       \/ /\ PassAt(worker.at, monitors, doomed) /\ doomed \subseteq worker.doomed
          /\ step.do = "deleteListed"
PassEnds == InPass /\ Requeue /\ UNCHANGED cr

LEMMA NextCallGoesOn ==
  ASSUME Sound, InPass, worker.at \in DOMAIN plan, Goto(NextCall), UNCHANGED cr,
         step.do # "deleteListed" \/ worker.doomed = {}
  PROVE  GoesOn
<1>1. worker.monitors \in BOOLEAN /\ worker.doomed \in SUBSET Keys BY DEF Sound, IsPass
<1>2. PassAt(worker.at + 1, worker.monitors, worker.doomed)
  BY DEF Goto, NextCall, PassAt, Sound, IsPass
<1> QED BY <1>1, <1>2 DEF GoesOn, Goto

LEMMA DoomGoesOn ==
  ASSUME Sound, InPass, worker.at \in DOMAIN plan, NEW keys \in SUBSET Keys, Goto(Doom(keys)),
         UNCHANGED cr, keys = {} \/ (MayList(step) /\ \A key \in keys : Listed(key))
  PROVE  GoesOn
<1>1. worker.monitors \in BOOLEAN BY DEF Sound, IsPass
<1>2. PassAt(worker.at + 1, worker.monitors, keys)
  BY DEF Goto, Doom, PassAt, Sound, IsPass
<1> QED BY <1>1, <1>2 DEF GoesOn, Goto

LEMMA FailMoves ==
  ASSUME Sound, InPass, worker.at \in DOMAIN plan, Fail, UNCHANGED cr
  PROVE  GoesOn \/ PassEnds
<1>1. CASE step.do = "applyIgnoringErrors" BY <1>1, NextCallGoesOn DEF Fail
<1>2. CASE step.do # "applyIgnoringErrors" BY <1>2 DEF Fail, PassEnds
<1> QED BY <1>1, <1>2

LEMMA MonitorsGoOn ==
  ASSUME Sound, InPass, worker.at \in DOMAIN plan, NEW monitors \in BOOLEAN, UNCHANGED cr,
         Goto([worker EXCEPT !.at = @ + 1, !.monitors = monitors]), step.do = "lookUpMonitors"
  PROVE  GoesOn
<1>1. worker.doomed \in SUBSET Keys BY DEF Sound, IsPass
<1>2. PassAt(worker.at + 1, monitors, worker.doomed)
  BY DEF Goto, PassAt, Sound, IsPass
<1> QED BY <1>1, <1>2 DEF GoesOn, Goto

LEMMA LabelledListed ==
  ASSUME Sound, InPass, worker.at \in DOMAIN plan, NEW kind \in ListedKinds,
         NEW labels \in LabelsOf(worker.instance), NEW key \in Labelled(labels, kind)
  PROVE  Listed(key)
BY DEF Labelled, Listed

LEMMA WorkerMoves == Sound /\ Worker => GoesOn \/ PassEnds
<1> SUFFICES ASSUME Sound, Worker PROVE GoesOn \/ PassEnds OBVIOUS
<1>0. ASSUME NEW do, Calling(do) PROVE InPass /\ worker.at \in DOMAIN plan /\ step.do = do
  BY <1>0 DEF Calling
<1>1. Applying => InPass /\ worker.at \in DOMAIN plan /\ step.do # "deleteListed"
  BY DEF Applying, Calling
<1>2. CASE Finish BY <1>2 DEF Finish, PassEnds
<1>3. CASE Create \/ LeaveForeign \/ LeaveEqual \/ Update
  BY <1>1, <1>3, NextCallGoesOn DEF Create, LeaveForeign, LeaveEqual, Update, Owned
<1>4. CASE AlreadyExists \/ UpdateRefused
  BY <1>1, <1>4, FailMoves DEF AlreadyExists, UpdateRefused, Owned
<1>5. CASE LookUpMonitorAPI
  <2>1. monitorCRD \in BOOLEAN BY DEF Sound, TypeOK
  <2> QED BY <1>0, <1>5, <2>1, MonitorsGoOn DEF LookUpMonitorAPI
<1>6. CASE MonitorsGone BY <1>0, <1>6, NextCallGoesOn DEF MonitorsGone
<1>7. CASE ListByLabel
  <2> DEFINE keys == IF Listable(step.key.kind)
                     THEN Labelled(step.body, step.key.kind) \ step.keep ELSE {}
  <2>1. InPass /\ worker.at \in DOMAIN plan /\ step.do = "list" /\ Goto(Doom(keys)) /\ UNCHANGED cr
    BY <1>0, <1>7 DEF ListByLabel
  <2>2. step.key.kind \in ListedKinds /\ step.body \in LabelsOf(worker.instance)
    BY <2>1, CallFacts DEF SoundStep, Lists
  <2>3. \A key \in keys : Listed(key) BY <2>1, <2>2, LabelledListed
  <2>4. keys \in SUBSET Keys BY DEF Labelled
  <2> HIDE DEF keys
  <2> QED BY <2>1, <2>3, <2>4, DoomGoesOn DEF MayList, Lists
<1>8. CASE ListUnwantedMonitors
  <2> DEFINE keys == IF monitorCRD THEN Labelled(step.body.labels, "ServiceMonitor") ELSE {}
  <2>1. InPass /\ worker.at \in DOMAIN plan /\ step.do = "applyMonitor" /\ Goto(Doom(keys)) /\ UNCHANGED cr
    BY <1>0, <1>8 DEF ListUnwantedMonitors
  <2>2. step.body.labels \in LabelsOf(worker.instance) /\ "ServiceMonitor" \in ListedKinds
    BY <2>1, CallFacts DEF SoundStep, Applies, ListedKinds
  <2>3. \A key \in keys : Listed(key) BY <2>1, <2>2, LabelledListed
  <2>4. keys \in SUBSET Keys BY DEF Labelled
  <2> HIDE DEF keys
  <2> QED BY <2>1, <2>3, <2>4, DoomGoesOn DEF MayList
<1>9. CASE ListOwnedByName
  <2> DEFINE keys == {key \in Keys : /\ HasPrefix(key, step.key)
                                     /\ Cached(objects[key]) # NoObject
                                     /\ hasOwnerReference(Cached(objects[key]))}
  <2>1. InPass /\ worker.at \in DOMAIN plan /\ step.do = "listOwned" /\ Goto(Doom(keys)) /\ UNCHANGED cr
    BY <1>0, <1>9 DEF ListOwnedByName
  <2>2. step.key.kind \in ListedKinds BY <2>1, CallFacts DEF SoundStep, Lists
  <2>3. \A key \in keys : Listed(key) BY <2>2 DEF Listed, HasPrefix
  <2>4. keys \in SUBSET Keys OBVIOUS
  <2> HIDE DEF keys
  <2> QED BY <2>1, <2>3, <2>4, DoomGoesOn DEF MayList, Lists
<1>10. CASE DeleteNextListed
  <2>1. InPass /\ worker.at \in DOMAIN plan /\ step.do = "deleteListed" /\ UNCHANGED cr
    BY <1>0, <1>10 DEF DeleteNextListed
  <2>2. PICK key \in worker.doomed : DeleteOne(key, [worker EXCEPT !.doomed = @ \ {key}])
    BY <1>10 DEF DeleteNextListed
  <2>3. CASE Goto([worker EXCEPT !.doomed = @ \ {key}])
    <3>1. PassAt(worker.at, worker.monitors, worker.doomed \ {key})
      BY <2>3 DEF Goto, PassAt, Sound, IsPass
    <3>2. worker.monitors \in BOOLEAN /\ worker.doomed \ {key} \in SUBSET Keys BY DEF Sound, IsPass
    <3> QED BY <2>1, <2>3, <3>1, <3>2 DEF GoesOn, Goto
  <2>4. CASE Requeue BY <2>1, <2>4 DEF PassEnds
  <2> QED BY <2>2, <2>3, <2>4 DEF DeleteOne
<1>11. CASE AllListedDeleted BY <1>0, <1>11, NextCallGoesOn DEF AllListedDeleted
<1>12. CASE DeleteByName
  <2>1. InPass /\ worker.at \in DOMAIN plan /\ step.do = "delete" /\ UNCHANGED cr
    BY <1>0, <1>12 DEF DeleteByName
  <2>2. Goto(NextCall) \/ Requeue BY <1>12 DEF DeleteByName, DeleteOne
  <2> QED BY <2>1, <2>2, NextCallGoesOn DEF PassEnds
<1> QED BY <1>2, <1>3, <1>4, <1>5, <1>6, <1>7, <1>8, <1>9, <1>10, <1>11, <1>12 DEF Worker

LEMMA FailuresMove == Sound /\ (RequestFails \/ LookUpFails) => GoesOn \/ PassEnds
<1> SUFFICES ASSUME Sound, RequestFails \/ LookUpFails PROVE GoesOn \/ PassEnds OBVIOUS
<1>1. CASE RequestFails
  <2>1. CASE worker.at \in DOMAIN plan BY <1>1, <2>1, FailMoves DEF RequestFails
  <2>2. CASE worker.at \notin DOMAIN plan BY <1>1, <2>2 DEF RequestFails, PassEnds
  <2> QED BY <2>1, <2>2
<1>2. CASE LookUpFails
  <2>1. InPass /\ worker.at \in DOMAIN plan /\ UNCHANGED cr BY <1>2 DEF LookUpFails, Calling
  <2>2. CASE step.do = "lookUpMonitors" /\ Goto([worker EXCEPT !.at = @ + 1, !.monitors = FALSE])
    <3>1. FALSE \in BOOLEAN OBVIOUS
    <3> QED BY <2>1, <2>2, <3>1, MonitorsGoOn
  <2>3. CASE Goto(Doom({}))
    <3>1. {} \in SUBSET Keys OBVIOUS
    <3> QED BY <2>1, <2>3, <3>1, DoomGoesOn
  <2> QED BY <1>2, <2>2, <2>3 DEF LookUpFails, Calling
<1> QED BY <1>1, <1>2

-------------------------------------------------------------------------------
LEMMA RecordsStay ==
  ASSUME Sound, NewVersions, Logs'
  PROVE  /\ RecordsSound' /\ DOMAIN objects' = Keys
         /\ \A key \in Keys : /\ objects'[key] \in Seq(Range(objects'[key])) \ {<<>>}
                              /\ \A n \in DOMAIN objects'[key] :
                                   objects'[key][n] # NoObject => IsObject(objects'[key][n])
<1>1. ASSUME NEW key \in Keys, NEW object \in Range(objects'[key]) \ {NoObject}
      PROVE  IsRecord(object)
  <2>1. CASE object \in Range(objects[key]) BY <1>1, <2>1 DEF Sound, RecordsSound
  <2>2. CASE AppliedVersion(key, object)
    <3>1. Applying /\ key = step.key BY <2>2 DEF AppliedVersion
    <3>2. InPass /\ IsBody(step.body) BY <3>1, AppliedKeys
    <3>3. worker.uid \in UIDs BY <3>2 DEF Sound, TypeOK, PassType
    <3>4. CASE object = [owner |-> worker.uid, body |-> step.body]
      BY <3>2, <3>3, <3>4 DEF IsRecord
    <3>5. ASSUME NEW before \in Range(objects[key]) \ {NoObject}, before.owner = worker.uid,
                 object = [owner |-> before.owner,
                           body |-> Updated(key, worker.instance, before.body, step.body)]
          PROVE  IsRecord(object)
      <4>1. IsBody(before.body) BY <3>5 DEF Sound, RecordsSound, IsRecord
      <4>2. DOMAIN before.body = Fields BY <4>1 DEF IsBody
      <4>3. IsBody(object.body) BY <3>5, <4>2 DEF IsBody, Updated
      <4> QED BY <3>3, <3>5, <4>3 DEF IsRecord
    <3> QED BY <2>2, <3>4, <3>5 DEF AppliedVersion
  <2>3. CASE OutsideVersion(key, object)
    <3>1. ASSUME NEW before \in Range(objects[key]) \ {NoObject}, NEW field \in DriftFields,
                 object = [before EXCEPT !.body[field] = Changed]
          PROVE  IsRecord(object)
      <4>1. IsRecord(before) BY <3>1 DEF Sound, RecordsSound
      <4>2. object = [owner |-> before.owner, body |-> [before.body EXCEPT ![field] = Changed]]
        BY <3>1, <4>1 DEF IsRecord
      <4>3. IsBody([before.body EXCEPT ![field] = Changed]) BY <4>1 DEF IsRecord, IsBody
      <4> QED BY <4>1, <4>2, <4>3 DEF IsRecord
    <3>2. ASSUME NEW i \in Instances, NEW c \in Functions5G,
                 object = [owner |-> Foreign, body |-> ForeignBody(i, c)]
          PROVE  IsRecord(object)
      <4>1. IsBody(ForeignBody(i, c)) BY DEF ForeignBody, Body, IsBody, Fields
      <4> QED BY <3>2, <4>1 DEF IsRecord
    <3> QED BY <2>3, <3>1, <3>2 DEF OutsideVersion
  <2> QED BY <1>1, <2>1, <2>2, <2>3 DEF NewVersions
<1>2. RecordsSound' BY <1>1 DEF RecordsSound
<1>3. ASSUME NEW key \in Keys
      PROVE  /\ objects'[key] \in Seq(Range(objects'[key])) \ {<<>>}
             /\ \A n \in DOMAIN objects'[key] :
                  objects'[key][n] # NoObject => IsObject(objects'[key][n])
  <2>1. IsLog(objects'[key]) BY DEF Logs
  <2>2. objects'[key] \in Seq(Range(objects'[key])) \ {<<>>} BY <2>1, LogVersions DEF IsLog
  <2>3. \A n \in DOMAIN objects'[key] : objects'[key][n] \in Range(objects'[key]) BY DEF Range
  <2>4. \A object : IsRecord(object) => IsObject(object) BY DEF IsRecord, IsObject, IsBody, Fields
  <2> QED BY <1>1, <2>2, <2>3, <2>4
<1> QED BY <1>2, <1>3 DEF Logs

CRsSound == cr \in [Instances -> Seq(CR \cup {NoObject})] /\ \A i \in Instances : cr[i] # <<>>

LEMMA CRsAreLogs ==
  ASSUME CRsSound, NEW i \in Instances
  PROVE  IsLog(cr[i]) /\ Range(cr[i]) \subseteq CR \cup {NoObject}
<1>1. cr[i] \in Seq(CR \cup {NoObject}) BY DEF CRsSound
<1>2. DOMAIN cr[i] = 1..Len(cr[i]) /\ \A n \in 1..Len(cr[i]) : cr[i][n] \in CR \cup {NoObject} BY <1>1
<1>3. cr[i] # <<>> BY DEF CRsSound
<1> QED BY <1>1, <1>2, <1>3 DEF IsLog, Range

LEMMA WriteCRSound ==
  ASSUME CRsSound, NEW i \in Instances, NEW object \in CR \cup {NoObject}, WriteCR(i, object)
  PROVE  CRsSound'
<1>1. cr' = [cr EXCEPT ![i] = Append(cr[i], object)] BY DEF WriteCR
<1>2. cr[i] \in Seq(CR \cup {NoObject}) BY DEF CRsSound
<1>3. Append(cr[i], object) \in Seq(CR \cup {NoObject}) BY <1>2
<1>4. Append(cr[i], object) # <<>> BY <1>2, AppendedLog DEF IsLog
<1> QED BY <1>1, <1>3, <1>4 DEF CRsSound

LEMMA Spending ==
  ASSUME NEW event \in Events, Spend(event), used \in [Events -> Nat]
  PROVE  used' \in [Events -> Nat] /\ used[event] < Bound[event] /\ used'[event] = used[event] + 1
<1>1. used' = [used EXCEPT ![event] = used[event] + 1] /\ used[event] < Bound[event] BY DEF Spend
<1>2. used[event] \in Nat OBVIOUS
<1> QED BY <1>1, <1>2

LEMMA CreatedUID ==
  ASSUME Sound, Spend("create")
  PROVE  used["create"] + 1 \in UIDs
<1>1. "create" \in Events /\ used \in [Events -> Nat] BY DEF Events, Sound, TypeOK
<1>2. used["create"] \in Nat /\ Bound["create"] \in Nat BY <1>1, ControllerAssumption
<1>3. used["create"] < Bound["create"] BY <1>1, Spending
<1> QED BY <1>2, <1>3 DEF UIDs

LEMMA CRsStay == Sound /\ [Next]_vars => CRsSound'
<1> SUFFICES ASSUME Sound, [Next]_vars PROVE CRsSound' OBVIOUS
<1>1. CRsSound BY DEF Sound, TypeOK, LogsType, CRsSound
<1>2. CASE UNCHANGED cr BY <1>1, <1>2 DEF CRsSound
<1>3. ASSUME NEW i \in Instances, NEW v \in Versions, CreateOpen5GS(i, v) PROVE CRsSound'
  <2>1. [uid |-> used["create"] + 1, version |-> v] \in CR
    BY <1>3, CreatedUID DEF CreateOpen5GS, CR
  <2> QED BY <1>1, <1>3, <2>1, WriteCRSound DEF CreateOpen5GS
<1>4. ASSUME NEW i \in Instances, NEW v \in Versions, EditOpen5GS(i, v) PROVE CRsSound'
  <2>1. Current(cr[i]) \in CR
    BY <1>1, <1>4, CRsAreLogs, LogVersions DEF EditOpen5GS, Exists
  <2>2. [uid |-> Current(cr[i]).uid, version |-> v] \in CR BY <2>1 DEF CR
  <2> QED BY <1>1, <1>4, <2>2, WriteCRSound DEF EditOpen5GS
<1>5. ASSUME NEW i \in Instances, DeleteOpen5GS(i) PROVE CRsSound'
  BY <1>1, <1>5, WriteCRSound DEF DeleteOpen5GS
<1>6. ASSUME NEW i \in Instances, SyncOpen5GS(i) PROVE CRsSound'
  <2>1. IsLog(cr[i]) /\ ~Fresh(cr[i]) BY <1>1, <1>6, CRsAreLogs DEF SyncOpen5GS
  <2>2. Tail(cr[i]) # <<>> BY <2>1, TailLog DEF IsLog
  <2>3. cr[i] \in Seq(CR \cup {NoObject}) /\ cr[i] # <<>> BY <1>1 DEF CRsSound
  <2>4. Tail(cr[i]) \in Seq(CR \cup {NoObject}) BY <2>3
  <2>5. cr' = [cr EXCEPT ![i] = Tail(cr[i])] BY <1>6 DEF SyncOpen5GS
  <2> QED BY <1>1, <2>2, <2>4, <2>5 DEF CRsSound
<1>7. CASE Owners BY <1>3, <1>4, <1>5, <1>7 DEF Owners
<1>8. CASE Manager
  BY <1>2, <1>6, <1>8 DEF Manager, Restart, Start, StartGone, SyncObject
<1>9. CASE Worker \/ RequestFails \/ LookUpFails
  BY <1>2, <1>9, WorkerMoves, FailuresMove DEF GoesOn, PassEnds
<1>10. CASE Outside
  BY <1>2, <1>10
  DEF Outside, CollectGarbage, ExternalDelete, Drift, CreateForeign, InstallMonitorCRD, UninstallMonitorCRD
<1> QED BY <1>2, <1>7, <1>8, <1>9, <1>10 DEF Next, vars

PassSound == PassType /\ ListedIsDeleted /\ IsPass

LEMMA PassUnchanged ==
  ASSUME PassSound, UNCHANGED worker, queue' \subseteq Instances
  PROVE  PassSound'
BY DEF PassSound, PassType, ListedIsDeleted, IsPass, InPass, plan

LEMMA IdleSound ==
  ASSUME worker' = Idle, queue' \subseteq Instances
  PROVE  PassSound'
<1>1. /\ worker'.at = 0 /\ worker'.doomed = {} /\ worker'.monitors = FALSE
      /\ worker' \in [at : Nat, instance : Instances \cup {NoInstance}, uid : UIDs \cup {Foreign},
                      version : Versions \cup {Nil}, monitors : BOOLEAN, doomed : SUBSET Keys]
  BY DEF Idle
<1> QED BY <1>1 DEF PassSound, PassType, ListedIsDeleted, IsPass, InPass

LEMMA StartSound ==
  ASSUME Sound, NEW i \in Instances, Start(i)
  PROVE  PassSound'
<1>1. CRsSound BY DEF Sound, TypeOK, LogsType, CRsSound
<1>2. Cached(cr[i]) \in CR BY <1>1, CRsAreLogs, LogVersions DEF Start
<1>3. PICK u \in UIDs, v \in Versions : Cached(cr[i]).uid = u /\ Cached(cr[i]).version = v
  BY <1>2 DEF CR
<1>4. worker' = [at |-> 1, instance |-> i, uid |-> u, version |-> v, monitors |-> FALSE, doomed |-> {}]
  BY <1>3 DEF Start
<1>5. plan' = PlanOf[i][v] BY <1>4 DEF plan
<1>6. IsPlan(PlanOf[i][v], i) BY PassPlan DEF PlanOf
<1>7. Len(PlanOf[i][v]) \in Nat
  <2>1. PICK S : PlanOf[i][v] \in Seq(S) BY <1>6 DEF IsPlan, IsSequence
  <2> QED BY <2>1
<1>8. 1 \in 1..(Len(plan') + 1) BY <1>5, <1>7
<1>9. queue' \subseteq Instances BY DEF Start, Sound, TypeOK, PassType
<1>10. PassType' BY <1>4, <1>8, <1>9 DEF PassType, InPass
<1>11. IsPass' BY <1>4 DEF IsPass
<1> QED BY <1>4, <1>10, <1>11 DEF PassSound, ListedIsDeleted

LEMMA GoesOnSound ==
  ASSUME Sound, GoesOn
  PROVE  PassSound'
<1>1. PICK monitors \in BOOLEAN, doomed \in SUBSET Keys :
        \/ /\ PassAt(worker.at + 1, monitors, doomed)
           /\ \/ doomed = {}
              \/ doomed = worker.doomed /\ step.do # "deleteListed"
              \/ MayList(step) /\ \A key \in doomed : Listed(key)
        \/ /\ PassAt(worker.at, monitors, doomed) /\ doomed \subseteq worker.doomed
           /\ step.do = "deleteListed"
  BY DEF GoesOn
<1>2. PICK at \in {worker.at, worker.at + 1} : PassAt(at, monitors, doomed) BY <1>1
<1>3. worker.at \in 1..Len(plan) /\ Len(plan) \in Nat /\ DOMAIN plan = 1..Len(plan)
  BY PassHasPlan DEF GoesOn
<1>4. at \in 1..(Len(plan) + 1) /\ at \in Nat BY <1>3
<1>5. plan' = plan BY <1>2 DEF plan, PassAt
<1>6. /\ worker.instance \in Instances /\ worker.version \in Versions /\ worker.uid \in UIDs
      /\ worker.version \in Versions \cup {Nil}
  BY DEF Sound, TypeOK, PassType, GoesOn
<1>7. queue' \subseteq Instances BY DEF GoesOn, Sound, TypeOK, PassType
<1>8. PassType' BY <1>2, <1>4, <1>5, <1>6, <1>7 DEF PassType, PassAt, InPass
<1>9. IsPass' BY <1>2, <1>4, <1>6 DEF IsPass, PassAt
<1>10. ListedIsDeleted'
  <2> SUFFICES ASSUME doomed # {}
               PROVE  \E n \in worker'.at..Len(plan) :
                        /\ plan[n].do = "deleteListed"
                        /\ \A m \in worker'.at..n : plan[m].do \notin {"list", "listOwned"}
    BY <1>2, <1>5 DEF ListedIsDeleted, PassAt
  <2>1. ASSUME worker.doomed # {}, at = worker.at + 1 => step.do # "deleteListed"
        PROVE  \E n \in at..Len(plan) : /\ plan[n].do = "deleteListed"
                                        /\ \A m \in at..n : plan[m].do \notin {"list", "listOwned"}
    <3>1. PICK n \in worker.at..Len(plan) :
            /\ plan[n].do = "deleteListed"
            /\ \A m \in worker.at..n : plan[m].do \notin {"list", "listOwned"}
      BY <2>1 DEF Sound, TypeOK, ListedIsDeleted
    <3>2. at = worker.at + 1 => n # worker.at BY <2>1, <3>1 DEF step
    <3>3. n \in at..Len(plan) BY <1>3, <1>4, <3>1, <3>2
    <3>4. \A m \in at..n : m \in worker.at..n BY <1>3, <1>4
    <3> QED BY <3>1, <3>3, <3>4
  <2>2. worker'.at = at BY <1>2 DEF PassAt
  <2>3. CASE at = worker.at + 1 /\ MayList(step)
    <3>1. DeletedFrom(plan, at) BY <2>3, CallFacts DEF GoesOn
    <3> QED BY <2>2, <3>1 DEF DeletedFrom, Lists
  <2>4. CASE doomed = worker.doomed /\ step.do # "deleteListed" BY <2>1, <2>2, <2>4
  <2>5. CASE at = worker.at /\ doomed \subseteq worker.doomed
    <3>1. at # worker.at + 1 BY <1>3, <2>5
    <3> QED BY <2>1, <2>2, <2>5, <3>1
  <2>6. PassAt(worker.at + 1, monitors, doomed) => at = worker.at + 1 BY <1>2 DEF PassAt
  <2>7. PassAt(worker.at, monitors, doomed) => at = worker.at BY <1>2 DEF PassAt
  <2> QED BY <1>1, <2>3, <2>4, <2>5, <2>6, <2>7
<1> QED BY <1>8, <1>9, <1>10 DEF PassSound

LEMMA PassesStay == Sound /\ [Next]_vars => PassSound'
<1> SUFFICES ASSUME Sound, [Next]_vars PROVE PassSound' OBVIOUS
<1>1. PassSound /\ queue \subseteq Instances BY DEF Sound, TypeOK, PassType, PassSound
<1>2. CASE UNCHANGED <<worker, queue>> BY <1>1, <1>2, PassUnchanged
<1>3. ASSUME NEW i \in Instances, SyncOpen5GS(i) \/ StartGone(i) PROVE PassSound'
  BY <1>1, <1>3, PassUnchanged DEF SyncOpen5GS, StartGone
<1>4. CASE Restart BY <1>4, IdleSound DEF Restart
<1>5. CASE Manager
  BY <1>2, <1>3, <1>4, <1>5, StartSound DEF Manager, SyncObject
<1>6. CASE PassEnds
  <2>1. worker.instance \in Instances BY <1>6, PassHasPlan DEF PassEnds
  <2> QED BY <1>1, <1>6, <2>1, IdleSound DEF PassEnds, Requeue
<1>7. CASE Worker \/ RequestFails \/ LookUpFails
  BY <1>6, <1>7, WorkerMoves, FailuresMove, GoesOnSound
<1>8. CASE Owners \/ Outside
  BY <1>2, <1>8
  DEF Owners, CreateOpen5GS, EditOpen5GS, DeleteOpen5GS, Outside, CollectGarbage, ExternalDelete,
      Drift, CreateForeign, InstallMonitorCRD, UninstallMonitorCRD
<1> QED BY <1>2, <1>5, <1>7, <1>8 DEF Next, vars

LEMMA CountersStay ==
  Sound /\ [Next]_vars => monitorCRD' \in BOOLEAN /\ used' \in [Events -> Nat]
<1> SUFFICES ASSUME Sound, [Next]_vars
             PROVE  monitorCRD' \in BOOLEAN /\ used' \in [Events -> Nat]
  OBVIOUS
<1>1. monitorCRD \in BOOLEAN /\ used \in [Events -> Nat] BY DEF Sound, TypeOK
<1>2. \A event \in Events : Spend(event) => used' \in [Events -> Nat] BY <1>1, Spending
<1>3. \A event : event \in {"create", "edit", "delete", "tamper", "crd", "fault", "crash"} => event \in Events
  BY DEF Events
<1>4. CASE Owners
  BY <1>1, <1>2, <1>3, <1>4 DEF Owners, CreateOpen5GS, EditOpen5GS, DeleteOpen5GS
<1>5. CASE Manager
  BY <1>1, <1>2, <1>3, <1>5 DEF Manager, Restart, SyncOpen5GS, Start, StartGone, SyncObject
<1>6. CASE Worker
  BY <1>1, <1>6
  DEF Worker, Finish, Create, AlreadyExists, LeaveForeign, LeaveEqual, Update, UpdateRefused,
      LookUpMonitorAPI, MonitorsGone, ListByLabel, ListUnwantedMonitors, ListOwnedByName,
      DeleteNextListed, AllListedDeleted, DeleteByName
<1>7. CASE RequestFails \/ LookUpFails
  BY <1>1, <1>2, <1>3, <1>7 DEF RequestFails, LookUpFails
<1>8. CASE Outside
  BY <1>1, <1>2, <1>3, <1>8
  DEF Outside, CollectGarbage, ExternalDelete, Drift, CreateForeign, InstallMonitorCRD, UninstallMonitorCRD
<1> QED BY <1>1, <1>4, <1>5, <1>6, <1>7, <1>8 DEF Next, vars

LEMMA InitSound == Init => Sound
<1> SUFFICES ASSUME Init PROVE Sound OBVIOUS
<1>1. \A key \in Keys : objects[key] = <<NoObject>> BY DEF Init
<1>2. DOMAIN objects = Keys BY DEF Init
<1>3. RecordsSound BY <1>1, SingletonVersions DEF RecordsSound
<1>4. /\ <<NoObject>> \in Seq(Range(<<NoObject>>)) \ {<<>>}
      /\ DOMAIN <<NoObject>> = {1} /\ <<NoObject>>[1] = NoObject
  <2>1. IsLog(<<NoObject>>) BY SingletonLog
  <2>2. <<NoObject>> # <<>> /\ <<NoObject>> \in Seq(Range(<<NoObject>>)) BY <2>1, LogVersions DEF IsLog
  <2>3. DOMAIN <<NoObject>> = {1} /\ <<NoObject>>[1] = NoObject OBVIOUS
  <2> QED BY <2>2, <2>3
<1>5. <<NoObject>> \in Seq(CR \cup {NoObject}) /\ <<NoObject>> # <<>> OBVIOUS
<1>6. LogsType BY <1>1, <1>2, <1>4, <1>5 DEF LogsType, Init
<1>7. /\ worker \in [at : Nat, instance : Instances \cup {NoInstance}, uid : UIDs \cup {Foreign},
                     version : Versions \cup {Nil}, monitors : BOOLEAN, doomed : SUBSET Keys]
      /\ worker.at = 0 /\ worker.doomed = {} /\ worker.monitors = FALSE
  BY DEF Init, Idle
<1>8. PassType /\ ListedIsDeleted /\ IsPass
  BY <1>7 DEF Init, PassType, ListedIsDeleted, IsPass, InPass
<1>9. monitorCRD \in BOOLEAN /\ used \in [Events -> Nat] BY ControllerAssumption DEF Init
<1> QED BY <1>3, <1>6, <1>8, <1>9 DEF Sound, TypeOK

LEMMA SoundStays == Sound /\ [Next]_vars => Sound'
<1> SUFFICES ASSUME Sound, [Next]_vars PROVE Sound' OBVIOUS
<1>1. Logs' BY SoundLogs, LogsStay
<1>2. NewVersions BY SoundLogs, VersionsAppear
<1>3. CRsSound' /\ PassSound' BY CRsStay, PassesStay
<1>4. LogsType' BY <1>1, <1>2, <1>3, RecordsStay DEF LogsType, CRsSound
<1>5. RecordsSound' BY <1>1, <1>2, RecordsStay
<1> QED BY <1>3, <1>4, <1>5, CountersStay DEF Sound, TypeOK, PassSound

LEMMA AlwaysSound == Spec => []Sound
BY InitSound, SoundStays, PTL DEF Spec

(***************************************************************************)
(* The state always has its types, and what a pass has listed it deletes   *)
(* before it lists anything else, whatever the specs.                      *)
(***************************************************************************)
THEOREM ControllerTypeCorrect == Spec => []TypeOK
<1>1. Sound => TypeOK BY DEF Sound
<1> QED BY <1>1, AlwaysSound, PTL

-------------------------------------------------------------------------------
(* The steps of the worker. *)

LEMMA NextMoves ==
  ASSUME Sound, [Next]_vars
  PROVE  \/ UNCHANGED worker
         \/ UNCHANGED <<cr, used>> /\ \E i \in Instances : Start(i)
         \/ UNCHANGED cr /\ worker' = Idle
         \/ UNCHANGED cr /\ GoesOn
<1>1. CASE Manager
  BY <1>1 DEF Manager, Restart, SyncOpen5GS, Start, StartGone, SyncObject
<1>2. CASE Worker \/ RequestFails \/ LookUpFails
  BY <1>2, WorkerMoves, FailuresMove DEF GoesOn, PassEnds, Requeue
<1>3. CASE Owners BY <1>3 DEF Owners, CreateOpen5GS, EditOpen5GS, DeleteOpen5GS
<1>4. CASE Outside
  BY <1>4
  DEF Outside, CollectGarbage, ExternalDelete, Drift, CreateForeign, InstallMonitorCRD, UninstallMonitorCRD
<1> QED BY <1>1, <1>2, <1>3, <1>4 DEF Next, vars

(***************************************************************************)
(* How a pass changes an object that exists: it updates one that it owns,  *)
(* or it deletes one that it has listed, or one that its cache shows to be *)
(* owned.                                                                  *)
(***************************************************************************)
DeletedByName(key) ==
  /\ InPass /\ worker.at \in DOMAIN plan /\ step.do = "delete" /\ key = step.key
  /\ Cached(objects[key]) # NoObject /\ hasOwnerReference(Cached(objects[key]))

LEMMA WorkerWrites ==
  ASSUME Sound, [Next]_vars, NEW key \in Keys, ByWorker(key), Current(objects[key]) # NoObject
  PROVE  /\ InPass
         /\ \/ Current(objects[key]).owner = worker.uid
            \/ key \in worker.doomed
            \/ DeletedByName(key)
<1>1. Logs BY SoundLogs
<1>2. objects' # objects /\ worker' # worker BY DEF ByWorker
<1>3. Worker
  <2>1. ~Owners BY <1>2 DEF Owners, CreateOpen5GS, EditOpen5GS, DeleteOpen5GS
  <2>2. ~Manager BY <1>2 DEF Manager, Restart, SyncOpen5GS, Start, StartGone, SyncObject
  <2>3. ~RequestFails /\ ~LookUpFails BY <1>2 DEF RequestFails, LookUpFails
  <2>4. ~Outside
    BY <1>2
    DEF Outside, CollectGarbage, ExternalDelete, Drift, CreateForeign, InstallMonitorCRD, UninstallMonitorCRD
  <2> QED BY <1>2, <2>1, <2>2, <2>3, <2>4 DEF Next, vars
<1>4. InPass
  BY <1>2, <1>3
  DEF Worker, Finish, Create, AlreadyExists, LeaveForeign, LeaveEqual, Update, UpdateRefused,
      LookUpMonitorAPI, MonitorsGone, ListByLabel, ListUnwantedMonitors, ListOwnedByName,
      DeleteNextListed, AllListedDeleted, DeleteByName, Applying, Owned, Calling
<1>5. CASE Create
  <2>1. key = step.key
    BY <1>1, <1>5, WriteFacts DEF Create, ByWorker
  <2> QED BY <1>5, <2>1 DEF Create, current
<1>6. CASE Update
  <2>1. key = step.key /\ found.owner = worker.uid /\ Fresh(objects[key])
    BY <1>1, <1>6, WriteFacts DEF Update, Owned, hasOwnerReference, Accepted, ByWorker
  <2>2. found = Current(objects[key]) BY <1>1, <2>1, FreshLog DEF Logs, found
  <2> QED BY <1>4, <2>1, <2>2
<1>7. ASSUME NEW k, NEW next, DeleteOne(k, next) PROVE key = k
  <2>1. Write(k, NoObject) BY <1>2, <1>7 DEF DeleteOne
  <2> QED BY <1>1, <2>1, WriteFacts DEF ByWorker
<1>8. CASE DeleteNextListed BY <1>4, <1>7, <1>8 DEF DeleteNextListed
<1>9. CASE DeleteByName
  <2>1. Deletable /\ DeleteOne(step.key, NextCall) BY <1>2, <1>9 DEF DeleteByName
  <2>2. key = step.key BY <1>7, <2>1
  <2> QED BY <1>9, <2>1, <2>2 DEF DeleteByName, Calling, Deletable, DeletedByName, found
<1> QED BY <1>2, <1>3, <1>5, <1>6, <1>8, <1>9
    DEF Worker, Finish, AlreadyExists, LeaveForeign, LeaveEqual, UpdateRefused, LookUpMonitorAPI,
        MonitorsGone, ListByLabel, ListUnwantedMonitors, ListOwnedByName, AllListedDeleted

-------------------------------------------------------------------------------
(* Somebody else's objects. *)

DoomedKinds == \A key \in worker.doomed : key.kind \in PickedByLabel

LEMMA DoomedKindsStay == Sound /\ DoomedKinds /\ [Next]_vars => DoomedKinds'
<1> SUFFICES ASSUME Sound, DoomedKinds, [Next]_vars PROVE DoomedKinds' OBVIOUS
<1>1. CASE UNCHANGED worker BY <1>1 DEF DoomedKinds
<1>2. CASE worker' = Idle \/ \E i \in Instances : Start(i) BY <1>2 DEF DoomedKinds, Idle, Start
<1>3. CASE GoesOn
  <2>1. \A key : Listed(key) => key.kind \in PickedByLabel BY DEF Listed, ListedKinds, PickedByLabel
  <2> QED BY <1>3, <2>1 DEF GoesOn, PassAt, DoomedKinds
<1> QED BY <1>1, <1>2, <1>3, NextMoves

(***************************************************************************)
(* What a pass does not own it neither changes nor deletes, unless its     *)
(* cache shows an older object or the kind is picked by its labels.        *)
(***************************************************************************)
THEOREM ForeignObjectsSpared == Spec => ForeignSpared
<1> DEFINE Spared == \A key \in Keys :
             ByWorker(key) /\ Current(objects[key]) # NoObject /\ Fresh(objects[key])
                           /\ key.kind \notin PickedByLabel
               => Current(objects[key]).owner = worker.uid
<1>1. Init => DoomedKinds BY DEF Init, Idle, DoomedKinds
<1>2. Sound /\ DoomedKinds /\ [Next]_vars => Spared
  <2> SUFFICES ASSUME Sound, DoomedKinds, [Next]_vars, NEW key \in Keys, ByWorker(key),
                      Current(objects[key]) # NoObject, Fresh(objects[key]),
                      key.kind \notin PickedByLabel
               PROVE  Current(objects[key]).owner = worker.uid
    OBVIOUS
  <2>1. key \notin worker.doomed BY DEF DoomedKinds
  <2>2. Cached(objects[key]) = Current(objects[key]) BY SoundLogs, FreshLog DEF Logs
  <2> QED BY <2>1, <2>2, WorkerWrites DEF DeletedByName, hasOwnerReference
<1> QED BY <1>1, <1>2, AlwaysSound, DoomedKindsStay, PTL DEF Spec, ForeignSpared

-------------------------------------------------------------------------------
(***************************************************************************)
(* The objects of other instances. A UID is known to belong to an instance *)
(* as long as a cache still shows a resource that has it, or a pass works  *)
(* for it: Claim says that every object with this owner has a name of that *)
(* instance, that no object with such a name has a later owner, and that   *)
(* the pass, if it is for that instance, works for no later resource.      *)
(***************************************************************************)
VersionsOf(log) == Range(log) \ {NoObject}
UidsOf(log) == {version.uid : version \in VersionsOf(log)}

Belongs(uid, i) ==
  \A key \in Keys : \A object \in VersionsOf(objects[key]) :
    /\ object.owner = uid => OfInstance(key, i)
    /\ OfInstance(key, i) => object.owner <= uid
Claim(uid, i) ==
  /\ Belongs(uid, i)
  /\ InPass => /\ worker.uid = uid => worker.instance = i
               /\ worker.instance = i => worker.uid <= uid

UidsCounted ==
  /\ \A i \in Instances : \A uid \in UidsOf(cr[i]) : uid \in UIDs /\ uid <= used["create"]
  /\ \A key \in Keys : \A object \in VersionsOf(objects[key]) : object.owner <= used["create"]
  /\ InPass => worker.uid <= used["create"]
UidsApart ==
  \A i, j \in Instances : i # j => UidsOf(cr[i]) \cap UidsOf(cr[j]) = {}
UidsGrow ==
  \A i \in Instances : \A m, n \in 1..Len(cr[i]) :
    m <= n /\ cr[i][m] # NoObject /\ cr[i][n] # NoObject => cr[i][m].uid <= cr[i][n].uid
Claimed ==
  /\ \A i \in Instances : \A uid \in UidsOf(cr[i]) : Claim(uid, i)
  /\ InPass => Claim(worker.uid, worker.instance)
OwnersSound == UidsCounted /\ UidsApart /\ UidsGrow /\ Claimed

LEMMA InstancesAreSequences ==
  \A i \in Instances : i \in Seq(STRING)
BY ControllerAssumption

LEMMA KeyOfOneInstance ==
  ASSUME NEW key, NEW i \in Instances, NEW j \in Instances, OfInstance(key, i), OfInstance(key, j)
  PROVE  i = j
BY InstancesAreSequences, NamesApart

LEMMA SoundFacts ==
  ASSUME Sound
  PROVE  /\ used["create"] \in Nat /\ CRsSound
         /\ \A i \in Instances : \A uid \in UidsOf(cr[i]) : uid \in Nat /\ uid > 0
         /\ \A key \in Keys : \A object \in VersionsOf(objects[key]) : object.owner \in Nat
         /\ InPass => worker.uid \in Nat /\ worker.uid > 0 /\ worker.instance \in Instances
<1>1. used["create"] \in Nat BY DEF Sound, TypeOK, Events
<1>2. CRsSound BY DEF Sound, TypeOK, LogsType, CRsSound
<1>3. \A uid \in UIDs : uid \in Nat /\ uid > 0
  <2>1. "create" \in Events BY DEF Events
  <2>2. Bound["create"] \in Nat BY <2>1, ControllerAssumption
  <2> QED BY <2>2 DEF UIDs
<1>4. \A i \in Instances : \A uid \in UidsOf(cr[i]) : uid \in UIDs
  BY <1>2, CRsAreLogs DEF UidsOf, VersionsOf, CR
<1>5. \A key \in Keys : \A object \in VersionsOf(objects[key]) : object.owner \in UIDs \cup {0}
  BY DEF Sound, RecordsSound, VersionsOf, IsRecord, Foreign
<1>6. InPass => worker.uid \in UIDs /\ worker.instance \in Instances
  BY DEF Sound, TypeOK, PassType
<1> QED BY <1>1, <1>2, <1>3, <1>4, <1>5, <1>6

LEMMA UidFacts ==
  ASSUME Sound, NEW i \in Instances
  PROVE  /\ Exists(i) => Current(cr[i]).uid \in UidsOf(cr[i])
         /\ Cached(cr[i]) # NoObject => Cached(cr[i]).uid \in UidsOf(cr[i])
BY SoundFacts, CRsAreLogs, LogVersions DEF Exists, UidsOf, VersionsOf

\* A new version of an object has the owner of an older one, none, or the resource of the
\* pass, and then a name of its instance.
LEMMA NewOwners ==
  ASSUME Sound, [Next]_vars, NEW key \in Keys, NEW object \in VersionsOf(objects'[key])
  PROVE  \/ \E before \in VersionsOf(objects[key]) : object.owner = before.owner
         \/ object.owner = 0
         \/ InPass /\ object.owner = worker.uid /\ OfInstance(key, worker.instance)
<1>1. NewVersions BY SoundLogs, VersionsAppear
<1>2. CASE object \in Range(objects[key]) BY <1>2 DEF VersionsOf
<1>3. CASE AppliedVersion(key, object)
  <2>1. InPass /\ OfInstance(key, worker.instance) BY <1>3, AppliedKeys DEF AppliedVersion
  <2>2. object.owner = worker.uid BY <1>3 DEF AppliedVersion
  <2> QED BY <2>1, <2>2
<1>4. CASE OutsideVersion(key, object)
  <2>1. ASSUME NEW before \in Range(objects[key]) \ {NoObject}, NEW field \in DriftFields,
               object = [before EXCEPT !.body[field] = Changed]
        PROVE  object.owner = before.owner
    <3>1. IsRecord(before) BY DEF Sound, RecordsSound
    <3>2. object = [owner |-> before.owner, body |-> [before.body EXCEPT ![field] = Changed]]
      BY <2>1, <3>1 DEF IsRecord
    <3> QED BY <3>2
  <2>2. ASSUME NEW i \in Instances, NEW c \in Functions5G,
               object = [owner |-> Foreign, body |-> ForeignBody(i, c)]
        PROVE  object.owner = 0
    BY <2>2 DEF Foreign
  <2> QED BY <1>4, <2>1, <2>2 DEF OutsideVersion, VersionsOf
<1> QED BY <1>1, <1>2, <1>3, <1>4 DEF NewVersions, VersionsOf

LEMMA BelongsStays ==
  ASSUME Sound, [Next]_vars, NEW i \in Instances, NEW uid \in Nat, uid > 0, Claim(uid, i)
  PROVE  Belongs(uid, i)'
<1> SUFFICES ASSUME NEW key \in Keys, NEW object \in VersionsOf(objects'[key])
             PROVE  /\ object.owner = uid => OfInstance(key, i)
                    /\ OfInstance(key, i) => object.owner <= uid
  BY DEF Belongs
<1>1. ASSUME NEW before \in VersionsOf(objects[key]), object.owner = before.owner
      PROVE  /\ object.owner = uid => OfInstance(key, i)
             /\ OfInstance(key, i) => object.owner <= uid
  BY <1>1 DEF Claim, Belongs
<1>2. CASE object.owner = 0 BY <1>2
<1>3. CASE InPass /\ object.owner = worker.uid /\ OfInstance(key, worker.instance)
  <2>1. worker.instance \in Instances BY <1>3, SoundFacts
  <2>2. OfInstance(key, i) => worker.instance = i BY <1>3, <2>1, KeyOfOneInstance
  <2> QED BY <1>3, <2>2 DEF Claim
<1> QED BY <1>1, <1>2, <1>3, NewOwners

\* How the resources change: an instance gets a version of the same UID or of a new one.
LEMMA NextUids ==
  ASSUME Sound, [Next]_vars
  PROVE  /\ used'["create"] \in Nat /\ used["create"] <= used'["create"]
         /\ \/ UNCHANGED cr
            \/ \E i \in Instances :
                 /\ UNCHANGED <<objects, worker>>
                 /\ \/ ~Fresh(cr[i]) /\ cr' = [cr EXCEPT ![i] = Tail(@)]
                    \/ \E object \in CR \cup {NoObject} :
                         /\ cr' = [cr EXCEPT ![i] = Append(@, object)]
                         /\ \/ object = NoObject /\ used["delete"] < Bound["delete"]
                            \/ object \in CR /\ Exists(i) /\ object.uid = Current(cr[i]).uid
                            \/ /\ object \in CR /\ ~Exists(i) /\ object.uid = used["create"] + 1
                               /\ used'["create"] = used["create"] + 1
<1>0. used \in [Events -> Nat] /\ "create" \in Events BY DEF Sound, TypeOK, Events
<1>1. ASSUME NEW event \in Events, Spend(event)
      PROVE  used'["create"] \in Nat /\ used["create"] <= used'["create"]
  <2>1. used' = [used EXCEPT ![event] = used[event] + 1] BY <1>1 DEF Spend
  <2>2. used["create"] \in Nat /\ used[event] \in Nat BY <1>0
  <2>3. used'["create"] = IF event = "create" THEN used["create"] + 1 ELSE used["create"]
    BY <1>0, <2>1
  <2> QED BY <2>2, <2>3
<1>2. used'["create"] \in Nat /\ used["create"] <= used'["create"]
  <2>1. used' = used \/ \E event \in Events : Spend(event)
    <3>1. \A event : event \in {"create", "edit", "delete", "tamper", "crd", "fault", "crash"} => event \in Events
      BY DEF Events
    <3>2. CASE Owners BY <3>1, <3>2 DEF Owners, CreateOpen5GS, EditOpen5GS, DeleteOpen5GS
    <3>3. CASE Manager
      BY <3>1, <3>3 DEF Manager, Restart, SyncOpen5GS, Start, StartGone, SyncObject
    <3>4. CASE Worker
      BY <3>4
      DEF Worker, Finish, Create, AlreadyExists, LeaveForeign, LeaveEqual, Update, UpdateRefused,
          LookUpMonitorAPI, MonitorsGone, ListByLabel, ListUnwantedMonitors, ListOwnedByName,
          DeleteNextListed, AllListedDeleted, DeleteByName
    <3>5. CASE RequestFails \/ LookUpFails BY <3>1, <3>5 DEF RequestFails, LookUpFails
    <3>6. CASE Outside
      BY <3>1, <3>6
      DEF Outside, CollectGarbage, ExternalDelete, Drift, CreateForeign, InstallMonitorCRD,
          UninstallMonitorCRD
    <3> QED BY <3>2, <3>3, <3>4, <3>5, <3>6 DEF Next, vars
  <2>2. used["create"] \in Nat BY <1>0
  <2> QED BY <1>1, <2>1, <2>2
<1>3. ASSUME NEW i \in Instances, NEW v \in Versions, CreateOpen5GS(i, v)
      PROVE  \E object \in CR :
               /\ cr' = [cr EXCEPT ![i] = Append(@, object)] /\ UNCHANGED <<objects, worker>>
               /\ ~Exists(i)
               /\ object.uid = used["create"] + 1 /\ used'["create"] = used["create"] + 1
  <2> DEFINE object == [uid |-> used["create"] + 1, version |-> v]
  <2>1. object \in CR BY <1>3, CreatedUID DEF CreateOpen5GS, CR
  <2>2. used'["create"] = used["create"] + 1 BY <1>0, <1>3, Spending DEF CreateOpen5GS
  <2>3. object.uid = used["create"] + 1 OBVIOUS
  <2>4. cr' = [cr EXCEPT ![i] = Append(@, object)] /\ UNCHANGED <<objects, worker>> /\ ~Exists(i)
    BY <1>3 DEF CreateOpen5GS, WriteCR
  <2> HIDE DEF object
  <2> QED BY <2>1, <2>2, <2>3, <2>4
<1>4. ASSUME NEW i \in Instances, NEW v \in Versions, EditOpen5GS(i, v)
      PROVE  \E object \in CR :
               /\ cr' = [cr EXCEPT ![i] = Append(@, object)] /\ UNCHANGED <<objects, worker>>
               /\ Exists(i) /\ object.uid = Current(cr[i]).uid
  <2> DEFINE object == [uid |-> Current(cr[i]).uid, version |-> v]
  <2>1. Current(cr[i]) \in CR
    BY <1>4, SoundFacts, CRsAreLogs, LogVersions DEF EditOpen5GS, Exists
  <2>2. object \in CR BY <2>1 DEF CR
  <2>3. object.uid = Current(cr[i]).uid OBVIOUS
  <2>4. cr' = [cr EXCEPT ![i] = Append(@, object)] /\ UNCHANGED <<objects, worker>> /\ Exists(i)
    BY <1>4 DEF EditOpen5GS, WriteCR
  <2> HIDE DEF object
  <2> QED BY <2>2, <2>3, <2>4
<1>5. ASSUME NEW i \in Instances, DeleteOpen5GS(i)
      PROVE  /\ cr' = [cr EXCEPT ![i] = Append(@, NoObject)] /\ UNCHANGED <<objects, worker>>
             /\ used["delete"] < Bound["delete"]
  BY <1>5 DEF DeleteOpen5GS, WriteCR, Spend
<1>6. ASSUME NEW i \in Instances, SyncOpen5GS(i)
      PROVE  ~Fresh(cr[i]) /\ cr' = [cr EXCEPT ![i] = Tail(@)] /\ UNCHANGED <<objects, worker>>
  BY <1>6 DEF SyncOpen5GS
<1>7. CASE UNCHANGED cr BY <1>2, <1>7
<1>8. CASE Owners
  <2>1. NoObject \in CR \cup {NoObject} OBVIOUS
  <2> QED BY <1>2, <1>3, <1>4, <1>5, <1>8, <2>1 DEF Owners
<1>9. CASE Manager
  BY <1>2, <1>6, <1>7, <1>9 DEF Manager, Restart, Start, StartGone, SyncObject
<1>10. CASE Worker \/ RequestFails \/ LookUpFails
  BY <1>7, <1>10, WorkerMoves, FailuresMove DEF GoesOn, PassEnds
<1>11. CASE Outside
  BY <1>7, <1>11
  DEF Outside, CollectGarbage, ExternalDelete, Drift, CreateForeign, InstallMonitorCRD, UninstallMonitorCRD
<1> QED BY <1>7, <1>8, <1>9, <1>10, <1>11 DEF Next, vars

LEMMA AppendedUids ==
  ASSUME NEW S, NEW log \in Seq(S), NEW object, NEW uid \in UidsOf(Append(log, object))
  PROVE  uid \in UidsOf(log) \/ (object # NoObject /\ uid = object.uid)
<1>1. PICK version \in Range(Append(log, object)) \ {NoObject} : uid = version.uid
  BY DEF UidsOf, VersionsOf
<1>2. version \in Range(log) \cup {object} BY <1>1, AppendVersions
<1> QED BY <1>1, <1>2 DEF UidsOf, VersionsOf

LEMMA TailUids ==
  ASSUME NEW log, IsLog(log)
  PROVE  UidsOf(Tail(log)) \subseteq UidsOf(log)
BY TailVersions DEF UidsOf, VersionsOf

\* The order of the UIDs in a log.
Grows(log) ==
  \A m, n \in 1..Len(log) :
    m <= n /\ log[m] # NoObject /\ log[n] # NoObject => log[m].uid <= log[n].uid

LEMMA TailGrows ==
  ASSUME NEW log, IsLog(log), Grows(log)
  PROVE  Grows(Tail(log))
<1>1. PICK S : log \in Seq(S) /\ log # <<>> BY DEF IsLog
<1>2. /\ Len(log) \in Nat /\ Len(Tail(log)) = Len(log) - 1
      /\ \A n \in 1..(Len(log) - 1) : Tail(log)[n] = log[n + 1] /\ n + 1 \in 1..Len(log)
  BY <1>1
<1>3. ASSUME NEW m \in 1..Len(Tail(log)), NEW n \in 1..Len(Tail(log)), m <= n,
             Tail(log)[m] # NoObject, Tail(log)[n] # NoObject
      PROVE  Tail(log)[m].uid <= Tail(log)[n].uid
  <2>1. m + 1 <= n + 1 BY <1>2, <1>3
  <2>2. /\ Tail(log)[m] = log[m + 1] /\ m + 1 \in 1..Len(log)
        /\ Tail(log)[n] = log[n + 1] /\ n + 1 \in 1..Len(log)
    BY <1>2
  <2> QED BY <1>3, <2>1, <2>2 DEF Grows
<1> QED BY <1>3 DEF Grows

LEMMA AppendedGrows ==
  ASSUME NEW S, NEW log \in Seq(S), NEW object, Grows(log),
         object # NoObject => object.uid \in Nat /\ \A uid \in UidsOf(log) : uid <= object.uid
  PROVE  Grows(Append(log, object))
<1> DEFINE new == Append(log, object)
<1>1. log \in Seq(S \cup {object}) /\ object \in S \cup {object} OBVIOUS
<1>2. /\ Len(log) \in Nat /\ Len(new) = Len(log) + 1 /\ new[Len(log) + 1] = object
      /\ DOMAIN log = 1..Len(log) /\ \A n \in 1..Len(log) : new[n] = log[n]
  BY <1>1
<1> HIDE DEF new
<1>3. ASSUME NEW m \in 1..Len(new), NEW n \in 1..Len(new), m <= n, new[m] # NoObject, new[n] # NoObject
      PROVE  new[m].uid <= new[n].uid
  <2>1. CASE n \in 1..Len(log)
    <3>1. m \in 1..Len(log) BY <1>2, <1>3, <2>1
    <3> QED BY <1>2, <1>3, <2>1, <3>1 DEF Grows
  <2>2. CASE n = Len(log) + 1 /\ m \in 1..Len(log)
    <3>1. log[m] \in Range(log) \ {NoObject} BY <1>2, <1>3, <2>2 DEF Range
    <3>2. log[m].uid \in UidsOf(log) BY <3>1 DEF UidsOf, VersionsOf
    <3> QED BY <1>2, <1>3, <2>2, <3>2
  <2>3. CASE n = Len(log) + 1 /\ m = Len(log) + 1
    <3>1. object.uid \in Nat /\ new[m] = object /\ new[n] = object BY <1>2, <1>3, <2>3
    <3>2. object.uid <= object.uid BY <3>1
    <3> QED BY <3>1, <3>2
  <2>4. n \in 1..Len(log) \/ n = Len(log) + 1 BY <1>2
  <2>5. m \in 1..Len(log) \/ m = Len(log) + 1 BY <1>2
  <2> QED BY <2>1, <2>2, <2>3, <2>4, <2>5
<1> QED BY <1>3 DEF Grows, new

\* The cached resource is the one with the least UID, the current one that with the greatest.
LEMMA FirstAndLast ==
  ASSUME Sound, UidsGrow, NEW i \in Instances, NEW uid \in UidsOf(cr[i])
  PROVE  /\ Cached(cr[i]) # NoObject => Cached(cr[i]).uid <= uid
         /\ Exists(i) => uid <= Current(cr[i]).uid
<1>1. IsLog(cr[i]) BY SoundFacts, CRsAreLogs
<1>2. /\ Len(cr[i]) \in Nat /\ Len(cr[i]) > 0 /\ DOMAIN cr[i] = 1..Len(cr[i]) /\ Cached(cr[i]) = cr[i][1]
  BY <1>1, LogVersions
<1>3. PICK n \in 1..Len(cr[i]) : cr[i][n] # NoObject /\ uid = cr[i][n].uid
  BY <1>2 DEF UidsOf, VersionsOf, Range
<1>4. 1 \in 1..Len(cr[i]) /\ Len(cr[i]) \in 1..Len(cr[i]) /\ 1 <= n /\ n <= Len(cr[i]) BY <1>2
<1>5. \A a, b \in 1..Len(cr[i]) :
        a <= b /\ cr[i][a] # NoObject /\ cr[i][b] # NoObject => cr[i][a].uid <= cr[i][b].uid
  BY DEF UidsGrow
<1> QED BY <1>2, <1>3, <1>4, <1>5 DEF Exists, Current

LEMMA UidsStay ==
  ASSUME Sound, OwnersSound, [Next]_vars
  PROVE  /\ UidsApart' /\ UidsGrow'
         /\ \A i \in Instances : \A uid \in UidsOf(cr'[i]) :
              \/ uid \in UidsOf(cr[i])
              \/ /\ uid = used["create"] + 1 /\ uid <= used'["create"]
                 /\ UNCHANGED <<objects, worker>>
<1>1. used["create"] \in Nat /\ used'["create"] \in Nat BY SoundFacts, NextUids
<1>2. CRsSound /\ \A i \in Instances : IsLog(cr[i]) /\ cr[i] \in Seq(CR \cup {NoObject})
  BY SoundFacts, CRsAreLogs DEF CRsSound
<1>3. \A i \in Instances : Grows(cr[i]) BY DEF OwnersSound, UidsGrow, Grows
<1>4. CASE UNCHANGED cr
  <2>1. UidsApart' BY <1>4 DEF OwnersSound, UidsApart
  <2>2. UidsGrow' BY <1>4 DEF OwnersSound, UidsGrow
  <2> QED BY <1>4, <2>1, <2>2
<1>5. ASSUME NEW i \in Instances, ~Fresh(cr[i]), cr' = [cr EXCEPT ![i] = Tail(@)]
      PROVE  /\ UidsApart' /\ UidsGrow'
             /\ \A j \in Instances : UidsOf(cr'[j]) \subseteq UidsOf(cr[j])
  <2>1. \A j \in Instances : cr'[j] = IF j = i THEN Tail(cr[j]) ELSE cr[j] BY <1>2, <1>5 DEF CRsSound
  <2>2. \A j \in Instances : UidsOf(cr'[j]) \subseteq UidsOf(cr[j]) BY <1>2, <2>1, TailUids
  <2>3. UidsApart' BY <2>2 DEF OwnersSound, UidsApart
  <2>4. \A j \in Instances : Grows(cr'[j]) BY <1>2, <1>3, <2>1, TailGrows
  <2> QED BY <2>2, <2>3, <2>4 DEF UidsGrow, Grows
<1>6. ASSUME NEW i \in Instances, NEW object \in CR \cup {NoObject},
             cr' = [cr EXCEPT ![i] = Append(@, object)],
             UNCHANGED <<objects, worker>>,
             \/ object = NoObject
             \/ Exists(i) /\ object.uid = Current(cr[i]).uid
             \/ object.uid = used["create"] + 1 /\ used'["create"] = used["create"] + 1
      PROVE  /\ UidsApart' /\ UidsGrow'
             /\ \A j \in Instances : \A uid \in UidsOf(cr'[j]) :
                  uid \in UidsOf(cr[j]) \/ (uid = used["create"] + 1 /\ uid <= used'["create"])
  <2>1. \A j \in Instances : cr'[j] = IF j = i THEN Append(cr[j], object) ELSE cr[j]
    BY <1>2, <1>6 DEF CRsSound
  <2>2. object # NoObject => \/ object.uid \in UidsOf(cr[i])
                             \/ object.uid = used["create"] + 1 /\ used'["create"] = used["create"] + 1
    BY <1>6, UidFacts
  <2>3. \A j \in Instances : \A uid \in UidsOf(cr'[j]) :
          \/ uid \in UidsOf(cr[j])
          \/ j = i /\ uid = used["create"] + 1 /\ used'["create"] = used["create"] + 1
    BY <1>2, <2>1, <2>2, AppendedUids
  <2>4. \A j \in Instances : \A uid \in UidsOf(cr[j]) : uid \in Nat /\ uid <= used["create"]
    BY SoundFacts DEF OwnersSound, UidsCounted
  <2>5. \A j \in Instances : \A uid \in UidsOf(cr[j]) : uid # used["create"] + 1 BY <1>1, <2>4
  <2>6. UidsApart'
    <3> SUFFICES ASSUME NEW j \in Instances, NEW k \in Instances, j # k,
                        NEW uid \in UidsOf(cr'[j]) \cap UidsOf(cr'[k])
                 PROVE  FALSE
      BY DEF UidsApart
    <3>1. \/ uid \in UidsOf(cr[j])
          \/ j = i /\ uid = used["create"] + 1
      BY <2>3
    <3>2. \/ uid \in UidsOf(cr[k])
          \/ k = i /\ uid = used["create"] + 1
      BY <2>3
    <3> QED BY <2>5, <3>1, <3>2 DEF OwnersSound, UidsApart
  <2>7. Grows(Append(cr[i], object))
    <3>1. object # NoObject => object.uid \in Nat BY <1>1, <2>2, <2>4
    <3>2. ASSUME object # NoObject, NEW uid \in UidsOf(cr[i]) PROVE uid <= object.uid
      <4>1. CASE Exists(i) /\ object.uid = Current(cr[i]).uid
        BY <4>1, FirstAndLast DEF OwnersSound
      <4>2. CASE object.uid = used["create"] + 1 BY <1>1, <2>4, <4>2
      <4> QED BY <1>6, <3>2, <4>1, <4>2
    <3> QED BY <1>2, <1>3, <3>1, <3>2, AppendedGrows
  <2>8. \A j \in Instances : Grows(cr'[j]) BY <1>3, <2>1, <2>7
  <2>9. used["create"] + 1 <= used["create"] + 1 BY <1>1
  <2> QED BY <2>3, <2>6, <2>8, <2>9 DEF UidsGrow, Grows
<1> QED BY <1>4, <1>5, <1>6, NextUids

LEMMA CountedStay ==
  ASSUME Sound, OwnersSound, [Next]_vars, Sound'
  PROVE  UidsCounted'
<1>1. used["create"] \in Nat /\ used'["create"] \in Nat /\ used["create"] <= used'["create"]
  BY SoundFacts, NextUids
<1>2. UidsCounted BY DEF OwnersSound
<1>3. ASSUME NEW i \in Instances, NEW uid \in UidsOf(cr'[i])
      PROVE  uid \in UIDs /\ uid <= used'["create"]
  <2>1. uid \in UIDs
    <3>1. CRsSound' BY <1>3 DEF Sound, TypeOK, LogsType, CRsSound
    <3>2. cr' \in [Instances -> Seq(CR \cup {NoObject})] BY <3>1 DEF CRsSound
    <3>3. cr'[i] \in Seq(CR \cup {NoObject}) BY <3>2
    <3>4. \A n \in DOMAIN cr'[i] : cr'[i][n] \in CR \cup {NoObject} BY <3>3
    <3> QED BY <1>3, <3>4 DEF UidsOf, VersionsOf, Range, CR
  <2>2. CASE uid \in UidsOf(cr[i])
    <3>1. uid \in Nat /\ uid <= used["create"] BY <1>2, <2>2, SoundFacts DEF UidsCounted
    <3> QED BY <1>1, <2>1, <3>1
  <2> QED BY <2>1, <2>2, UidsStay
<1>4. ASSUME NEW key \in Keys, NEW object \in VersionsOf(objects'[key])
      PROVE  object.owner <= used'["create"]
  <2>1. ASSUME NEW before \in VersionsOf(objects[key]), object.owner = before.owner
        PROVE  object.owner <= used'["create"]
    <3>1. before.owner \in Nat /\ before.owner <= used["create"]
      BY <1>2, SoundFacts DEF UidsCounted
    <3> QED BY <1>1, <2>1, <3>1
  <2>2. CASE object.owner = 0 BY <1>1, <2>2
  <2>3. CASE InPass /\ object.owner = worker.uid
    <3>1. worker.uid \in Nat /\ worker.uid <= used["create"] BY <1>2, <2>3, SoundFacts DEF UidsCounted
    <3> QED BY <1>1, <2>3, <3>1
  <2> QED BY <2>1, <2>2, <2>3, NewOwners
<1>5. ASSUME InPass' PROVE worker'.uid <= used'["create"]
  <2>1. ASSUME InPass, worker'.uid = worker.uid PROVE worker'.uid <= used'["create"]
    <3>1. worker.uid \in Nat /\ worker.uid <= used["create"] BY <1>2, <2>1, SoundFacts DEF UidsCounted
    <3> QED BY <1>1, <2>1, <3>1
  <2>2. CASE UNCHANGED worker BY <1>5, <2>1, <2>2 DEF InPass
  <2>3. ASSUME NEW i \in Instances, Start(i) PROVE worker'.uid <= used'["create"]
    <3>1. Cached(cr[i]).uid \in UidsOf(cr[i]) /\ worker'.uid = Cached(cr[i]).uid
      BY <2>3, UidFacts DEF Start
    <3>2. worker'.uid \in Nat /\ worker'.uid <= used["create"] BY <1>2, <3>1, SoundFacts DEF UidsCounted
    <3> QED BY <1>1, <3>2
  <2>4. CASE worker' = Idle BY <1>5, <2>4 DEF InPass, Idle
  <2>5. CASE GoesOn BY <2>1, <2>5 DEF GoesOn, PassAt
  <2> QED BY <2>2, <2>3, <2>4, <2>5, NextMoves
<1> QED BY <1>3, <1>4, <1>5 DEF UidsCounted

LEMMA ClaimedStay ==
  ASSUME Sound, OwnersSound, [Next]_vars
  PROVE  Claimed'
<1>1. \A i \in Instances : \A uid \in UidsOf(cr[i]) : Claim(uid, i) /\ uid \in Nat /\ uid > 0
  BY SoundFacts DEF OwnersSound, Claimed
<1>2. \A i \in Instances : \A uid \in UidsOf(cr[i]) : Belongs(uid, i)' BY <1>1, BelongsStays
<1>3. ASSUME NEW i \in Instances, NEW uid \in Nat, InPass, worker.uid = uid, worker.instance = i
      PROVE  Belongs(uid, i)'
  BY <1>3, SoundFacts, BelongsStays DEF OwnersSound, Claimed
<1>4. used["create"] \in Nat BY SoundFacts
<1>5. ASSUME NEW i \in Instances, Start(i), NEW j \in Instances, NEW uid \in UidsOf(cr[j])
      PROVE  (worker'.uid = uid => worker'.instance = j) /\ (worker'.instance = j => worker'.uid <= uid)
  <2>1. worker'.instance = i /\ worker'.uid = Cached(cr[i]).uid /\ Cached(cr[i]) # NoObject
    BY <1>5 DEF Start
  <2>2. worker'.uid \in UidsOf(cr[i]) BY <2>1, UidFacts
  <2>3. worker'.uid = uid => i = j BY <2>2 DEF OwnersSound, UidsApart
  <2>4. i = j => worker'.uid <= uid BY <2>1, FirstAndLast DEF OwnersSound
  <2> QED BY <2>1, <2>3, <2>4
<1>6. ASSUME NEW j \in Instances, NEW uid \in UidsOf(cr[j]), InPass'
      PROVE  (worker'.uid = uid => worker'.instance = j) /\ (worker'.instance = j => worker'.uid <= uid)
  <2>1. ASSUME InPass, worker'.uid = worker.uid, worker'.instance = worker.instance
        PROVE  (worker'.uid = uid => worker'.instance = j) /\ (worker'.instance = j => worker'.uid <= uid)
    BY <1>1, <2>1 DEF Claim
  <2>2. CASE UNCHANGED worker BY <1>6, <2>1, <2>2 DEF InPass
  <2>3. CASE worker' = Idle BY <1>6, <2>3 DEF InPass, Idle
  <2>4. CASE GoesOn BY <2>1, <2>4 DEF GoesOn, PassAt
  <2> QED BY <1>5, <2>2, <2>3, <2>4, NextMoves
<1>7. ASSUME NEW j \in Instances, NEW uid \in UidsOf(cr'[j]) PROVE Claim(uid, j)'
  <2>1. CASE uid \in UidsOf(cr[j]) BY <1>2, <1>6, <2>1 DEF Claim
  <2>2. CASE uid = used["create"] + 1 /\ UNCHANGED <<objects, worker>>
    <3>1. \A key \in Keys : \A object \in VersionsOf(objects[key]) :
            object.owner # uid /\ object.owner <= uid
      <4>1. \A key \in Keys : \A object \in VersionsOf(objects[key]) :
              object.owner \in Nat /\ object.owner <= used["create"]
        BY SoundFacts DEF OwnersSound, UidsCounted
      <4> QED BY <1>4, <2>2, <4>1
    <3>2. InPass => worker.uid # uid /\ worker.uid <= uid
      <4>1. InPass => worker.uid \in Nat /\ worker.uid <= used["create"]
        BY SoundFacts DEF OwnersSound, UidsCounted
      <4> QED BY <1>4, <2>2, <4>1
    <3> QED BY <2>2, <3>1, <3>2 DEF Claim, Belongs, InPass
  <2> QED BY <2>1, <2>2, UidsStay
<1>8. ASSUME InPass' PROVE Claim(worker.uid, worker.instance)'
  <2>0. worker'.uid \in Nat => worker'.uid <= worker'.uid OBVIOUS
  <2>1. ASSUME InPass, worker'.uid = worker.uid, worker'.instance = worker.instance
        PROVE  Claim(worker.uid, worker.instance)'
    <3>1. PICK i \in Instances, uid \in Nat : worker.uid = uid /\ worker.instance = i
      BY <2>1, SoundFacts
    <3>2. Belongs(uid, i)' BY <1>3, <2>1, <3>1
    <3>3. worker'.uid = uid /\ worker'.instance = i /\ uid <= uid BY <2>1, <3>1
    <3> QED BY <3>2, <3>3 DEF Claim, Belongs
  <2>2. CASE UNCHANGED worker BY <1>8, <2>1, <2>2 DEF InPass
  <2>3. ASSUME NEW i \in Instances, Start(i), UNCHANGED cr PROVE Claim(worker.uid, worker.instance)'
    <3>1. worker'.instance = i /\ worker'.uid = Cached(cr[i]).uid /\ Cached(cr[i]) # NoObject
      BY <2>3 DEF Start
    <3>2. worker'.uid \in UidsOf(cr'[i]) BY <2>3, <3>1, UidFacts
    <3> QED BY <1>7, <3>1, <3>2 DEF Claim, Belongs
  <2>4. CASE worker' = Idle BY <1>8, <2>4 DEF InPass, Idle
  <2>5. CASE GoesOn BY <2>1, <2>5 DEF GoesOn, PassAt
  <2> QED BY <2>2, <2>3, <2>4, <2>5, NextMoves
<1> QED BY <1>7, <1>8 DEF Claimed

LEMMA InitOwnersSound == Init => OwnersSound
<1> SUFFICES ASSUME Init PROVE OwnersSound OBVIOUS
<1>1. \A i \in Instances : cr[i] = <<NoObject>> BY DEF Init
<1>2. \A key \in Keys : objects[key] = <<NoObject>> BY DEF Init
<1>3. VersionsOf(<<NoObject>>) = {} /\ UidsOf(<<NoObject>>) = {}
  BY SingletonVersions DEF VersionsOf, UidsOf
<1>4. ~InPass BY DEF Init, Idle, InPass
<1>5. UidsCounted /\ UidsApart /\ Claimed
  BY <1>1, <1>2, <1>3, <1>4 DEF UidsCounted, UidsApart, Claimed
<1>6. UidsGrow
  <2>1. \A n \in 1..Len(<<NoObject>>) : <<NoObject>>[n] = NoObject OBVIOUS
  <2> QED BY <1>1, <2>1 DEF UidsGrow
<1> QED BY <1>5, <1>6 DEF OwnersSound

LEMMA AlwaysOwnersSound == Spec => []OwnersSound
<1>1. Sound /\ Sound' /\ OwnersSound /\ [Next]_vars => OwnersSound'
  <2> SUFFICES ASSUME Sound, Sound', OwnersSound, [Next]_vars PROVE OwnersSound' OBVIOUS
  <2>1. UidsApart' /\ UidsGrow' BY UidsStay
  <2>2. UidsCounted' BY CountedStay
  <2>3. Claimed' BY ClaimedStay
  <2> QED BY <2>1, <2>2, <2>3 DEF OwnersSound
<1> QED BY <1>1, InitOwnersSound, AlwaysSound, PTL DEF Spec

(***************************************************************************)
(* What is listed by its labels. An object with a name of one instance has *)
(* no labels of another, unless somebody else gives it those; so what a    *)
(* pass lists, it does not take from another instance.                     *)
(***************************************************************************)
LabelsApart ==
  \A key \in Keys : \A object \in VersionsOf(objects[key]), i, j \in Instances :
    key.kind \in PickedByLabel /\ OfInstance(key, j) /\ object.body.labels \in LabelsOf(i) => i = j
DoomedApart ==
  \A key \in worker.doomed : \A j \in Instances : OfInstance(key, j) => j = worker.instance

\* What others do to the objects that are picked by their labels.
NobodyUsesTheLabels ==
  /\ \A key \in Contested : key.kind \in PickedByLabel => \A i \in Instances : ~OfInstance(key, i)
  /\ \A i \in Instances : Changed \notin LabelsOf(i)

LEMMA LabelsOfOneInstance ==
  ASSUME NEW i, NEW j, NEW labels, labels \in LabelsOf(i), labels \in LabelsOf(j)
  PROVE  i = j
<1>1. PICK c \in Names : labels = [instance |-> i, name |-> c] BY DEF LabelsOf
<1>2. PICK d \in Names : labels = [instance |-> j, name |-> d] BY DEF LabelsOf
<1>3. labels.instance = i BY <1>1
<1>4. labels.instance = j BY <1>2
<1> QED BY <1>3, <1>4

LEMMA LabelsStayApart ==
  ASSUME NobodyUsesTheLabels, Sound, LabelsApart, [Next]_vars
  PROVE  LabelsApart'
<1> SUFFICES ASSUME NEW key \in Keys, NEW object \in VersionsOf(objects'[key]),
                    NEW i \in Instances, NEW j \in Instances,
                    key.kind \in PickedByLabel, OfInstance(key, j), object.body.labels \in LabelsOf(i)
             PROVE  i = j
  BY DEF LabelsApart
<1>1. ASSUME NEW before \in VersionsOf(objects[key]), object.body.labels = before.body.labels
      PROVE  i = j
  BY <1>1 DEF LabelsApart
<1>2. CASE AppliedVersion(key, object)
  <2>1. /\ worker.instance \in Instances /\ OfInstance(key, worker.instance)
        /\ step.body.labels \in LabelsOf(worker.instance)
    BY <1>2, AppliedKeys, PassHasPlan DEF AppliedVersion
  <2>2. j = worker.instance BY <2>1, KeyOfOneInstance
  <2>3. CASE object.body.labels = step.body.labels BY <2>1, <2>2, <2>3, LabelsOfOneInstance
  <2>4. CASE object = [owner |-> worker.uid, body |-> step.body] BY <2>3, <2>4
  <2>5. ASSUME NEW before \in Range(objects[key]) \ {NoObject},
               object = [owner |-> before.owner,
                         body |-> Updated(key, worker.instance, before.body, step.body)]
        PROVE  i = j
    <3>1. IsBody(before.body) BY <2>5 DEF Sound, RecordsSound, IsRecord
    <3>2. "labels" \in DOMAIN before.body BY <3>1 DEF IsBody, Fields
    <3>3. object.body.labels \in {step.body.labels, before.body.labels}
      BY <2>5, <3>2 DEF Updated
    <3> QED BY <1>1, <2>3, <2>5, <3>3 DEF VersionsOf
  <2> QED BY <1>2, <2>4, <2>5 DEF AppliedVersion
<1>3. CASE OutsideVersion(key, object)
  <2>1. key \notin Contested BY DEF NobodyUsesTheLabels
  <2>2. PICK before \in Range(objects[key]) \ {NoObject}, field \in DriftFields :
          object = [before EXCEPT !.body[field] = Changed]
    BY <1>3, <2>1 DEF OutsideVersion
  <2>3. IsRecord(before) BY <2>2 DEF Sound, RecordsSound
  <2>4. object = [owner |-> before.owner, body |-> [before.body EXCEPT ![field] = Changed]]
    BY <2>2, <2>3 DEF IsRecord
  <2>5. "labels" \in DOMAIN before.body BY <2>3 DEF IsRecord, IsBody, Fields
  <2>6. object.body.labels \in {Changed, before.body.labels} BY <2>4, <2>5
  <2>7. object.body.labels # Changed BY DEF NobodyUsesTheLabels
  <2> QED BY <1>1, <2>6, <2>7 DEF VersionsOf
<1>4. CASE object \in Range(objects[key]) BY <1>1, <1>4 DEF VersionsOf
<1>5. NewVersions BY SoundLogs, VersionsAppear
<1> QED BY <1>2, <1>3, <1>4, <1>5 DEF NewVersions, VersionsOf

LEMMA DoomedStayApart ==
  ASSUME Sound, OwnersSound, LabelsApart, DoomedApart, [Next]_vars
  PROVE  DoomedApart'
<1>1. CASE UNCHANGED worker BY <1>1 DEF DoomedApart
<1>2. CASE worker' = Idle \/ \E i \in Instances : Start(i) BY <1>2 DEF DoomedApart, Idle, Start
<1>3. CASE GoesOn
  <2>1. InPass /\ worker.instance \in Instances BY <1>3, PassHasPlan DEF GoesOn
  <2>2. ASSUME NEW key, Listed(key), NEW j \in Instances, OfInstance(key, j)
        PROVE  j = worker.instance
    <3>1. key \in Keys /\ key.kind \in PickedByLabel /\ Cached(objects[key]) # NoObject
      BY <2>2 DEF Listed, ListedKinds, PickedByLabel
    <3>2. Cached(objects[key]) \in VersionsOf(objects[key])
      BY <3>1, SoundLogs, LogVersions DEF Logs, VersionsOf
    <3>3. CASE Cached(objects[key]).body.labels \in LabelsOf(worker.instance)
      BY <2>1, <2>2, <3>1, <3>2, <3>3 DEF LabelsApart
    <3>4. CASE hasOwnerReference(Cached(objects[key]))
      <4>1. OfInstance(key, worker.instance)
        BY <2>1, <3>1, <3>2, <3>4 DEF hasOwnerReference, OwnersSound, Claimed, Claim, Belongs
      <4> QED BY <2>1, <2>2, <4>1, KeyOfOneInstance
    <3> QED BY <2>2, <3>3, <3>4 DEF Listed
  <2> QED BY <1>3, <2>2 DEF GoesOn, PassAt, DoomedApart
<1> QED BY <1>1, <1>2, <1>3, NextMoves

(***************************************************************************)
(* A pass for one instance neither changes nor deletes what the resource   *)
(* of another owns, nor what a later resource of its own name owns, unless *)
(* somebody else puts the labels of one instance on a name of another.     *)
(***************************************************************************)
THEOREM InstancesStayApart ==
  ASSUME NobodyUsesTheLabels
  PROVE  Spec => InstancesApart
<1> DEFINE Apart == \A key \in Keys :
             ByWorker(key) /\ Current(objects[key]) # NoObject
               => Current(objects[key]).owner \notin LiveUIDs \ {worker.uid}
<1>1. Init => LabelsApart /\ DoomedApart
  <2>1. VersionsOf(<<NoObject>>) = {} BY SingletonVersions DEF VersionsOf
  <2> QED BY <2>1 DEF Init, LabelsApart, DoomedApart, Idle
<1>2. Sound /\ OwnersSound /\ LabelsApart /\ DoomedApart /\ [Next]_vars => LabelsApart' /\ DoomedApart'
  BY LabelsStayApart, DoomedStayApart
<1>3. Sound /\ OwnersSound /\ LabelsApart /\ DoomedApart /\ [Next]_vars => Apart
  <2> SUFFICES ASSUME Sound, OwnersSound, LabelsApart, DoomedApart, [Next]_vars,
                      NEW key \in Keys, ByWorker(key), Current(objects[key]) # NoObject,
                      Current(objects[key]).owner \in LiveUIDs, Current(objects[key]).owner # worker.uid
               PROVE  FALSE
    OBVIOUS
  <2> DEFINE uid == Current(objects[key]).owner
  <2>1. PICK j \in Instances : Exists(j) /\ uid = Current(cr[j]).uid BY DEF LiveUIDs
  <2>2. uid \in UidsOf(cr[j]) BY <2>1, UidFacts
  <2>3. Claim(uid, j) /\ uid \in Nat BY <2>2, SoundFacts DEF OwnersSound, Claimed
  <2>4. Current(objects[key]) \in VersionsOf(objects[key])
    BY SoundLogs, LogVersions DEF Logs, VersionsOf
  <2>5. OfInstance(key, j) BY <2>3, <2>4 DEF Claim, Belongs
  <2>6. InPass /\ (key \in worker.doomed \/ DeletedByName(key)) BY WorkerWrites
  <2>7. worker.instance \in Instances /\ worker.uid \in Nat BY <2>6, SoundFacts
  <2>8. j = worker.instance
    <3>1. CASE key \in worker.doomed BY <2>5, <3>1 DEF DoomedApart
    <3>2. CASE DeletedByName(key)
      <4>1. OfInstance(key, worker.instance) BY <3>2, CallFacts DEF DeletedByName, SoundStep
      <4> QED BY <2>5, <2>7, <4>1, KeyOfOneInstance
    <3> QED BY <2>6, <3>1, <3>2
  <2>9. Claim(worker.uid, worker.instance) BY <2>6 DEF OwnersSound, Claimed
  <2>10. uid <= worker.uid BY <2>4, <2>5, <2>8, <2>9 DEF Claim, Belongs
  <2>11. worker.uid <= uid BY <2>3, <2>6, <2>8 DEF Claim
  <2>12. uid = worker.uid
    <3> HIDE DEF uid
    <3> QED BY <2>3, <2>7, <2>10, <2>11
  <2> QED BY <2>12
<1> QED BY <1>1, <1>2, <1>3, AlwaysSound, AlwaysOwnersSound, PTL DEF Spec, InstancesApart

-------------------------------------------------------------------------------
(***************************************************************************)
(* A Deployment gets the hash of a configuration only after the ConfigMap  *)
(* of its resource holds that configuration, for any instances and specs,  *)
(* any lag of the caches, whatever fails and whenever the operator         *)
(* restarts, and whatever others change in the ConfigMap, or remove.       *)
(*                                                                         *)
(* A pass takes the ConfigMap in its cache for the one there is. That is   *)
(* safe as long as an old one is never what is wanted again: as the        *)
(* configurations that a resource asks for can be numbered so that no edit *)
(* goes back, and as a name is used again only when nothing is left of its *)
(* last use. Without either the property fails (README, section 3). The    *)
(* proof is that along the ConfigMap's versions, the pass and the versions *)
(* of the resource no number is less than an earlier one: if the oldest    *)
(* ConfigMap is what the pass wants, so are all.                           *)
(***************************************************************************)
ConfigMapsAreOurs == \A key \in Contested : key.kind # "ConfigMap"

Asked(v, c) == ConfigMapData(setDefaultValues(SpecOf[v]), c)
Configurations == {Asked(v, c) : v \in Versions, c \in Functions5G}
Numbering(age) ==
  /\ Changed \notin Configurations
  /\ \A x \in Configurations : age[x] \in Nat
  /\ \A x, y \in Configurations : age[x] = age[y] => x = y
Numberings(Age) == \A i \in Instances, c \in Functions5G : Numbering(Age[i][c])

WorksFor(i) == InPass /\ worker.instance = i
Unused(i) ==
  /\ cr[i] = <<NoObject>> /\ ~WorksFor(i)
  /\ \A c \in Functions5G : ConfigMapKey(i, c) \in Keys => objects[ConfigMapKey(i, c)] = <<NoObject>>

\* What the owners do not do: ask for an old configuration again, or use a name too early.
NothingComesBack(Age) ==
  \A i \in Instances, v \in Versions :
    /\ EditOpen5GS(i, v) =>
         \A c \in Functions5G :
           Age[i][c][Asked(Current(cr[i]).version, c)] <= Age[i][c][Asked(v, c)]
    /\ CreateOpen5GS(i, v) => Unused(i)

(***************************************************************************)
(* All there is of an instance has one UID.                                *)
(***************************************************************************)
OwnedBy(uid, i) ==
  /\ UidsOf(cr[i]) \subseteq {uid}
  /\ WorksFor(i) => worker.uid = uid
  /\ \A c \in Functions5G : ConfigMapKey(i, c) \in Keys =>
       \A object \in VersionsOf(objects[ConfigMapKey(i, c)]) : object.owner = uid
OneOwner == \A i \in Instances : \E uid : OwnedBy(uid, i)

(***************************************************************************)
(* And it is in order: the ConfigMap's versions, the pass, the resource's. *)
(***************************************************************************)
IsConfig(object) == object # NoObject /\ object.body.spec # Changed
ResourceAged(age, i, c) ==
  /\ \A m, n \in 1..Len(cr[i]) :
       m < n /\ cr[i][m] # NoObject /\ cr[i][n] # NoObject =>
         age[Asked(cr[i][m].version, c)] <= age[Asked(cr[i][n].version, c)]
  /\ WorksFor(i) => \A resource \in VersionsOf(cr[i]) :
       age[Asked(worker.version, c)] <= age[Asked(resource.version, c)]
ConfigMapAged(age, i, c) ==
  LET log == objects[ConfigMapKey(i, c)]
  IN  /\ \A m, n \in 1..Len(log) :
           m < n /\ IsConfig(log[m]) /\ IsConfig(log[n]) => age[log[m].body.spec] <= age[log[n].body.spec]
      /\ \A n \in 1..Len(log) : IsConfig(log[n]) =>
           /\ log[n].body.spec \in Configurations
           /\ WorksFor(i) => age[log[n].body.spec] <= age[Asked(worker.version, c)]
           /\ \A resource \in VersionsOf(cr[i]) :
                age[log[n].body.spec] <= age[Asked(resource.version, c)]
Aged(Age) ==
  \A i \in Instances, c \in Functions5G :
    /\ ResourceAged(Age[i][c], i, c)
    /\ ConfigMapKey(i, c) \in Keys => ConfigMapAged(Age[i][c], i, c)

\* Where a pass is about to apply a Deployment, the ConfigMap holds what the hash is of.
ConfigFirst ==
  InPass /\ worker.at \in DOMAIN plan /\ AppliesDeployment(step) =>
    LET config == Current(objects[plan[worker.at - 1].key])
    IN  config # NoObject /\ config.owner = worker.uid => config.body.spec \in {step.body.hash, Changed}

-------------------------------------------------------------------------------
(* How a log goes on. *)

\* The new log is a part of the old one, in its order, and perhaps one version more.
Continues(log, new, object) ==
  \A n \in 1..Len(new) :
    /\ new[n] = object \/ \E p \in 1..Len(log) : new[n] = log[p]
    /\ \A m \in 1..Len(new) : m < n =>
         \E p \in 1..Len(log) :
           /\ new[m] = log[p]
           /\ new[n] = object \/ \E q \in 1..Len(log) : p < q /\ new[n] = log[q]

LEMMA TailContinues ==
  ASSUME NEW log, IsLog(log), NEW object
  PROVE  Continues(log, log, object) /\ Continues(log, Tail(log), object)
<1>1. PICK S : log \in Seq(S) /\ log # <<>> BY DEF IsLog
<1>2. /\ Len(log) \in Nat /\ Len(Tail(log)) = Len(log) - 1
      /\ \A n \in 1..(Len(log) - 1) : Tail(log)[n] = log[n + 1] /\ n + 1 \in 1..Len(log)
  BY <1>1
<1>3. Continues(log, log, object) BY DEF Continues
<1>4. ASSUME NEW n \in 1..Len(Tail(log)), NEW m \in 1..Len(Tail(log)), m < n
      PROVE  \E p, q \in 1..Len(log) : Tail(log)[m] = log[p] /\ p < q /\ Tail(log)[n] = log[q]
  <2>1. m + 1 < n + 1 BY <1>2, <1>4
  <2> QED BY <1>2, <2>1
<1>5. Continues(log, Tail(log), object) BY <1>2, <1>4 DEF Continues
<1> QED BY <1>3, <1>5

LEMMA AppendContinues ==
  ASSUME NEW log, NEW S, NEW t \in Seq(S), NEW object, Continues(log, t, object),
         \A n \in 1..Len(t) : \E p \in 1..Len(log) : t[n] = log[p]
  PROVE  Continues(log, Append(t, object), object)
<1> DEFINE new == Append(t, object)
<1>1. t \in Seq(S \cup {object}) /\ object \in S \cup {object} OBVIOUS
<1>2. /\ Len(t) \in Nat /\ Len(new) = Len(t) + 1 /\ new[Len(t) + 1] = object
      /\ \A n \in 1..Len(t) : new[n] = t[n]
  BY <1>1
<1> HIDE DEF new
<1>3. ASSUME NEW n \in 1..Len(new)
      PROVE  /\ new[n] = object \/ \E p \in 1..Len(log) : new[n] = log[p]
             /\ \A m \in 1..Len(new) : m < n =>
                  \E p \in 1..Len(log) :
                    /\ new[m] = log[p]
                    /\ new[n] = object \/ \E q \in 1..Len(log) : p < q /\ new[n] = log[q]
  <2>1. n \in 1..Len(t) \/ n = Len(t) + 1 BY <1>2
  <2>2. \A m \in 1..Len(new) : m < n => m \in 1..Len(t) BY <1>2
  <2>3. CASE n \in 1..Len(t)
    <3>1. new[n] = t[n] /\ \A m \in 1..Len(new) : m < n => m \in 1..Len(t) /\ new[m] = t[m]
      BY <1>2, <2>2, <2>3
    <3> QED BY <2>3, <3>1 DEF Continues
  <2>4. CASE n = Len(t) + 1 BY <1>2, <2>2, <2>4
  <2> QED BY <2>1, <2>3, <2>4
<1>4. Continues(log, new, object) BY <1>3 DEF Continues
<1> QED BY <1>4 DEF new

LEMMA GrownContinues ==
  ASSUME NEW key, NEW log, NEW object, IsLog(log)
  PROVE  /\ Continues(log, <<object>>, object) /\ Continues(log, Append(log, object), object)
         /\ Continues(log, Grown(key, log, object), object)
<1>1. PICK S : log \in Seq(S) /\ log # <<>> BY DEF IsLog
<1>2. /\ Len(log) \in Nat /\ Tail(log) \in Seq(S) /\ Len(Tail(log)) = Len(log) - 1
      /\ \A n \in 1..(Len(log) - 1) : Tail(log)[n] = log[n + 1] /\ n + 1 \in 1..Len(log)
  BY <1>1
<1>3. Continues(log, <<object>>, object)
  <2>1. Len(<<object>>) = 1 /\ <<object>>[1] = object OBVIOUS
  <2> QED BY <2>1 DEF Continues
<1>4. Continues(log, Append(log, object), object) BY <1>1, TailContinues, AppendContinues
<1>5. Continues(log, Append(Tail(log), object), object)
  <2>1. \A n \in 1..Len(Tail(log)) : \E p \in 1..Len(log) : Tail(log)[n] = log[p] BY <1>2
  <2> QED BY <1>2, <2>1, TailContinues, AppendContinues
<1> QED BY <1>3, <1>4, <1>5 DEF Grown

LEMMA WriteContinues ==
  ASSUME Logs, NEW key, NEW object, Write(key, object), NEW k \in Keys
  PROVE  k = key => Continues(objects[k], objects'[k], object) /\ Current(objects'[k]) = object
<1> SUFFICES ASSUME k = key
             PROVE  Continues(objects[k], objects'[k], object) /\ Current(objects'[k]) = object
  OBVIOUS
<1>1. IsLog(objects[k]) BY DEF Logs
<1>2. objects'[k] = IF object = Current(objects[k]) THEN objects[k] ELSE Grown(key, objects[k], object)
  BY DEF Logs, Write
<1> QED BY <1>1, <1>2, TailContinues, GrownContinues, WriteFacts

-------------------------------------------------------------------------------
(* How a ConfigMap and a Deployment are brought in line. *)

LEMMA ConfigMapPolicy ==
  ASSUME NEW key, NEW i, key.kind = "ConfigMap"
  PROVE  "spec" \in Policy(key, i).compared /\ "spec" \in Policy(key, i).copied
<1>1. ~IsUPFDeployment(key, i) BY DEF IsUPFDeployment, Key
<1>2. Policy(key, i) = reconcileConfigMap BY <1>1 DEF Policy, PolicyOfKind
<1> QED BY <1>2 DEF reconcileConfigMap, configMapEqual

LEMMA DeploymentPolicy ==
  ASSUME NEW key, NEW i, key.kind = "Deployment"
  PROVE  "hash" \in Policy(key, i).copied
<1>1. Policy(key, i) \in {reconcileUPFDeployment, reconcileDeployment} BY DEF Policy, PolicyOfKind
<1> QED BY <1>1 DEF reconcileUPFDeployment, reconcileDeployment

\* An update brings the fields in line that it copies.
LEMMA Copied ==
  ASSUME NEW key, NEW i, NEW body, IsBody(body), NEW desired,
         NEW field \in Fields, field \in Policy(key, i).copied
  PROVE  Updated(key, i, body, desired)[field] = desired[field]
<1>1. DOMAIN body = Fields BY DEF IsBody
<1> QED BY <1>1 DEF Updated

-------------------------------------------------------------------------------
(* What one step may do to the ConfigMap of a function. *)

Configured(object, i, c) ==
  WorksFor(i) /\ object.owner = worker.uid /\ object.body.spec = Asked(worker.version, c)
Tampered(object, before) ==
  before # NoObject /\ object.owner = before.owner /\ object.body.spec \in {before.body.spec, Changed}
\* What others make of it.
Altered(key) ==
  \E object :
    /\ object = NoObject \/ Tampered(object, Current(objects[key]))
    /\ Continues(objects[key], objects'[key], object)
    /\ Current(objects'[key]) \in {Current(objects[key]), object}
\* What any step does.
Reconfigured(key, i, c) ==
  \E object :
    /\ \/ object = NoObject \/ Tampered(object, Current(objects[key]))
       \/ Configured(object, i, c)
    /\ Continues(objects[key], objects'[key], object)

LEMMA AppliedConfig ==
  ASSUME Sound, Applying, NEW i \in Instances, NEW c \in Functions5G, step.key = ConfigMapKey(i, c)
  PROVE  WorksFor(i) /\ worker.version \in Versions /\ step.body.spec = Asked(worker.version, c)
<1> DEFINE s == setDefaultValues(SpecOf[worker.version])
<1>1. /\ InPass /\ worker.at \in DOMAIN plan /\ step.do \in Applies
      /\ OfInstance(step.key, worker.instance)
  BY AppliedKeys DEF Applying, Calling, Applies
<1>2. i \in Seq(STRING) /\ Functions5G \subseteq Names BY InstancesAreSequences, ControllerAssumption
<1>3. /\ step.key.kind = "ConfigMap" /\ OfInstance(step.key, i) /\ step.key # EntrypointKey(i)
      /\ \A d \in Functions5G : step.key = ConfigMapKey(i, d) => d = c
  BY <1>2, ConfigMapsApart
<1>4. worker.instance = i BY <1>1, <1>3, PassHasPlan, KeyOfOneInstance
<1>5. worker.version \in Versions BY <1>1 DEF Sound, TypeOK, PassType
<1>6. AllConfigure(plan, s, i, Functions5G)
  <2>1. plan = Pass(s, i, Functions5G) BY <1>4, <1>5 DEF plan, PlanOf
  <2> QED BY <2>1, PassConfigures
<1>7. Configures(step, s, i, Functions5G)
  <2>1. worker.at \in 1..Len(plan) BY <1>1, PassHasPlan
  <2> QED BY <1>6, <2>1 DEF AllConfigure, step
<1>8. \E d \in Functions5G : step.key = ConfigMapKey(i, d) /\ step.body.spec = ConfigMapData(s, d)
  BY <1>1, <1>3, <1>7 DEF Configures
<1> QED BY <1>1, <1>3, <1>4, <1>5, <1>8 DEF WorksFor, Asked

LEMMA Untouched ==
  ASSUME Logs, NEW key \in Keys, objects'[key] = objects[key]
  PROVE  Altered(key)
<1>1. Continues(objects[key], objects'[key], NoObject) BY TailContinues DEF Logs
<1> QED BY <1>1 DEF Altered

LEMMA OthersAlter ==
  ASSUME ConfigMapsAreOurs, Sound, Owners \/ Manager \/ Outside \/ UNCHANGED objects,
         NEW key \in Keys, key.kind = "ConfigMap"
  PROVE  Altered(key)
<1>1. Logs BY SoundLogs
<1>2. CASE objects'[key] = objects[key] BY <1>1, <1>2, Untouched
<1>3. ASSUME NEW k, NEW object, Write(k, object), object = NoObject \/ Tampered(object, Current(objects[k]))
      PROVE  Altered(key)
  <2>1. CASE k = key BY <1>1, <1>3, <2>1, WriteContinues DEF Altered
  <2> QED BY <1>1, <1>2, <1>3, <2>1, WriteFacts
<1>4. ASSUME NEW k \in Keys, CollectGarbage(k) \/ ExternalDelete(k) PROVE Altered(key)
  BY <1>3, <1>4 DEF CollectGarbage, ExternalDelete
<1>5. ASSUME NEW k \in Keys, NEW f \in DriftFields, Drift(k, f) PROVE Altered(key)
  <2> DEFINE before == Current(objects[k])
             new == [before EXCEPT !.body[f] = Changed]
  <2>1. Write(k, new) /\ before # NoObject BY <1>5 DEF Drift
  <2>2. before \in Range(objects[k]) \ {NoObject} BY <1>1, <2>1, LogVersions DEF Logs
  <2>3. IsRecord(before) BY <2>2 DEF Sound, RecordsSound
  <2> HIDE DEF before
  <2>4. new = [owner |-> before.owner, body |-> [before.body EXCEPT ![f] = Changed]]
    BY <2>3 DEF IsRecord
  <2>5. [before.body EXCEPT ![f] = Changed]["spec"] \in {before.body["spec"], Changed}
    BY <2>3 DEF IsRecord, IsBody, Fields
  <2>6. Tampered(new, before) BY <2>1, <2>4, <2>5 DEF Tampered
  <2> QED BY <1>3, <2>1, <2>6 DEF before
<1>6. ASSUME NEW k \in Contested, NEW body, CreateForeign(k, body) PROVE Altered(key)
  <2>1. k # key BY DEF ConfigMapsAreOurs
  <2> QED BY <1>1, <1>2, <1>6, <2>1, WriteFacts DEF CreateForeign
<1>7. CASE UninstallMonitorCRD BY <1>2, <1>7 DEF UninstallMonitorCRD
<1>8. CASE Outside
  <2>1. Exposed \subseteq Keys BY ControllerAssumption
  <2> QED BY <1>2, <1>4, <1>5, <1>6, <1>7, <1>8, <2>1 DEF Outside, InstallMonitorCRD
<1>9. ASSUME NEW k \in Keys, SyncObject(k) PROVE Altered(key)
  <2>1. objects'[key] = IF key = k THEN Tail(objects[key]) ELSE objects[key]
    BY <1>1, <1>9 DEF SyncObject, Logs
  <2>2. CASE key = k
    <3>1. IsLog(objects[key]) /\ ~Fresh(objects[key]) BY <1>1, <1>9, <2>2 DEF Logs, SyncObject
    <3>2. Continues(objects[key], objects'[key], NoObject) BY <2>1, <2>2, <3>1, TailContinues
    <3>3. Current(objects'[key]) = Current(objects[key]) BY <2>1, <2>2, <3>1, TailLog
    <3> QED BY <3>2, <3>3 DEF Altered
  <2> QED BY <1>2, <2>1, <2>2
<1>10. CASE Manager
  BY <1>2, <1>9, <1>10 DEF Manager, Restart, SyncOpen5GS, Start, StartGone
<1>11. CASE Owners BY <1>2, <1>11 DEF Owners, CreateOpen5GS, EditOpen5GS, DeleteOpen5GS
<1> QED BY <1>2, <1>8, <1>10, <1>11

LEMMA WorkerConfigures ==
  ASSUME Sound, Worker, NEW i \in Instances, NEW c \in Functions5G, ConfigMapKey(i, c) \in Keys
  PROVE  Reconfigured(ConfigMapKey(i, c), i, c)
<1> DEFINE key == ConfigMapKey(i, c)
<1>1. Logs BY SoundLogs
<1>2. CASE objects'[key] = objects[key] BY <1>1, <1>2, Untouched DEF Altered, Reconfigured
<1>3. ASSUME NEW k, NEW object, Write(k, object),
             k = key => object = NoObject \/ Configured(object, i, c)
      PROVE  Reconfigured(key, i, c)
  <2>1. CASE k = key BY <1>1, <1>3, <2>1, WriteContinues DEF Reconfigured
  <2> QED BY <1>1, <1>2, <1>3, <2>1, WriteFacts
<1>4. CASE Create
  <2> DEFINE new == [owner |-> worker.uid, body |-> step.body]
  <2>1. Write(step.key, new) /\ Applying BY <1>4 DEF Create
  <2>2. step.key = key => Configured(new, i, c) BY <2>1, AppliedConfig DEF Configured
  <2> HIDE DEF new
  <2> QED BY <1>3, <2>1, <2>2
<1>5. CASE Update
  <2> DEFINE new == [owner |-> found.owner, body |-> NewBody]
  <2>1. Write(step.key, new) /\ Applying /\ found # NoObject /\ found.owner = worker.uid
    BY <1>5 DEF Update, Owned, hasOwnerReference
  <2>2. ASSUME step.key = key PROVE Configured(new, i, c)
    <3>1. found \in Range(objects[step.key]) BY <1>1, <2>2, LogVersions DEF Logs, found
    <3>2. IsBody(found.body) BY <2>1, <2>2, <3>1 DEF Sound, RecordsSound, IsRecord
    <3>3. key.kind = "ConfigMap" BY InstancesAreSequences, ControllerAssumption, ConfigMapsApart
    <3>4. "spec" \in Fields BY DEF Fields
    <3>5. NewBody["spec"] = step.body["spec"] BY <2>2, <3>2, <3>3, <3>4, ConfigMapPolicy, Copied DEF NewBody
    <3> QED BY <2>1, <2>2, <3>5, AppliedConfig DEF Configured
  <2> HIDE DEF new
  <2> QED BY <1>3, <2>1, <2>2
<1>6. ASSUME NEW k, NEW next, DeleteOne(k, next) PROVE Reconfigured(key, i, c)
  BY <1>2, <1>3, <1>6 DEF DeleteOne
<1>7. CASE DeleteNextListed BY <1>6, <1>7 DEF DeleteNextListed
<1>8. CASE DeleteByName BY <1>2, <1>6, <1>8 DEF DeleteByName
<1> QED BY <1>2, <1>4, <1>5, <1>7, <1>8
    DEF Worker, Finish, AlreadyExists, LeaveForeign, LeaveEqual, UpdateRefused, LookUpMonitorAPI,
        MonitorsGone, ListByLabel, ListUnwantedMonitors, ListOwnedByName, AllListedDeleted

LEMMA ConfigMapNext ==
  ASSUME ConfigMapsAreOurs, Sound, [Next]_vars,
         NEW i \in Instances, NEW c \in Functions5G, ConfigMapKey(i, c) \in Keys
  PROVE  Reconfigured(ConfigMapKey(i, c), i, c)
<1>1. ConfigMapKey(i, c).kind = "ConfigMap"
  BY InstancesAreSequences, ControllerAssumption, ConfigMapsApart
<1>2. CASE Worker BY <1>2, WorkerConfigures
<1>3. CASE Owners \/ Manager \/ Outside \/ UNCHANGED objects
  BY <1>1, <1>3, OthersAlter DEF Altered, Reconfigured
<1> QED BY <1>2, <1>3 DEF Next, vars, RequestFails, LookUpFails

\* Every version that is new is of the UID of one that there was, or of that of the pass.
LEMMA ConfigMapOwners ==
  ASSUME ConfigMapsAreOurs, Sound, Logs', [Next]_vars, NEW i \in Instances, NEW uid, OwnedBy(uid, i),
         NEW c \in Functions5G, ConfigMapKey(i, c) \in Keys,
         NEW object \in VersionsOf(objects'[ConfigMapKey(i, c)])
  PROVE  object.owner = uid
<1> DEFINE log == objects[ConfigMapKey(i, c)]
           new == objects'[ConfigMapKey(i, c)]
<1>1. IsLog(log) /\ IsLog(new) BY SoundLogs DEF Logs
<1>2. PICK n \in 1..Len(new) : object = new[n] BY <1>1, LogVersions DEF VersionsOf, Range
<1>3. PICK x : /\ x = NoObject \/ Tampered(x, Current(log)) \/ Configured(x, i, c)
               /\ Continues(log, new, x)
  BY ConfigMapNext DEF Reconfigured
<1>4. object # NoObject /\ (object = x \/ \E p \in 1..Len(log) : object = log[p])
  BY <1>2, <1>3 DEF Continues, VersionsOf
<1>5. \A p \in 1..Len(log) : log[p] \in Range(log) BY <1>1, LogVersions DEF Range
<1>6. \A version \in VersionsOf(log) : version.owner = uid BY DEF OwnedBy
<1>7. CASE object = x
  <2>1. CASE Tampered(x, Current(log))
    <3>1. Current(log) \in VersionsOf(log) BY <1>1, <2>1, LogVersions DEF VersionsOf, Tampered
    <3> QED BY <1>6, <1>7, <2>1, <3>1 DEF Tampered
  <2>2. CASE Configured(x, i, c) BY <1>7, <2>2 DEF Configured, OwnedBy
  <2> QED BY <1>3, <1>4, <1>7, <2>1, <2>2
<1>8. CASE \E p \in 1..Len(log) : object = log[p] BY <1>4, <1>5, <1>6, <1>8 DEF VersionsOf
<1> QED BY <1>4, <1>7, <1>8

-------------------------------------------------------------------------------
(* What one step may do to the resources, if nothing comes back. *)

EditedForward(Age, i, object) ==
  /\ Exists(i) /\ object.uid = Current(cr[i]).uid
  /\ \A c \in Functions5G :
       Age[i][c][Asked(Current(cr[i]).version, c)] <= Age[i][c][Asked(object.version, c)]
ResourceWritten(Age, i) ==
  \E object \in CR \cup {NoObject} :
    /\ cr' = [cr EXCEPT ![i] = Append(@, object)]
    /\ object = NoObject \/ (object \in CR /\ (EditedForward(Age, i, object) \/ Unused(i)))
ResourceNext(Age, i) ==
  /\ UNCHANGED <<objects, worker>>
  /\ \/ ~Fresh(cr[i]) /\ cr' = [cr EXCEPT ![i] = Tail(@)]
     \/ ResourceWritten(Age, i)

LEMMA ResourcesNext ==
  ASSUME Sound, [Next]_vars, NEW Age, NothingComesBack(Age)
  PROVE  UNCHANGED cr \/ \E i \in Instances : ResourceNext(Age, i)
<1>1. ASSUME NEW i \in Instances, NEW v \in Versions, CreateOpen5GS(i, v) PROVE ResourceNext(Age, i)
  <2> DEFINE object == [uid |-> used["create"] + 1, version |-> v]
  <2>1. object \in CR BY <1>1, CreatedUID DEF CreateOpen5GS, CR
  <2>2. cr' = [cr EXCEPT ![i] = Append(@, object)] /\ UNCHANGED <<objects, worker>>
    BY <1>1 DEF CreateOpen5GS, WriteCR
  <2>3. Unused(i) BY <1>1 DEF NothingComesBack
  <2> HIDE DEF object
  <2> QED BY <2>1, <2>2, <2>3 DEF ResourceNext, ResourceWritten
<1>2. ASSUME NEW i \in Instances, NEW v \in Versions, EditOpen5GS(i, v) PROVE ResourceNext(Age, i)
  <2> DEFINE object == [uid |-> Current(cr[i]).uid, version |-> v]
  <2>1. Current(cr[i]) \in CR
    BY <1>2, SoundFacts, CRsAreLogs, LogVersions DEF EditOpen5GS, Exists
  <2>2. object \in CR /\ object.uid = Current(cr[i]).uid /\ object.version = v BY <2>1 DEF CR
  <2>3. cr' = [cr EXCEPT ![i] = Append(@, object)] /\ UNCHANGED <<objects, worker>> /\ Exists(i)
    BY <1>2 DEF EditOpen5GS, WriteCR
  <2> HIDE DEF object
  <2>4. EditedForward(Age, i, object) BY <1>2, <2>2, <2>3 DEF NothingComesBack, EditedForward
  <2> QED BY <2>2, <2>3, <2>4 DEF ResourceNext, ResourceWritten
<1>3. ASSUME NEW i \in Instances, DeleteOpen5GS(i) PROVE ResourceNext(Age, i)
  BY <1>3 DEF DeleteOpen5GS, WriteCR, ResourceNext, ResourceWritten
<1>4. ASSUME NEW i \in Instances, SyncOpen5GS(i) PROVE ResourceNext(Age, i)
  BY <1>4 DEF SyncOpen5GS, ResourceNext
<1>5. CASE Owners BY <1>1, <1>2, <1>3, <1>5 DEF Owners
<1>6. CASE Manager BY <1>4, <1>6 DEF Manager, Restart, Start, StartGone, SyncObject
<1>7. CASE Worker \/ RequestFails \/ LookUpFails
  BY <1>7, WorkerMoves, FailuresMove DEF GoesOn, PassEnds
<1>8. CASE Outside
  BY <1>8
  DEF Outside, CollectGarbage, ExternalDelete, Drift, CreateForeign, InstallMonitorCRD, UninstallMonitorCRD
<1> QED BY <1>5, <1>6, <1>7, <1>8 DEF Next, vars

LEMMA OneOwnerStays ==
  ASSUME ConfigMapsAreOurs, Sound, Logs', OneOwner, [Next]_vars, NEW Age, NothingComesBack(Age)
  PROVE  OneOwner'
<1> SUFFICES ASSUME NEW i \in Instances PROVE \E uid : OwnedBy(uid, i)' BY DEF OneOwner
<1>1. PICK uid : OwnedBy(uid, i) BY DEF OneOwner
<1>2. CRsSound /\ \A j \in Instances : IsLog(cr[j]) /\ cr[j] \in Seq(CR \cup {NoObject})
  BY SoundFacts, CRsAreLogs DEF CRsSound
<1>3. CASE UNCHANGED cr
  <2>1. ASSUME WorksFor(i)' PROVE worker'.uid = uid
    <3>1. CASE WorksFor(i) /\ worker'.uid = worker.uid BY <1>1, <3>1 DEF OwnedBy
    <3>2. CASE UNCHANGED worker BY <2>1, <3>1, <3>2 DEF WorksFor, InPass
    <3>3. ASSUME NEW j \in Instances, Start(j) PROVE worker'.uid = uid
      <4>1. /\ worker'.instance = j /\ worker'.uid = Cached(cr[j]).uid
            /\ Cached(cr[j]).uid \in UidsOf(cr[j])
        BY <3>3, UidFacts DEF Start
      <4>2. j = i BY <2>1, <4>1 DEF WorksFor
      <4> QED BY <1>1, <4>1, <4>2 DEF OwnedBy
    <3>4. CASE worker' = Idle BY <2>1, <3>4 DEF WorksFor, InPass, Idle
    <3>5. CASE GoesOn BY <2>1, <3>1, <3>5 DEF GoesOn, PassAt, WorksFor
    <3> QED BY <3>2, <3>3, <3>4, <3>5, NextMoves
  <2>2. \A c \in Functions5G : ConfigMapKey(i, c) \in Keys =>
          \A object \in VersionsOf(objects'[ConfigMapKey(i, c)]) : object.owner = uid
    BY <1>1, ConfigMapOwners
  <2> QED BY <1>1, <1>3, <2>1, <2>2 DEF OwnedBy
<1>4. ASSUME NEW j \in Instances, ResourceNext(Age, j) PROVE \E owner : OwnedBy(owner, i)'
  <2>1. UNCHANGED <<objects, worker>> BY <1>4 DEF ResourceNext
  <2>2. ASSUME NEW owner, OwnedBy(owner, i), UidsOf(cr'[i]) \subseteq {owner} PROVE OwnedBy(owner, i)'
    BY <2>1, <2>2 DEF OwnedBy, WorksFor, InPass
  <2>3. CASE UidsOf(cr'[i]) \subseteq UidsOf(cr[i]) BY <1>1, <2>2, <2>3 DEF OwnedBy
  <2>4. CASE j # i
    <3>1. cr'[i] = cr[i] BY <1>2, <1>4, <2>4 DEF ResourceNext, ResourceWritten, CRsSound
    <3> QED BY <2>3, <3>1
  <2>5. CASE j = i /\ cr' = [cr EXCEPT ![i] = Tail(@)]
    <3>1. cr'[i] = Tail(cr[i]) BY <1>2, <2>5 DEF CRsSound
    <3> QED BY <1>2, <2>3, <3>1, TailUids
  <2>6. ASSUME j = i, NEW object \in CR \cup {NoObject}, cr' = [cr EXCEPT ![i] = Append(@, object)],
               object = NoObject \/ (object \in CR /\ (EditedForward(Age, i, object) \/ Unused(i)))
        PROVE  \E owner : OwnedBy(owner, i)'
    <3>1. cr'[i] = Append(cr[i], object) BY <1>2, <2>6 DEF CRsSound
    <3>2. \A u \in UidsOf(cr'[i]) : u \in UidsOf(cr[i]) \/ (object # NoObject /\ u = object.uid)
      BY <1>2, <3>1, AppendedUids
    <3>3. CASE object = NoObject BY <2>3, <3>2, <3>3
    <3>4. CASE EditedForward(Age, i, object)
      <4>1. object.uid \in UidsOf(cr[i]) BY <3>4, UidFacts DEF EditedForward
      <4> QED BY <2>3, <3>2, <4>1
    <3>5. CASE Unused(i)
      <4>1. VersionsOf(<<NoObject>>) = {} /\ UidsOf(<<NoObject>>) = {}
        BY SingletonVersions DEF VersionsOf, UidsOf
      <4>2. UidsOf(cr[i]) = {} BY <3>5, <4>1 DEF Unused
      <4>3. \A c \in Functions5G : ConfigMapKey(i, c) \in Keys =>
              VersionsOf(objects[ConfigMapKey(i, c)]) = {}
        BY <3>5, <4>1 DEF Unused
      <4>4. OwnedBy(object.uid, i) BY <3>5, <4>2, <4>3 DEF OwnedBy, Unused
      <4> QED BY <2>2, <3>2, <4>2, <4>4
    <3> QED BY <2>6, <3>3, <3>4, <3>5
  <2> QED BY <1>4, <2>4, <2>5, <2>6 DEF ResourceNext, ResourceWritten
<1> QED BY <1>3, <1>4, ResourcesNext

-------------------------------------------------------------------------------
(* The order of the configurations is kept. *)

LEMMA AgesCompose ==
  ASSUME NEW age, Numbering(age), NEW x \in Configurations, NEW y \in Configurations,
         NEW z \in Configurations, age[x] <= age[y], age[y] <= age[z]
  PROVE  age[x] <= age[z]
<1>1. age[x] \in Nat /\ age[y] \in Nat /\ age[z] \in Nat BY DEF Numbering
<1> QED BY <1>1

LEMMA AskedConfigurations ==
  ASSUME Sound, NEW i \in Instances, NEW c \in Functions5G
  PROVE  /\ \A resource \in CR : Asked(resource.version, c) \in Configurations
         /\ \A resource \in VersionsOf(cr[i]) : Asked(resource.version, c) \in Configurations
         /\ WorksFor(i) => Asked(worker.version, c) \in Configurations
<1>1. \A v \in Versions : Asked(v, c) \in Configurations BY DEF Configurations
<1>2. \A resource \in VersionsOf(cr[i]) : resource \in CR BY SoundFacts, CRsAreLogs DEF VersionsOf
<1>3. WorksFor(i) => worker.version \in Versions BY DEF WorksFor, Sound, TypeOK, PassType
<1> QED BY <1>1, <1>2, <1>3 DEF CR

LEMMA OldestAndNewest ==
  ASSUME Sound, NEW age, Numbering(age), NEW i \in Instances, NEW c \in Functions5G,
         ResourceAged(age, i, c), NEW resource \in VersionsOf(cr[i])
  PROVE  /\ Cached(cr[i]) # NoObject =>
              age[Asked(Cached(cr[i]).version, c)] <= age[Asked(resource.version, c)]
         /\ Exists(i) => age[Asked(resource.version, c)] <= age[Asked(Current(cr[i]).version, c)]
<1>1. IsLog(cr[i]) BY SoundFacts, CRsAreLogs
<1>2. /\ Len(cr[i]) \in Nat /\ Len(cr[i]) > 0 /\ DOMAIN cr[i] = 1..Len(cr[i])
      /\ Cached(cr[i]) = cr[i][1]
  BY <1>1, LogVersions
<1>3. PICK n \in 1..Len(cr[i]) : resource = cr[i][n] BY <1>2 DEF VersionsOf, Range
<1>4. 1 \in 1..Len(cr[i]) /\ Len(cr[i]) \in 1..Len(cr[i]) /\ n \in Nat
      /\ (n = 1 \/ 1 < n) /\ (n = Len(cr[i]) \/ n < Len(cr[i]))
  BY <1>2
<1>5. age[Asked(resource.version, c)] \in Nat BY AskedConfigurations DEF Numbering
<1>6. age[Asked(resource.version, c)] <= age[Asked(resource.version, c)] BY <1>5
<1>7. resource # NoObject BY DEF VersionsOf
<1>8. Cached(cr[i]) # NoObject => age[Asked(Cached(cr[i]).version, c)] <= age[Asked(resource.version, c)]
  BY <1>2, <1>3, <1>4, <1>6, <1>7 DEF ResourceAged
<1>9. Exists(i) => age[Asked(resource.version, c)] <= age[Asked(Current(cr[i]).version, c)]
  BY <1>3, <1>4, <1>6, <1>7 DEF ResourceAged, Exists, Current
<1> QED BY <1>8, <1>9

\* What is written after the versions there are of a resource.
Forward(age, i, c, object) ==
  object = NoObject \/ (object \in CR /\
    \/ Unused(i)
    \/ Exists(i) /\ age[Asked(Current(cr[i]).version, c)] <= age[Asked(object.version, c)])

LEMMA ResourceForward ==
  ASSUME Sound, [Next]_vars, NEW Age, NothingComesBack(Age), NEW i \in Instances, NEW c \in Functions5G
  PROVE  \/ UNCHANGED cr
         \/ /\ UNCHANGED <<objects, worker>>
            /\ \E object : Continues(cr[i], cr'[i], object) /\ Forward(Age[i][c], i, c, object)
<1> SUFFICES ASSUME NEW j \in Instances, ResourceNext(Age, j)
             PROVE  \E object : Continues(cr[i], cr'[i], object) /\ Forward(Age[i][c], i, c, object)
  BY ResourcesNext DEF ResourceNext
<1>1. CRsSound /\ IsLog(cr[i]) BY SoundFacts, CRsAreLogs
<1>2. Forward(Age[i][c], i, c, NoObject) BY DEF Forward
<1>3. CASE cr'[i] = cr[i] BY <1>1, <1>2, <1>3, TailContinues
<1>4. CASE j # i BY <1>1, <1>3, <1>4 DEF ResourceNext, ResourceWritten, CRsSound
<1>5. CASE j = i /\ cr' = [cr EXCEPT ![i] = Tail(@)]
  <2>1. cr'[i] = Tail(cr[i]) BY <1>1, <1>5 DEF CRsSound
  <2> QED BY <1>1, <1>2, <2>1, TailContinues
<1>6. CASE j = i /\ ResourceWritten(Age, i)
  <2>1. PICK object \in CR \cup {NoObject} :
          /\ cr' = [cr EXCEPT ![i] = Append(@, object)]
          /\ object = NoObject \/ (object \in CR /\ (EditedForward(Age, i, object) \/ Unused(i)))
    BY <1>6 DEF ResourceWritten
  <2>2. cr'[i] = Append(cr[i], object) BY <1>1, <2>1 DEF CRsSound
  <2>3. Forward(Age[i][c], i, c, object) BY <2>1 DEF Forward, EditedForward
  <2> QED BY <1>1, <2>2, <2>3, GrownContinues
<1> QED BY <1>4, <1>5, <1>6 DEF ResourceNext

\* A pass is of the version it was of, or begins with the version in the cache.
LEMMA PassNext ==
  ASSUME Sound, [Next]_vars, NEW i \in Instances, WorksFor(i)'
  PROVE  \/ WorksFor(i) /\ worker'.version = worker.version
         \/ /\ UNCHANGED cr /\ Cached(cr[i]) \in VersionsOf(cr[i])
            /\ worker'.version = Cached(cr[i]).version
<1>1. CASE UNCHANGED worker BY <1>1 DEF WorksFor, InPass
<1>2. ASSUME UNCHANGED cr, NEW j \in Instances, Start(j)
      PROVE  Cached(cr[i]) \in VersionsOf(cr[i]) /\ worker'.version = Cached(cr[i]).version
  <2>1. /\ worker'.instance = j /\ worker'.version = Cached(cr[j]).version
        /\ Cached(cr[j]) # NoObject
    BY <1>2 DEF Start
  <2>2. Cached(cr[j]) \in VersionsOf(cr[j]) BY <2>1, SoundFacts, CRsAreLogs, LogVersions DEF VersionsOf
  <2>3. j = i BY <2>1 DEF WorksFor
  <2> QED BY <2>1, <2>2, <2>3
<1>3. CASE worker' = Idle BY <1>3 DEF WorksFor, InPass, Idle
<1>4. CASE GoesOn BY <1>4 DEF GoesOn, PassAt, WorksFor
<1> QED BY <1>1, <1>2, <1>3, <1>4, NextMoves

LEMMA ResourceAgedStays ==
  ASSUME Sound, [Next]_vars, NEW Age, NothingComesBack(Age), NEW i \in Instances, NEW c \in Functions5G,
         Numbering(Age[i][c]), ResourceAged(Age[i][c], i, c)
  PROVE  ResourceAged(Age[i][c], i, c)'
<1> DEFINE age == Age[i][c]
           Asks(resource) == age[Asked(resource.version, c)]
<1>1. Numbering(age) /\ ResourceAged(age, i, c) OBVIOUS
<1>2. IsLog(cr[i]) /\ Range(cr[i]) \subseteq CR \cup {NoObject} BY SoundFacts, CRsAreLogs
<1>3. DOMAIN cr[i] = 1..Len(cr[i]) BY <1>2, LogVersions
<1> HIDE DEF age
<1>4. CASE UNCHANGED cr
  <2>1. ASSUME WorksFor(i)', NEW resource \in VersionsOf(cr[i])
        PROVE  age[Asked(worker'.version, c)] <= Asks(resource)
    <3>1. CASE WorksFor(i) /\ worker'.version = worker.version BY <1>1, <2>1, <3>1 DEF ResourceAged
    <3>2. CASE Cached(cr[i]) \in VersionsOf(cr[i]) /\ worker'.version = Cached(cr[i]).version
      BY <1>1, <2>1, <3>2, OldestAndNewest DEF VersionsOf
    <3> QED BY <2>1, <3>1, <3>2, PassNext
  <2>2. ResourceAged(age, i, c)' BY <1>1, <1>4, <2>1 DEF ResourceAged
  <2> QED BY <2>2 DEF age
<1>5. ASSUME UNCHANGED worker, NEW object, Continues(cr[i], cr'[i], object), Forward(age, i, c, object)
      PROVE  ResourceAged(age, i, c)'
  <2>1. \A p \in 1..Len(cr[i]) : cr[i][p] # NoObject => cr[i][p] \in VersionsOf(cr[i])
    BY <1>3 DEF VersionsOf, Range
  <2>2. ASSUME NEW resource \in VersionsOf(cr[i]), object # NoObject PROVE Asks(resource) <= Asks(object)
    <3>1. object \in CR /\ ~Unused(i)
      <4>1. VersionsOf(<<NoObject>>) = {} BY SingletonVersions DEF VersionsOf
      <4> QED BY <1>5, <2>2, <4>1 DEF Forward, Unused
    <3>2. Exists(i) /\ Asks(Current(cr[i])) <= Asks(object) BY <1>5, <2>2, <3>1 DEF Forward
    <3>3. Current(cr[i]) \in VersionsOf(cr[i]) BY <1>2, <3>2, LogVersions DEF VersionsOf, Exists
    <3>4. Asks(resource) <= Asks(Current(cr[i])) BY <1>1, <2>2, <3>2, OldestAndNewest
    <3>5. /\ Asked(resource.version, c) \in Configurations /\ Asked(object.version, c) \in Configurations
          /\ Asked(Current(cr[i]).version, c) \in Configurations
      BY <2>2, <3>1, <3>3, AskedConfigurations
    <3> QED BY <1>1, <3>2, <3>4, <3>5, AgesCompose
  <2>3. ASSUME NEW m \in 1..Len(cr'[i]), NEW n \in 1..Len(cr'[i]), m < n,
               cr'[i][m] # NoObject, cr'[i][n] # NoObject
        PROVE  Asks(cr'[i][m]) <= Asks(cr'[i][n])
    <3>1. PICK p \in 1..Len(cr[i]) :
            /\ cr'[i][m] = cr[i][p]
            /\ cr'[i][n] = object \/ \E q \in 1..Len(cr[i]) : p < q /\ cr'[i][n] = cr[i][q]
      BY <1>5, <2>3 DEF Continues
    <3>2. CASE cr'[i][n] = object BY <2>1, <2>2, <2>3, <3>1, <3>2
    <3>3. CASE \E q \in 1..Len(cr[i]) : p < q /\ cr'[i][n] = cr[i][q]
      BY <1>1, <2>3, <3>1, <3>3 DEF ResourceAged
    <3> QED BY <3>1, <3>2, <3>3
  <2>4. ASSUME WorksFor(i), NEW resource \in VersionsOf(cr'[i])
        PROVE  age[Asked(worker.version, c)] <= Asks(resource)
    <3>1. IsLog(cr'[i])
      BY CRsStay, CRsAreLogs DEF CRsSound, IsLog
    <3>2. PICK n \in 1..Len(cr'[i]) : resource = cr'[i][n] /\ resource # NoObject
      BY <2>4, <3>1, LogVersions DEF VersionsOf, Range
    <3>3. CASE resource \in VersionsOf(cr[i]) BY <1>1, <2>4, <3>3 DEF ResourceAged
    <3>4. CASE resource = object
      <4>1. object \in CR /\ Exists(i) /\ Asks(Current(cr[i])) <= Asks(object)
        BY <1>5, <2>4, <3>2, <3>4 DEF Forward, Unused
      <4>2. Current(cr[i]) \in VersionsOf(cr[i]) BY <1>2, <4>1, LogVersions DEF VersionsOf, Exists
      <4>3. age[Asked(worker.version, c)] <= Asks(Current(cr[i])) BY <1>1, <2>4, <4>2 DEF ResourceAged
      <4>4. /\ Asked(worker.version, c) \in Configurations /\ Asked(object.version, c) \in Configurations
            /\ Asked(Current(cr[i]).version, c) \in Configurations
        BY <2>4, <4>1, <4>2, AskedConfigurations
      <4> QED BY <1>1, <3>4, <4>1, <4>3, <4>4, AgesCompose
    <3> QED BY <1>5, <2>1, <3>2, <3>3, <3>4 DEF Continues
  <2> QED BY <1>5, <2>3, <2>4 DEF ResourceAged, WorksFor, InPass
<1>6. CASE ~UNCHANGED cr
  <2>1. UNCHANGED worker /\ \E object : Continues(cr[i], cr'[i], object) /\ Forward(age, i, c, object)
    BY <1>6, ResourceForward DEF age
  <2> QED BY <1>5, <2>1 DEF age
<1> QED BY <1>4, <1>6

\* A configuration that is not less than the ConfigMap's, nor more than what is asked for.
AgesInOrder(age, i, c, spec) ==
  /\ spec \in Configurations
  /\ WorksFor(i) => age[spec] <= age[Asked(worker.version, c)]
  /\ \A resource \in VersionsOf(cr[i]) : age[spec] <= age[Asked(resource.version, c)]

LEMMA NewConfigInOrder ==
  ASSUME Sound, NEW age, Numbering(age), NEW i \in Instances, NEW c \in Functions5G,
         ConfigMapKey(i, c) \in Keys, ResourceAged(age, i, c), ConfigMapAged(age, i, c),
         NEW object, IsConfig(object),
         \/ object = NoObject \/ Tampered(object, Current(objects[ConfigMapKey(i, c)]))
         \/ Configured(object, i, c)
  PROVE  /\ AgesInOrder(age, i, c, object.body.spec)
         /\ \A n \in 1..Len(objects[ConfigMapKey(i, c)]) :
              IsConfig(objects[ConfigMapKey(i, c)][n]) =>
                age[objects[ConfigMapKey(i, c)][n].body.spec] <= age[object.body.spec]
<1> DEFINE log == objects[ConfigMapKey(i, c)]
           last == Current(log)
<1>1. IsLog(log) BY SoundLogs DEF Logs
<1>2. Len(log) \in Nat /\ Len(log) \in 1..Len(log) /\ \A n \in 1..Len(log) : n = Len(log) \/ n < Len(log)
  BY <1>1, LogVersions
<1>3. \A x \in Configurations : age[x] <= age[x] BY DEF Numbering
<1>4. CASE Tampered(object, last)
  <2>1. IsConfig(last) /\ object.body.spec = last.body.spec BY <1>4 DEF Tampered, IsConfig
  <2>2. AgesInOrder(age, i, c, last.body.spec) BY <1>2, <2>1 DEF ConfigMapAged, AgesInOrder, Current
  <2>3. ASSUME NEW n \in 1..Len(log), IsConfig(log[n]) PROVE age[log[n].body.spec] <= age[last.body.spec]
    <3>1. CASE n = Len(log) BY <1>3, <2>2, <3>1 DEF AgesInOrder, Current
    <3>2. CASE n < Len(log) BY <1>2, <2>1, <2>3, <3>2 DEF ConfigMapAged, Current
    <3> QED BY <1>2, <3>1, <3>2
  <2> QED BY <2>1, <2>2, <2>3
<1>5. CASE Configured(object, i, c)
  <2>1. WorksFor(i) /\ object.body.spec = Asked(worker.version, c) BY <1>5 DEF Configured
  <2>2. AgesInOrder(age, i, c, object.body.spec)
    BY <1>3, <2>1, AskedConfigurations DEF AgesInOrder, ResourceAged
  <2> QED BY <2>1, <2>2 DEF ConfigMapAged
<1> QED BY <1>4, <1>5 DEF IsConfig

LEMMA ConfigMapAgedStays ==
  ASSUME ConfigMapsAreOurs, Sound, [Next]_vars, NEW Age, NothingComesBack(Age),
         NEW i \in Instances, NEW c \in Functions5G, Numbering(Age[i][c]),
         ConfigMapKey(i, c) \in Keys, ResourceAged(Age[i][c], i, c), ConfigMapAged(Age[i][c], i, c)
  PROVE  ConfigMapAged(Age[i][c], i, c)'
<1> DEFINE age == Age[i][c]
           log == objects[ConfigMapKey(i, c)]
           new == objects'[ConfigMapKey(i, c)]
<1>1. Numbering(age) /\ ResourceAged(age, i, c) /\ ConfigMapAged(age, i, c) OBVIOUS
<1>2. CASE UNCHANGED cr
  <2>1. PICK x : /\ x = NoObject \/ Tampered(x, Current(log)) \/ Configured(x, i, c)
                 /\ Continues(log, new, x)
    BY ConfigMapNext DEF Reconfigured
  <2> HIDE DEF age, log, new
  <2>2. IsConfig(x) => /\ AgesInOrder(age, i, c, x.body.spec)
                       /\ \A n \in 1..Len(log) : IsConfig(log[n]) => age[log[n].body.spec] <= age[x.body.spec]
    BY <1>1, <2>1, NewConfigInOrder DEF log
  <2>3. /\ \A n \in 1..Len(log) : IsConfig(log[n]) => AgesInOrder(age, i, c, log[n].body.spec)
        /\ \A m, n \in 1..Len(log) :
             m < n /\ IsConfig(log[m]) /\ IsConfig(log[n]) => age[log[m].body.spec] <= age[log[n].body.spec]
    BY <1>1 DEF ConfigMapAged, AgesInOrder, log
  <2>4. ASSUME NEW n \in 1..Len(new), IsConfig(new[n]) PROVE AgesInOrder(age, i, c, new[n].body.spec)
    BY <2>1, <2>2, <2>3, <2>4 DEF Continues
  <2>5. ASSUME NEW m \in 1..Len(new), NEW n \in 1..Len(new), m < n, IsConfig(new[m]), IsConfig(new[n])
        PROVE  age[new[m].body.spec] <= age[new[n].body.spec]
    <3>1. PICK p \in 1..Len(log) :
            /\ new[m] = log[p]
            /\ new[n] = x \/ \E q \in 1..Len(log) : p < q /\ new[n] = log[q]
      BY <2>1, <2>5 DEF Continues
    <3> QED BY <2>2, <2>3, <2>5, <3>1
  <2>6. ASSUME NEW spec, AgesInOrder(age, i, c, spec)
        PROVE  /\ spec \in Configurations
               /\ WorksFor(i)' => age[spec] <= age[Asked(worker'.version, c)]
               /\ \A resource \in VersionsOf(cr'[i]) : age[spec] <= age[Asked(resource.version, c)]
    BY <1>2, <2>6, PassNext DEF AgesInOrder
  <2>7. ConfigMapAged(age, i, c)' BY <2>4, <2>5, <2>6 DEF ConfigMapAged, IsConfig, new
  <2> QED BY <2>7 DEF age
<1>3. ASSUME UNCHANGED <<objects, worker>>,
             NEW object, Continues(cr[i], cr'[i], object), Forward(age, i, c, object)
      PROVE  ConfigMapAged(age, i, c)'
  <2> HIDE DEF age
  <2>1. IsLog(cr[i]) /\ IsLog(cr'[i]) BY SoundFacts, CRsStay, CRsAreLogs DEF CRsSound, IsLog
  <2>2. ASSUME NEW resource \in VersionsOf(cr'[i])
        PROVE  resource \in VersionsOf(cr[i]) \/ (resource = object /\ object \in CR)
    <3>1. PICK n \in 1..Len(cr'[i]) : resource = cr'[i][n] /\ resource # NoObject
      BY <2>1, LogVersions DEF VersionsOf, Range
    <3>2. \A p \in 1..Len(cr[i]) : cr[i][p] \in Range(cr[i]) BY <2>1, LogVersions DEF Range
    <3> QED BY <1>3, <3>1, <3>2 DEF Continues, Forward, VersionsOf
  <2>3. ASSUME NEW n \in 1..Len(log), IsConfig(log[n]), NEW resource \in VersionsOf(cr'[i])
        PROVE  age[log[n].body.spec] <= age[Asked(resource.version, c)]
    <3>1. CASE resource \in VersionsOf(cr[i]) BY <1>1, <2>3, <3>1 DEF ConfigMapAged
    <3>2. CASE resource = object /\ object \in CR /\ Unused(i)
      <4>1. Len(<<NoObject>>) = 1 /\ <<NoObject>>[1] = NoObject OBVIOUS
      <4>2. log = <<NoObject>> BY <3>2 DEF Unused
      <4>3. ~IsConfig(log[n]) BY <4>1, <4>2 DEF IsConfig
      <4> QED BY <2>3, <4>3
    <3>3. CASE /\ resource = object /\ object \in CR /\ Exists(i)
               /\ age[Asked(Current(cr[i]).version, c)] <= age[Asked(object.version, c)]
      <4>1. Current(cr[i]) \in VersionsOf(cr[i]) BY <2>1, <3>3, LogVersions DEF VersionsOf, Exists
      <4>2. /\ age[log[n].body.spec] <= age[Asked(Current(cr[i]).version, c)]
            /\ log[n].body.spec \in Configurations
        BY <1>1, <2>3, <4>1 DEF ConfigMapAged
      <4>3. /\ Asked(Current(cr[i]).version, c) \in Configurations
            /\ Asked(object.version, c) \in Configurations
        BY <3>3, <4>1, AskedConfigurations
      <4> QED BY <1>1, <3>3, <4>2, <4>3, AgesCompose
    <3>4. (resource = object /\ object \in CR /\ object # NoObject) \/ resource \in VersionsOf(cr[i])
      BY <2>2, <2>3 DEF VersionsOf
    <3> QED BY <1>3, <3>1, <3>2, <3>3, <3>4 DEF Forward
  <2> QED BY <1>1, <1>3, <2>3 DEF ConfigMapAged, WorksFor, InPass
<1>4. CASE ~UNCHANGED cr BY <1>3, <1>4, ResourceForward
<1> QED BY <1>2, <1>4

LEMMA AgedStays ==
  ASSUME ConfigMapsAreOurs, Sound, [Next]_vars, NEW Age, Numberings(Age), NothingComesBack(Age), Aged(Age)
  PROVE  Aged(Age)'
<1> SUFFICES ASSUME NEW i \in Instances, NEW c \in Functions5G
             PROVE  /\ ResourceAged(Age[i][c], i, c)'
                    /\ ConfigMapKey(i, c) \in Keys => ConfigMapAged(Age[i][c], i, c)'
  BY DEF Aged
<1>1. Numbering(Age[i][c]) /\ ResourceAged(Age[i][c], i, c) BY DEF Numberings, Aged
<1>2. ResourceAged(Age[i][c], i, c)' BY <1>1, ResourceAgedStays
<1>3. ASSUME ConfigMapKey(i, c) \in Keys PROVE ConfigMapAged(Age[i][c], i, c)'
  <2>1. ConfigMapAged(Age[i][c], i, c) BY <1>3 DEF Aged
  <2> QED BY <1>1, <1>3, <2>1, ConfigMapAgedStays
<1> QED BY <1>2, <1>3

-------------------------------------------------------------------------------
(* The call that applies a ConfigMap ends the pass, or the ConfigMap is as  *)
(* desired, though only an old version was looked at.                       *)

LEMMA ConfigMapApplied ==
  ASSUME Sound, OneOwner, NEW Age, Numberings(Age), Aged(Age),
         Worker \/ RequestFails \/ LookUpFails, worker' # Idle,
         NEW i \in Instances, NEW c \in Functions5G,
         InPass, worker.at \in DOMAIN plan, step.do = "apply", step.key = ConfigMapKey(i, c)
  PROVE  LET config == Current(objects'[step.key])
         IN  config # NoObject /\ config.owner = worker.uid => config.body.spec \in {step.body.spec, Changed}
<1>1. Logs BY SoundLogs
<1>2. Applying BY DEF Applying, Calling
<1>3. /\ WorksFor(i) /\ step.body.spec = Asked(worker.version, c) /\ step.key \in Keys
      /\ step.body.spec \in Configurations
  BY <1>2, AppliedConfig, AppliedKeys, AskedConfigurations
<1>4. step.key.kind = "ConfigMap" BY InstancesAreSequences, ControllerAssumption, ConfigMapsApart
<1>5. IsLog(objects[step.key]) /\ found \in Range(objects[step.key]) /\ current \in Range(objects[step.key])
  BY <1>1, <1>3, LogVersions DEF Logs, found, current
<1>6. "spec" \in Fields BY DEF Fields
<1>7. CASE Create
  <2>1. Current(objects'[step.key]) = [owner |-> worker.uid, body |-> step.body]
    BY <1>1, <1>3, <1>7, WriteFacts DEF Create
  <2> QED BY <2>1
<1>8. CASE LeaveEqual
  <2> DEFINE log == objects[step.key]
             age == Age[i][c]
  <2>1. found # NoObject /\ ~Drifted(step.key, worker.instance, found.body, step.body) /\ UNCHANGED objects
    BY <1>8 DEF LeaveEqual, Owned, HasDrift
  <2>2. found.body["spec"] = step.body["spec"]
    BY <1>4, <2>1, ConfigMapPolicy DEF Drifted
  <2>3. Numbering(age) /\ ConfigMapAged(age, i, c) BY <1>3 DEF Numberings, Aged
  <2>4. IsConfig(found) BY <1>3, <2>1, <2>2, <2>3 DEF IsConfig, Numbering
  <2>5. /\ Len(log) \in Nat /\ 1 \in 1..Len(log) /\ Len(log) \in 1..Len(log)
        /\ (Len(log) = 1 \/ 1 < Len(log)) /\ found = log[1] /\ current = log[Len(log)]
    <3>1. IsLog(log) BY <1>5
    <3>2. Len(log) \in Nat /\ Len(log) > 0 /\ Cached(log) = log[1] BY <3>1, LogVersions
    <3>3. \A n \in Nat : n > 0 => 1 \in 1..n /\ n \in 1..n /\ (n = 1 \/ 1 < n) OBVIOUS
    <3>4. found = log[1] /\ current = log[Len(log)] BY <3>2 DEF found, current, Current
    <3> HIDE DEF log
    <3> QED BY <3>2, <3>3, <3>4
  <2>6. IsConfig(current) => current.body.spec = step.body.spec
    <3> SUFFICES ASSUME IsConfig(current), Len(log) # 1 PROVE current.body.spec = step.body.spec
      BY <2>2, <2>5
    <3> HIDE DEF age
    <3>1. /\ age[found.body.spec] <= age[current.body.spec] /\ current.body.spec \in Configurations
          /\ age[current.body.spec] <= age[step.body.spec]
      BY <1>3, <2>3, <2>4, <2>5 DEF ConfigMapAged
    <3>2. age[current.body.spec] \in Nat /\ age[step.body.spec] \in Nat BY <1>3, <2>3, <3>1 DEF Numbering
    <3>3. age[current.body.spec] = age[step.body.spec] BY <2>2, <3>1, <3>2
    <3> QED BY <1>3, <2>3, <3>1, <3>3 DEF Numbering
  <2> QED BY <2>1, <2>6 DEF IsConfig, current
<1>9. CASE Update
  <2>1. found # NoObject /\ Write(step.key, [owner |-> found.owner, body |-> NewBody])
    BY <1>9 DEF Update, Owned
  <2>2. Current(objects'[step.key]) = [owner |-> found.owner, body |-> NewBody]
    BY <1>1, <1>3, <2>1, WriteFacts
  <2>3. IsBody(found.body) BY <1>3, <1>5, <2>1 DEF Sound, RecordsSound, IsRecord
  <2>4. NewBody["spec"] = step.body["spec"]
    BY <1>4, <1>6, <2>1, <2>3, ConfigMapPolicy, Copied DEF NewBody
  <2> QED BY <2>2, <2>4
<1>10. ~AlreadyExists BY DEF AlreadyExists, Fail, Requeue
<1>11. ~LeaveForeign
  <2> SUFFICES ASSUME found # NoObject PROVE found.owner = worker.uid
    BY DEF LeaveForeign, hasOwnerReference
  <2>1. found \in VersionsOf(objects[step.key]) BY <1>5 DEF VersionsOf
  <2> QED BY <1>3, <2>1 DEF OneOwner, OwnedBy
<1>12. ~UpdateRefused /\ ~RequestFails /\ ~Finish
  BY DEF UpdateRefused, RequestFails, Finish, Fail, Requeue
<1>13. /\ ~LookUpMonitorAPI /\ ~MonitorsGone /\ ~ListByLabel /\ ~ListUnwantedMonitors
       /\ ~ListOwnedByName /\ ~DeleteNextListed /\ ~AllListedDeleted /\ ~DeleteByName /\ ~LookUpFails
  BY DEF LookUpMonitorAPI, MonitorsGone, ListByLabel, ListUnwantedMonitors, ListOwnedByName,
         DeleteNextListed, AllListedDeleted, DeleteByName, LookUpFails, Calling
<1> QED BY <1>7, <1>8, <1>9, <1>10, <1>11, <1>12, <1>13 DEF Worker

LEMMA ConfiguredFunction ==
  ASSUME Sound, InPass, worker.at \in DOMAIN plan, step.do = "apply",
         NEW c \in Names, step.key = ConfigMapKey(worker.instance, c)
  PROVE  c \in Functions5G
<1> DEFINE i == worker.instance
           s == setDefaultValues(SpecOf[worker.version])
<1>1. i \in Instances /\ worker.at \in 1..Len(plan) BY PassHasPlan
<1>2. i \in Seq(STRING) /\ Functions5G \subseteq Names BY <1>1, InstancesAreSequences, ControllerAssumption
<1>3. worker.version \in Versions BY DEF Sound, TypeOK, PassType
<1>4. plan = Pass(s, i, Functions5G) BY <1>1, <1>3 DEF plan, PlanOf
<1>5. Configures(step, s, i, Functions5G) BY <1>1, <1>4, PassConfigures DEF AllConfigure, step
<1>6. /\ step.key.kind = "ConfigMap" /\ step.key # EntrypointKey(i)
      /\ \A d \in Functions5G : step.key = ConfigMapKey(i, d) => d = c
  BY <1>2, ConfigMapsApart
<1>7. step.do \in Applies BY DEF Applies
<1> QED BY <1>5, <1>6, <1>7 DEF Configures

LEMMA ConfigFirstStays ==
  ASSUME ConfigMapsAreOurs, Sound, OneOwner, NEW Age, Numberings(Age), Aged(Age), ConfigFirst, [Next]_vars
  PROVE  ConfigFirst'
<1> DEFINE config == Current(objects'[plan'[worker'.at - 1].key])
<1> SUFFICES ASSUME InPass', worker'.at \in DOMAIN plan', AppliesDeployment(step'),
                    config # NoObject, config.owner = worker'.uid
             PROVE  config.body.spec \in {step'.body.hash, Changed}
  BY DEF ConfigFirst
<1>1. CASE UNCHANGED worker /\ (Owners \/ Manager \/ Outside \/ UNCHANGED objects)
  <2> DEFINE before == plan[worker.at - 1]
             was == Current(objects[before.key])
  <2>1. InPass /\ plan' = plan /\ step' = step /\ worker'.at = worker.at /\ worker'.uid = worker.uid
    BY <1>1 DEF InPass, plan, step
  <2>2. worker.at \in DOMAIN plan /\ AppliesDeployment(step) BY <2>1
  <2>3. /\ Announces(before, step, worker.instance)
        /\ worker.instance \in Instances /\ worker.version \in Versions
        /\ worker.at - 1 \in 1..Len(plan) /\ DOMAIN plan = 1..Len(plan)
    <3>1. worker.at > 1 /\ Announces(before, step, worker.instance) BY <2>1, <2>2, CallFacts
    <3>2. worker.at - 1 \in 1..Len(plan) BY <2>1, <2>2, <3>1, PassHasPlan
    <3> QED BY <2>1, <3>1, <3>2, PassHasPlan DEF Sound, TypeOK, PassType
  <2>4. before.do \in Applies /\ before.key.kind = "ConfigMap"
    BY <2>3 DEF Announces, ConfigMapKey, Key, Applies
  <2>5. before.key \in Keys
    <3>1. before.key \in DesiredKeys(plan) BY <2>3, <2>4 DEF DesiredKeys, Desired
    <3>2. plan = PlanOf[worker.instance][worker.version] BY DEF plan
    <3>3. DesiredKeys(PlanOf[worker.instance][worker.version])
            \in {DesiredKeys(PlanOf[i][v]) : i \in Instances, v \in Versions}
      BY <2>3
    <3> HIDE DEF before
    <3> QED BY <3>1, <3>2, <3>3 DEF Keys
  <2>6. config = Current(objects'[before.key]) BY <2>1
  <2>7. was # NoObject /\ was.owner = worker.uid => was.body.spec \in {step.body.hash, Changed}
    BY <2>1, <2>2 DEF ConfigFirst
  <2> HIDE DEF before
  <2>8. Altered(before.key) BY <1>1, <2>4, <2>5, OthersAlter
  <2>9. config = was \/ Tampered(config, was) BY <2>6, <2>8 DEF Altered
  <2> HIDE DEF config, was
  <2> QED BY <2>1, <2>7, <2>9 DEF Tampered
<1>2. CASE worker' = Idle BY <1>2 DEF InPass, Idle
<1>3. ASSUME NEW i \in Instances, Start(i) PROVE FALSE
  <2>1. /\ worker'.instance = i /\ worker'.version = Cached(cr[i]).version /\ worker'.at = 1
    BY <1>3 DEF Start
  <2>2. worker'.version \in Versions
    <3>1. Cached(cr[i]) \in CR BY <1>3, SoundFacts, CRsAreLogs, LogVersions DEF Start
    <3> QED BY <2>1, <3>1 DEF CR
  <2>3. IsPlan(plan', i) BY <2>1, <2>2, PassPlan DEF plan, PlanOf
  <2>4. PICK S : plan' \in Seq(S) BY <2>3 DEF IsPlan, IsSequence
  <2>5. 1 \in 1..Len(plan') BY <2>1, <2>4
  <2>6. ~AppliesDeployment(plan'[1]) BY <2>3, <2>5 DEF IsPlan
  <2> QED BY <2>1, <2>6 DEF step
<1>4. CASE (Worker \/ RequestFails \/ LookUpFails) /\ worker' # Idle /\ GoesOn
  <2>1. InPass /\ worker.at \in DOMAIN plan BY <1>4 DEF GoesOn
  <2>2. PICK at \in {worker.at, worker.at + 1} :
          /\ worker'.at = at /\ worker'.instance = worker.instance /\ worker'.version = worker.version
          /\ worker'.uid = worker.uid
          /\ at = worker.at => step.do = "deleteListed"
    <3>1. worker.at \in Nat BY DEF Sound, IsPass
    <3> QED BY <1>4, <3>1 DEF GoesOn, PassAt
  <2>3. plan' = plan /\ step' = plan[at] BY <2>2 DEF plan, step
  <2>4. at = worker.at + 1
    <3>1. at = worker.at => step' = step BY <2>3 DEF step
    <3> QED BY <2>2, <3>1 DEF AppliesDeployment, Applies
  <2>5. IsPlan(plan, worker.instance) /\ at \in 1..Len(plan) /\ worker.at \in Nat
    BY <2>1, <2>2, <2>3, PassHasPlan
  <2>6. Announces(plan[at - 1], plan[at], worker.instance) /\ at - 1 = worker.at
    BY <2>3, <2>4, <2>5 DEF IsPlan
  <2>7. Announces(step, step', worker.instance) BY <2>3, <2>6 DEF step
  <2>8. PICK c \in Names : step'.key = Key("Deployment", worker.instance, c, <<>>)
                           /\ step.key = ConfigMapKey(worker.instance, c)
    BY <2>7 DEF Announces
  <2>9. step.do = "apply" /\ step.body.spec = step'.body.hash BY <2>7 DEF Announces
  <2>10. c \in Functions5G BY <2>1, <2>8, <2>9, ConfiguredFunction
  <2>11. plan'[worker'.at - 1].key = step.key BY <2>2, <2>3, <2>6 DEF step
  <2>12. config = Current(objects'[step.key]) BY <2>11
  <2> HIDE DEF config
  <2>13. worker.instance \in Instances BY <2>1, PassHasPlan
  <2> QED BY <1>4, <2>1, <2>2, <2>8, <2>9, <2>10, <2>12, <2>13, ConfigMapApplied
<1>5. CASE Worker \/ RequestFails \/ LookUpFails
  BY <1>2, <1>4, <1>5, WorkerMoves, FailuresMove DEF PassEnds, Requeue
<1>6. CASE Owners BY <1>1, <1>6 DEF Owners, CreateOpen5GS, EditOpen5GS, DeleteOpen5GS
<1>7. CASE Manager
  BY <1>1, <1>2, <1>3, <1>7 DEF Manager, Restart, SyncOpen5GS, StartGone, SyncObject
<1>8. CASE Outside
  BY <1>1, <1>8
  DEF Outside, CollectGarbage, ExternalDelete, Drift, CreateForeign, InstallMonitorCRD, UninstallMonitorCRD
<1>9. CASE UNCHANGED vars BY <1>1, <1>9 DEF vars
<1> QED BY <1>5, <1>6, <1>7, <1>8, <1>9 DEF Next

-------------------------------------------------------------------------------
\* An object that a pass leaves behind where it wrote has what its step copies.
LEMMA DeploymentWritten ==
  ASSUME Sound, [Next]_vars, NEW key \in Keys, ByWorker(key), Current(objects'[key]) # NoObject,
         key.kind = "Deployment"
  PROVE  /\ Applying /\ key = step.key
         /\ Current(objects'[key]).body.hash = step.body.hash
<1>1. Logs BY SoundLogs
<1>2. objects' # objects /\ worker' # worker BY DEF ByWorker
<1>3. Worker
  <2>1. ~Owners BY <1>2 DEF Owners, CreateOpen5GS, EditOpen5GS, DeleteOpen5GS
  <2>2. ~Manager BY <1>2 DEF Manager, Restart, SyncOpen5GS, Start, StartGone, SyncObject
  <2>3. ~RequestFails /\ ~LookUpFails BY <1>2 DEF RequestFails, LookUpFails
  <2>4. ~Outside
    BY <1>2
    DEF Outside, CollectGarbage, ExternalDelete, Drift, CreateForeign, InstallMonitorCRD, UninstallMonitorCRD
  <2> QED BY <1>2, <2>1, <2>2, <2>3, <2>4 DEF Next, vars
<1>4. ASSUME NEW k, NEW object, Write(k, object) PROVE key = k /\ Current(objects'[key]) = object
  BY <1>1, <1>4, WriteFacts DEF ByWorker
<1>5. ASSUME NEW k, NEW next, DeleteOne(k, next) PROVE FALSE
  BY <1>2, <1>4, <1>5 DEF DeleteOne
<1>6. CASE Create
  <2>1. key = step.key /\ Current(objects'[key]) = [owner |-> worker.uid, body |-> step.body]
    BY <1>4, <1>6 DEF Create
  <2> QED BY <1>6, <2>1 DEF Create
<1>7. CASE Update
  <2>1. /\ Applying /\ found # NoObject /\ key = step.key
        /\ Current(objects'[key]) = [owner |-> found.owner, body |-> NewBody]
    BY <1>4, <1>7 DEF Update, Owned
  <2>2. found \in Range(objects[key]) BY <1>1, <2>1, LogVersions DEF Logs, found
  <2>3. IsBody(found.body) BY <2>1, <2>2 DEF Sound, RecordsSound, IsRecord
  <2>4. "hash" \in Fields BY DEF Fields
  <2>5. NewBody["hash"] = step.body["hash"]
    BY <2>1, <2>3, <2>4, DeploymentPolicy, Copied DEF NewBody
  <2> QED BY <2>1, <2>5
<1>8. ~DeleteNextListed BY <1>5 DEF DeleteNextListed
<1>9. ~DeleteByName BY <1>2, <1>5 DEF DeleteByName
<1> QED BY <1>2, <1>3, <1>6, <1>7, <1>8, <1>9
    DEF Worker, Finish, AlreadyExists, LeaveForeign, LeaveEqual, UpdateRefused, LookUpMonitorAPI,
        MonitorsGone, ListByLabel, ListUnwantedMonitors, ListOwnedByName, AllListedDeleted

LEMMA InitInOrder == ASSUME NEW Age PROVE Init => OneOwner /\ Aged(Age) /\ ConfigFirst
<1> SUFFICES ASSUME Init PROVE OneOwner /\ Aged(Age) /\ ConfigFirst OBVIOUS
<1>1. VersionsOf(<<NoObject>>) = {} /\ UidsOf(<<NoObject>>) = {}
  BY SingletonVersions DEF VersionsOf, UidsOf
<1>2. ~InPass BY DEF Init, Idle, InPass
<1>3. Len(<<NoObject>>) = 1 /\ <<NoObject>>[1] = NoObject OBVIOUS
<1>4. /\ \A i \in Instances : cr[i] = <<NoObject>>
      /\ \A key \in Keys : objects[key] = <<NoObject>>
  BY DEF Init
<1>5. ASSUME NEW i \in Instances PROVE OwnedBy(0, i) BY <1>1, <1>2, <1>4 DEF OwnedBy, WorksFor
<1>6. ASSUME NEW i \in Instances, NEW c \in Functions5G
      PROVE  /\ ResourceAged(Age[i][c], i, c)
             /\ ConfigMapKey(i, c) \in Keys => ConfigMapAged(Age[i][c], i, c)
  <2>1. ResourceAged(Age[i][c], i, c) BY <1>1, <1>2, <1>3, <1>4 DEF ResourceAged, WorksFor
  <2>2. ASSUME ConfigMapKey(i, c) \in Keys PROVE ConfigMapAged(Age[i][c], i, c)
    <3>1. objects[ConfigMapKey(i, c)] = <<NoObject>> BY <1>4, <2>2
    <3>2. \A n \in 1..Len(<<NoObject>>) : ~IsConfig(<<NoObject>>[n]) BY <1>3 DEF IsConfig
    <3> QED BY <3>1, <3>2 DEF ConfigMapAged
  <2> QED BY <2>1, <2>2
<1>7. ConfigFirst BY <1>2 DEF ConfigFirst
<1> QED BY <1>5, <1>6, <1>7 DEF OneOwner, Aged

\* Where nothing changes, nothing comes back.
LEMMA StutterForward == ASSUME Sound, UNCHANGED vars, NEW Age PROVE NothingComesBack(Age)
<1>1. used \in [Events -> Nat] BY DEF Sound, TypeOK
<1>2. ASSUME NEW event \in Events PROVE ~Spend(event)
  <2>1. used[event] \in Nat BY <1>1
  <2>2. used'[event] = used[event] BY DEF vars
  <2> QED BY <1>1, <2>1, <2>2, Spending
<1>3. "edit" \in Events /\ "create" \in Events BY DEF Events
<1> QED BY <1>2, <1>3 DEF NothingComesBack, EditOpen5GS, CreateOpen5GS

LEMMA RolloutStep ==
  ASSUME Sound, ConfigFirst, [Next]_vars, NEW i \in Instances, NEW c \in Functions5G,
         Key("Deployment", i, c, <<>>) \in Keys, ByWorker(Key("Deployment", i, c, <<>>)),
         Current(objects'[Key("Deployment", i, c, <<>>)]) # NoObject,
         Current(objects[ConfigMapKey(i, c)]) # NoObject,
         Current(objects[ConfigMapKey(i, c)]).owner = worker.uid
  PROVE  Current(objects[ConfigMapKey(i, c)]).body.spec
           \in {Current(objects'[Key("Deployment", i, c, <<>>)]).body.hash, Changed}
<1>1. Key("Deployment", i, c, <<>>).kind = "Deployment" BY DEF Key
<1>2. /\ Applying /\ step.key = Key("Deployment", i, c, <<>>)
      /\ Current(objects'[Key("Deployment", i, c, <<>>)]).body.hash = step.body.hash
  BY <1>1, DeploymentWritten
<1>3. InPass /\ worker.at \in DOMAIN plan /\ AppliesDeployment(step)
  BY <1>1, <1>2, AppliedKeys DEF AppliesDeployment, Applying, Calling, Applies
<1>4. Announces(plan[worker.at - 1], step, worker.instance) BY <1>3, CallFacts
<1>5. PICK d \in Names : /\ step.key = Key("Deployment", worker.instance, d, <<>>)
                         /\ plan[worker.at - 1].key = ConfigMapKey(worker.instance, d)
  BY <1>4 DEF Announces
<1>6. worker.instance = i /\ d = c
  <2>1. worker.instance \in Seq(STRING) /\ i \in Seq(STRING)
    BY <1>3, PassHasPlan, InstancesAreSequences
  <2> QED BY <1>2, <1>5, <2>1, DeploymentsApart
<1> QED BY <1>2, <1>3, <1>5, <1>6 DEF ConfigFirst

(***************************************************************************)
(* A Deployment gets the hash of a configuration, which restarts its pods, *)
(* only after the ConfigMap they will read: what the resource of the pass  *)
(* owns there holds that configuration, or what somebody else put there.   *)
(* This is so however far the caches lag, whatever fails, is tampered with *)
(* or deleted, if no edit goes back to an old configuration and a name is  *)
(* used again only when nothing is left of its last use.                   *)
(***************************************************************************)
THEOREM RolloutsAfterConfig ==
  ASSUME ConfigMapsAreOurs, NEW Age, Numberings(Age)
  PROVE  Spec /\ [][NothingComesBack(Age)]_vars => RolloutAfterConfig
<1> DEFINE Onward == NothingComesBack(Age)
           IInv == OneOwner /\ Aged(Age) /\ ConfigFirst
           After == \A i \in Instances, c \in Functions5G :
             LET deployment == Key("Deployment", i, c, <<>>)
                 after == Current(objects'[deployment])
                 config == Current(objects[ConfigMapKey(i, c)])
             IN  deployment \in Keys /\ ByWorker(deployment) /\ after # NoObject
                   /\ config # NoObject /\ config.owner = worker.uid
                   => config.body.spec \in {after.body.hash, Changed}
<1>1. Init => IInv BY InitInOrder
<1>2. Sound /\ IInv /\ [Next]_vars /\ [Onward]_vars => IInv'
  <2> SUFFICES ASSUME Sound, IInv, [Next]_vars, [Onward]_vars PROVE IInv' OBVIOUS
  <2>1. NothingComesBack(Age) BY StutterForward
  <2>2. Logs' BY SoundLogs, LogsStay
  <2> QED BY <2>1, <2>2, OneOwnerStays, AgedStays, ConfigFirstStays
<1>3. Sound /\ IInv /\ [Next]_vars => After BY RolloutStep
<1>4. RolloutAfterConfig <=> [][After]_vars BY DEF RolloutAfterConfig
<1> HIDE DEF Onward, IInv, After
<1>5. Spec /\ [][Onward]_vars => [][After]_vars BY <1>1, <1>2, <1>3, AlwaysSound, PTL DEF Spec
<1> QED BY <1>4, <1>5 DEF Onward

===============================================================================
