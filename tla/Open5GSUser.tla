------------------------------ MODULE Open5GSUser ------------------------------
(***************************************************************************)
(* The Open5GSUser controller: one worker that reconciles the Open5GSUser  *)
(* custom resources of a cluster with the subscriber documents of the      *)
(* MongoDB of each Open5GS instance.                                       *)
(*                                                                         *)
(* The API server is the log of the versions of each custom resource; the  *)
(* position in the log is the resourceVersion. The manager's cache is a    *)
(* position that trails the end of the log. A pass of Reconcile works on   *)
(* the version it read, and an update is accepted only if that version is  *)
(* still the last one. A pass makes its calls one step at a time: users,   *)
(* scripts that write to MongoDB, the other controller and crashes come in *)
(* between.                                                                *)
(*                                                                         *)
(* A definition marked "Mutant" is a faulty variant of the one after it.   *)
(* No specification uses it: put in its place, it breaks a property.       *)
(***************************************************************************)
EXTENDS UserResource

CONSTANTS
  ExternalDocuments,   \* what scripts outside the operator write to MongoDB
  InitialInstances,    \* the Open5GS instances running at the start
  Bound,               \* how often each kind of environment event may happen
  NoUser, NoCore

Kinds == {"create", "edit", "delete", "external", "core", "fault", "lookup", "crash"}

ASSUME UserAssumption ==
  /\ ExternalDocuments \subseteq Document
  /\ InitialInstances \subseteq Cores
  /\ Bound \in [Kinds -> Nat]
  /\ NoUser \notin Users /\ NoCore \notin Cores

VARIABLES
  history,   \* user -> the versions of its custom resource, the last one current
  seen,      \* user -> the version in the manager's cache
  queue,     \* the users in the workqueue, waiting for a requeue included
  worker,    \* the pass in progress
  open5gs,   \* the Open5GS custom resources that exist
  service,   \* the instances that have a "<name>-mongodb" Service
  serving,   \* the instances whose MongoDB runs, and answers if it has a Service
  docs,      \* instance -> IMSI -> the documents with that imsi, oldest first
  used       \* how many events of each kind have happened

vars == <<history, seen, queue, worker, open5gs, service, serving, docs, used>>
cluster == <<open5gs, service, serving>>

-------------------------------------------------------------------------------
Current(u) == history[u][Len(history[u])]
Cached(u) == history[u][seen[u]]
Write(u, object) == history' = [history EXCEPT ![u] = Append(@, object)]

PCs == {"idle", "addFinalizer", "reconcileSubscriber", "FindOne", "InsertOne",
        "UpdateOne", "deleteSubscriber", "DeleteOne", "removeFinalizer"}
Idle == [pc |-> "idle", user |-> NoUser, rv |-> 0, core |-> NoCore]

user == history[worker.user][worker.rv]     \* the version the pass works on
profile == user.spec.profile
UpToDate == worker.rv = Len(history[worker.user])
Reachable == worker.core \in service
Answering == Reachable /\ worker.core \in serving
Found == docs[worker.core][profile.imsi]

Goto(pc) == worker' = [worker EXCEPT !.pc = pc] /\ UNCHANGED queue

\* Mutant: a pass that ends does not ask for another.
RequeueForgotten == worker' = Idle /\ UNCHANGED queue

(***************************************************************************)
(* Every return of Reconcile but the one for a resource that is gone asks  *)
(* for another pass: RequeueAfter 10s, or the rate-limited retry of an     *)
(* error.                                                                  *)
(***************************************************************************)
Requeue == worker' = Idle /\ queue' = queue \cup {worker.user}
SetDocs(instance, imsi, found) == docs' = [docs EXCEPT ![instance][imsi] = found]
Spend(kind) == used[kind] < Bound[kind] /\ used' = [used EXCEPT ![kind] = @ + 1]

Init ==
  /\ history = [u \in Users |-> <<Absent>>]
  /\ seen = [u \in Users |-> 1]
  /\ queue = {}
  /\ worker = Idle
  /\ open5gs = InitialInstances
  /\ service = InitialInstances
  /\ serving = InitialInstances
  /\ docs = [i \in Cores |-> [imsi \in IMSIs |-> <<>>]]
  /\ used = [kind \in Kinds |-> 0]

-------------------------------------------------------------------------------
(* The owners of the custom resources, through the API server. *)

CreateUser(u, spec) ==
  /\ Spend("create") /\ ~Current(u).present
  /\ Write(u, Created(spec))
  /\ UNCHANGED <<seen, queue, worker, cluster, docs>>

EditUser(u, spec) ==
  /\ Spend("edit") /\ Current(u).present /\ Current(u).spec # spec
  /\ Write(u, [Current(u) EXCEPT !.spec = spec])
  /\ UNCHANGED <<seen, queue, worker, cluster, docs>>

DeleteUser(u) ==
  /\ Spend("delete") /\ Current(u).present /\ ~Current(u).deleting
  /\ Write(u, Deleted(Current(u)))
  /\ UNCHANGED <<seen, queue, worker, cluster, docs>>

-------------------------------------------------------------------------------
(* The manager: its cache and its workqueue. *)

\* The watch delivers the next version; the event puts the user in the queue.
SyncCache(u) ==
  /\ seen[u] < Len(history[u])
  /\ seen' = [seen EXCEPT ![u] = @ + 1]
  /\ queue' = queue \cup {u}
  /\ UNCHANGED <<history, worker, cluster, docs, used>>

\* Another manager takes over: the pass in progress and the queue are lost, and
\* the first list queues every resource it holds.
Restart ==
  /\ Spend("crash")
  /\ worker' = Idle
  /\ queue' = {u \in Users : Cached(u).present}
  /\ UNCHANGED <<history, seen, cluster, docs>>

-------------------------------------------------------------------------------
(* Reconcile. *)

\* A Get of the Open5GS that fails is logged and leaves an empty one.
GetOpen5GS(u, spec) == IF Target(u, spec) \in open5gs THEN Target(u, spec) ELSE NoCore

\* Mutant: the subscriber is written first, the finalizer is added by a later pass.
FirstStepWithoutFinalizer(object) ==
  IF object.deleting THEN "deleteSubscriber" ELSE "reconcileSubscriber"

\* Mutant: the finalizer is tested before the deletion timestamp.
FirstStepFinalizerFirst(object) ==
  IF object.finalizer THEN "reconcileSubscriber"
  ELSE IF object.deleting THEN "deleteSubscriber" ELSE "addFinalizer"

FirstStep(object) ==
  IF object.deleting THEN "deleteSubscriber"
  ELSE IF object.finalizer THEN "reconcileSubscriber" ELSE "addFinalizer"

\* Mutant: a Get that finds nothing does not end the pass.
StartNotFound(u) ==
  /\ worker.pc = "idle" /\ u \in queue
  /\ worker' = [pc |-> FirstStep(Cached(u)), user |-> u, rv |-> seen[u],
                core |-> IF Cached(u).present THEN GetOpen5GS(u, Cached(u).spec) ELSE NoCore]
  /\ queue' = queue \ {u}
  /\ UNCHANGED <<history, seen, cluster, docs, used>>

\* A resource marked for deletion has the finalizer: without one it is gone.
Start(u) ==
  /\ worker.pc = "idle" /\ u \in queue /\ Cached(u).present
  /\ worker' = [pc |-> FirstStep(Cached(u)), user |-> u, rv |-> seen[u],
                core |-> GetOpen5GS(u, Cached(u).spec)]
  /\ queue' = queue \ {u}
  /\ UNCHANGED <<history, seen, cluster, docs, used>>

StartGone(u) ==
  /\ worker.pc = "idle" /\ u \in queue /\ ~Cached(u).present
  /\ queue' = queue \ {u}
  /\ UNCHANGED <<history, seen, worker, cluster, docs, used>>

\* Mutant: the update names no version, and overwrites what has changed since.
AddFinalizerForced ==
  /\ worker.pc = "addFinalizer"
  /\ Write(worker.user, [user EXCEPT !.finalizer = TRUE])
  /\ worker' = [pc |-> "reconcileSubscriber", user |-> worker.user,
                rv |-> Len(history[worker.user]) + 1, core |-> worker.core]
  /\ UNCHANGED <<seen, queue, cluster, docs, used>>

AddFinalizer ==
  /\ worker.pc = "addFinalizer" /\ UpToDate
  /\ Write(worker.user, [user EXCEPT !.finalizer = TRUE])
  /\ worker' = [pc |-> "reconcileSubscriber", user |-> worker.user,
                rv |-> worker.rv + 1, core |-> worker.core]
  /\ UNCHANGED <<seen, queue, cluster, docs, used>>

\* Mutant: the pass goes on after its update was refused.
UpdateConflictIgnored ==
  /\ worker.pc \in {"addFinalizer", "removeFinalizer"} /\ ~UpToDate
  /\ IF worker.pc = "addFinalizer" THEN Goto("reconcileSubscriber") ELSE Requeue
  /\ UNCHANGED <<history, seen, cluster, docs, used>>

\* The API server refuses an update made to an old version, or to a resource
\* that is gone.
UpdateConflict ==
  /\ worker.pc \in {"addFinalizer", "removeFinalizer"} /\ ~UpToDate
  /\ Requeue
  /\ UNCHANGED <<history, seen, cluster, docs, used>>

reconcileSubscriber ==
  /\ worker.pc = "reconcileSubscriber"
  /\ IF Reachable THEN Goto("FindOne") ELSE Requeue
  /\ UNCHANGED <<history, seen, cluster, docs, used>>

FindOne ==
  /\ worker.pc = "FindOne" /\ Answering
  /\ LET call == NextCall(profile, Found)
     IN  IF call = "return" THEN Requeue ELSE Goto(call)
  /\ UNCHANGED <<history, seen, cluster, docs, used>>

InsertOne ==
  /\ worker.pc = "InsertOne" /\ Answering
  /\ SetDocs(worker.core, profile.imsi, Append(Found, AddedDocument(profile)))
  /\ Requeue
  /\ UNCHANGED <<history, seen, cluster, used>>

\* MatchedCount is 0 when the document has gone since FindOne.
UpdateOne ==
  /\ worker.pc = "UpdateOne" /\ Answering
  /\ SetDocs(worker.core, profile.imsi,
             IF Found = <<>> THEN <<>>
             ELSE <<UpdatedDocument(profile, Head(Found))>> \o Tail(Found))
  /\ Requeue
  /\ UNCHANGED <<history, seen, cluster, used>>

\* Without a MongoDB Service the document is left behind and the finalizer goes.
deleteSubscriber ==
  /\ worker.pc = "deleteSubscriber"
  /\ Goto(IF Reachable THEN "DeleteOne" ELSE "removeFinalizer")
  /\ UNCHANGED <<history, seen, cluster, docs, used>>

\* DeletedCount 0 is an error: the finalizer stays and the pass ends.
DeleteOne ==
  /\ worker.pc = "DeleteOne" /\ Answering
  /\ IF Found = <<>> THEN Requeue /\ UNCHANGED docs
     ELSE Goto("removeFinalizer") /\ SetDocs(worker.core, profile.imsi, Tail(Found))
  /\ UNCHANGED <<history, seen, cluster, used>>

\* With its last finalizer a resource marked for deletion is gone.
RemoveFinalizer ==
  /\ worker.pc = "removeFinalizer" /\ UpToDate
  /\ Write(worker.user, Absent)
  /\ Requeue
  /\ UNCHANGED <<seen, cluster, docs, used>>

\* The Service went away after it was looked up, or nothing serves behind it: the
\* calls to MongoDB time out.
MongoUnreachable ==
  /\ worker.pc \in {"FindOne", "InsertOne", "UpdateOne", "DeleteOne"} /\ ~Answering
  /\ Requeue
  /\ UNCHANGED <<history, seen, cluster, docs, used>>

-------------------------------------------------------------------------------
(* Failures of single calls. A lost reply matters only where the pass would *)
(* go on: after an insert, an update or the last finalizer it ends anyway.  *)

\* Mutant: the error of a failed delete is dropped.
RequestFailsDropped ==
  /\ Spend("fault")
  /\ worker.pc \notin {"idle", "reconcileSubscriber", "deleteSubscriber"}
  /\ IF worker.pc = "DeleteOne" THEN Goto("removeFinalizer") ELSE Requeue
  /\ UNCHANGED <<history, seen, cluster, docs>>

RequestFails ==
  /\ Spend("fault")
  /\ worker.pc \notin {"idle", "reconcileSubscriber", "deleteSubscriber"}
  /\ Requeue
  /\ UNCHANGED <<history, seen, cluster, docs>>

(***************************************************************************)
(* Whatever error the look-up of the Service returns, it is taken for its  *)
(* absence: a reconciliation is skipped, and a deletion too. (A look-up of *)
(* the Open5GS that fails leads here as well, to no Service.)              *)
(***************************************************************************)
LookUpFails ==
  /\ Spend("lookup")
  /\ \/ worker.pc = "reconcileSubscriber" /\ Requeue
     \/ worker.pc = "deleteSubscriber" /\ Goto("removeFinalizer")
  /\ UNCHANGED <<history, seen, cluster, docs>>

AddFinalizerReplyLost ==
  /\ Spend("fault")
  /\ worker.pc = "addFinalizer" /\ UpToDate
  /\ Write(worker.user, [user EXCEPT !.finalizer = TRUE])
  /\ Requeue
  /\ UNCHANGED <<seen, cluster, docs>>

DeleteReplyLost ==
  /\ Spend("fault")
  /\ worker.pc = "DeleteOne" /\ Answering /\ Found # <<>>
  /\ SetDocs(worker.core, profile.imsi, Tail(Found))
  /\ Requeue
  /\ UNCHANGED <<history, seen, cluster>>

-------------------------------------------------------------------------------
(* What the controller does not do: scripts that write to MongoDB directly, *)
(* and the Open5GS resources and Services it only reads.                    *)

ExternalInsert(i, doc) ==
  /\ Spend("external") /\ i \in serving
  /\ SetDocs(i, doc.imsi, Append(docs[i][doc.imsi], doc))
  /\ UNCHANGED <<history, seen, queue, worker, cluster>>

ExternalModify(i, doc) ==
  /\ Spend("external") /\ i \in serving /\ docs[i][doc.imsi] # <<>>
  /\ SetDocs(i, doc.imsi, <<doc>> \o Tail(docs[i][doc.imsi]))
  /\ UNCHANGED <<history, seen, queue, worker, cluster>>

ExternalRemove(i, imsi) ==
  /\ Spend("external") /\ i \in serving /\ docs[i][imsi] # <<>>
  /\ SetDocs(i, imsi, <<>>)
  /\ UNCHANGED <<history, seen, queue, worker, cluster>>

CreateOpen5GS(i) ==
  /\ Spend("core") /\ i \notin open5gs
  /\ open5gs' = open5gs \cup {i}
  /\ UNCHANGED <<history, seen, queue, worker, service, serving, docs>>

DeleteOpen5GS(i) ==
  /\ Spend("core") /\ i \in open5gs
  /\ open5gs' = open5gs \ {i}
  /\ UNCHANGED <<history, seen, queue, worker, service, serving, docs>>

\* reconcileMongoDB with mongodb.enabled: the Service appears, and some time its pod.
EnableMongoDB(i) ==
  /\ Spend("core") /\ i \notin service
  /\ service' = service \cup {i}
  /\ UNCHANGED <<history, seen, queue, worker, open5gs, serving, docs>>

StartMongoDB(i) ==
  /\ i \in service \ serving
  /\ serving' = serving \cup {i}
  /\ UNCHANGED <<history, seen, queue, worker, open5gs, service, docs, used>>

\* The pod goes: crashed, or the Deployment was removed before the Service.
StopMongoDB(i) ==
  /\ Spend("core") /\ i \in serving
  /\ serving' = serving \ {i}
  /\ UNCHANGED <<history, seen, queue, worker, open5gs, service, docs>>

\* deleteComponentResources, or somebody else, removes the Service ...
DisableMongoDB(i) ==
  /\ Spend("core") /\ i \in service
  /\ service' = service \ {i}
  /\ UNCHANGED <<history, seen, queue, worker, open5gs, serving, docs>>

\* ... and the claim, with its volume.
LoseVolume(i) ==
  /\ Spend("core")
  /\ serving' = serving \ {i}
  /\ docs' = [docs EXCEPT ![i] = [imsi \in IMSIs |-> <<>>]]
  /\ UNCHANGED <<history, seen, queue, worker, open5gs, service>>

-------------------------------------------------------------------------------
Worker ==
  \/ AddFinalizer \/ UpdateConflict
  \/ reconcileSubscriber \/ FindOne \/ InsertOne \/ UpdateOne
  \/ deleteSubscriber \/ DeleteOne \/ RemoveFinalizer
  \/ MongoUnreachable

Owners == \E u \in Users :
  \/ \E spec \in SpecsOf[u] : CreateUser(u, spec) \/ EditUser(u, spec)
  \/ DeleteUser(u)

Manager == Restart \/ \E u \in Users : SyncCache(u) \/ Start(u) \/ StartGone(u)

Faults == RequestFails \/ LookUpFails \/ AddFinalizerReplyLost \/ DeleteReplyLost

Outside == \E i \in Cores :
  \/ \E doc \in ExternalDocuments : ExternalInsert(i, doc) \/ ExternalModify(i, doc)
  \/ \E imsi \in IMSIs : ExternalRemove(i, imsi)
  \/ CreateOpen5GS(i) \/ DeleteOpen5GS(i)
  \/ EnableMongoDB(i) \/ DisableMongoDB(i)
  \/ StartMongoDB(i) \/ StopMongoDB(i) \/ LoseVolume(i)

Next == Owners \/ Manager \/ Worker \/ Faults \/ Outside

Spec == Init /\ [][Next]_vars

(***************************************************************************)
(* The watch delivers, a pass that began goes on, and the queue is first   *)
(* in, first out with retries that come back: a user that is again and     *)
(* again ready to start does start. No fairness on the environment.        *)
(***************************************************************************)
Fairness ==
  /\ WF_vars(Worker)
  /\ \A u \in Users : WF_vars(SyncCache(u)) /\ SF_vars(Start(u)) /\ WF_vars(StartGone(u))

FairSpec == Spec /\ Fairness

-------------------------------------------------------------------------------
HistoryType ==
  /\ history \in [Users -> Seq(Object)]
  /\ seen \in [Users -> Nat]
  /\ \A u \in Users : seen[u] \in 1..Len(history[u])
WorkerType ==
  /\ queue \subseteq Users
  /\ worker \in [pc : PCs, user : Users \cup {NoUser}, rv : Nat, core : Cores \cup {NoCore}]
  /\ worker.pc # "idle" => /\ worker.user \in Users
                           /\ worker.rv \in 1..Len(history[worker.user])
                           /\ user.present
  /\ worker.pc = "InsertOne" => ~AddFails(profile)
  /\ worker.pc = "UpdateOne" => ~UpdateFails(profile)
StoreType ==
  /\ open5gs \subseteq Cores /\ service \subseteq Cores /\ serving \subseteq Cores
  /\ docs \in [Cores -> [IMSIs -> Seq(Document)]]
UsedType == used \in [Kinds -> Nat]

\* A pass always works on a version of a resource that existed, and MongoDB holds
\* nothing but documents.
TypeOK == HistoryType /\ WorkerType /\ StoreType /\ UsedType

(***************************************************************************)
(* A subscriber is written only for a resource that still exists and still *)
(* carries the finalizer, however old the version is that the pass read:   *)
(* otherwise nothing would ever remove the document again.                 *)
(***************************************************************************)
WriteUnderFinalizer ==
  worker.pc \in {"reconcileSubscriber", "FindOne", "InsertOne", "UpdateOne"} =>
    Current(worker.user).present /\ Current(worker.user).finalizer

(***************************************************************************)
(* FindOne and InsertOne are two calls, and no unique index backs them up: *)
(* while only the operator writes, no IMSI gets a second document, not     *)
(* even when two resources name the same IMSI, a reply is lost or the      *)
(* manager is replaced between the two calls.                              *)
(***************************************************************************)
AtMostOneDocument ==
  \A i \in Cores, imsi \in IMSIs : Len(docs[i][imsi]) <= 1

(***************************************************************************)
(* While MongoDB stays up and IMSIs are not edited, every document belongs *)
(* to a resource that still exists: the finalizer is not released before   *)
(* the document is gone, whatever fails in between.                        *)
(***************************************************************************)
NoOrphan ==
  \A i \in Cores, imsi \in IMSIs : docs[i][imsi] # <<>> =>
    \E u \in Users : /\ Current(u).present
                     /\ Current(u).spec.profile.imsi = imsi
                     /\ Target(u, Current(u).spec) = i

(***************************************************************************)
(* Unmanaged users, those that scripts write and no resource stands for,   *)
(* are not altered: whatever a script has put there, each document a pass  *)
(* inserts, changes or removes has the IMSI of a resource that exists and  *)
(* holds the finalizer at that moment, in the instance it resolves to. The *)
(* one exception is a deletion that comes late: its resource has been      *)
(* released since the version the pass works on, and the subscriber is the *)
(* one of that version.                                                    *)
(***************************************************************************)
ManagedBy(u, i, imsi) ==
  /\ Current(u).present /\ Current(u).finalizer
  /\ Current(u).spec.profile.imsi = imsi /\ Target(u, Current(u).spec) = i
LateDeletion(i, imsi) ==
  /\ worker.core = i /\ profile.imsi = imsi /\ user.deleting
  /\ \E n \in worker.rv..Len(history[worker.user]) : ~history[worker.user][n].present
Altered(i, imsi) == worker' # worker /\ docs'[i][imsi] # docs[i][imsi]
UnmanagedKept ==
  [][\A i \in Cores, imsi \in IMSIs :
       Altered(i, imsi) => (\E u \in Users : ManagedBy(u, i, imsi)) \/ LateDeletion(i, imsi)]_vars

\* The same without the exception, as the README promises it.
UnmanagedUnaltered ==
  [][\A i \in Cores, imsi \in IMSIs :
       Altered(i, imsi) => \E u \in Users : ManagedBy(u, i, imsi)]_vars

(***************************************************************************)
(* Drift is corrected: once the environment is quiet, a resource that is   *)
(* not being deleted, with every field set, an instance that is up and an  *)
(* IMSI of its own has a document with its credentials and its APN.        *)
(***************************************************************************)
Sole(u) ==
  \A v \in Users \ {u} : Current(v).present =>
    Current(v).spec.profile.imsi # Current(u).spec.profile.imsi
Managed(u) ==
  /\ Current(u).present /\ ~Current(u).deleting
  /\ HasSlice(Current(u).spec.profile) /\ IsNumeric(Current(u).spec.profile.sst)
  /\ Target(u, Current(u).spec) \in open5gs \cap service \cap serving
  /\ Sole(u)
DocsOf(u) == docs[Target(u, Current(u).spec)][Current(u).spec.profile.imsi]
Settles(u, matches(_, _)) ==
  <>[](Managed(u) => DocsOf(u) # <<>> /\ matches(Current(u).spec.profile, Head(DocsOf(u))))

CredentialsMatch(p, doc) == doc.k = p.key /\ doc.opc = p.opc /\ doc.name = p.apn
ProfileConverges == \A u \in Users : Settles(u, CredentialsMatch)

\* The slice's sst, which "any discrepancy" of the README includes.
SSTMatches(p, doc) == doc.sst.n = AtoiTable[p.sst]
SSTConverges == \A u \in Users : Settles(u, SSTMatches)

(***************************************************************************)
(* A deletion always does its work: once the environment is quiet, no      *)
(* resource that is still marked for deletion has a document, unless its   *)
(* MongoDB has a Service and no pod. (The only resource that can be left   *)
(* besides is stuck because there was no document to remove, or the reply  *)
(* to its removal was lost: every retry then fails.)                       *)
(***************************************************************************)
Down(u) == Target(u, Current(u).spec) \in service \ serving
DeletionRemoves ==
  \A u \in Users : <>[](Current(u).deleting /\ ~Down(u) => DocsOf(u) = <<>>)

===============================================================================
