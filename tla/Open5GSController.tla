--------------------------- MODULE Open5GSController ---------------------------
(***************************************************************************)
(* The Open5GS controller: one worker that reconciles the Open5GS custom   *)
(* resources of a namespace with the Kubernetes objects they ask for.      *)
(*                                                                         *)
(* The API server is, for every object, the log of its versions from the   *)
(* one in the manager's cache to the current one; a version that is absent *)
(* is NoObject. The worker reads the head of a log and changes its end. A  *)
(* call of a pass is one step: its read of the cache is put at the moment  *)
(* of its write, which loses nothing because the cache may lag as far.     *)
(*                                                                         *)
(* A definition marked "Mutant" is a faulty variant of the one after it.   *)
(* No specification uses it: put in its place, it breaks a property.       *)
(***************************************************************************)
EXTENDS Open5GSPlan, Integers, FiniteSets

CONSTANTS
  Instances,           \* the names of the Open5GS resources, as their parts
  Versions,            \* names of the specs an owner may give a resource
  SpecOf,              \* version -> the spec, before defaults
  Functions5G,         \* the network functions looked at; the others stay untouched
  OtherKeys,           \* objects no resource asks for
  Lagging,             \* the kinds whose cache may trail the API server
  MaxLag,              \* by how many versions at most
  Exposed,             \* the objects that others touch
  DriftFields,         \* the fields that they may change
  Contested,           \* the objects that others may make
  MonitorCRDAtStart,   \* is the ServiceMonitor API installed at the start
  Bound,               \* how often each kind of environment event may happen
  NoObject, NoInstance, Changed

Events == {"create", "edit", "delete", "tamper", "crd", "fault", "crash"}
PlanOf ==
  [i \in Instances |-> [v \in Versions |-> Pass(setDefaultValues(SpecOf[v]), i, Functions5G)]]
Keys == OtherKeys \cup UNION {DesiredKeys(PlanOf[i][v]) : i \in Instances, v \in Versions}
Foreign == 0           \* the owner of what no Open5GS resource owns
UIDs == 1..Bound["create"]

ASSUME ControllerAssumption ==
  /\ Functions5G \subseteq Names /\ Instances \subseteq Seq(STRING)
  /\ Bound \in [Events -> Nat] /\ MaxLag \in Nat
  /\ NoInstance \notin Instances /\ Exposed \cup Contested \subseteq Keys
  /\ MonitorCRDAtStart \in BOOLEAN

VARIABLES
  cr,        \* instance -> the versions of its resource, from the cached one to the current
  objects,   \* key -> the versions of the object, from the cached one to the current
  monitorCRD,\* is the ServiceMonitor API installed
  queue,     \* the instances in the workqueue, waiting for a requeue included
  worker,    \* the pass in progress
  used       \* how many events of each kind have happened

vars == <<cr, objects, monitorCRD, queue, worker, used>>

-------------------------------------------------------------------------------
Idle == [at |-> 0, instance |-> NoInstance, uid |-> Foreign, version |-> Nil,
         monitors |-> FALSE, doomed |-> {}]

Current(log) == log[Len(log)]
Cached(log) == Head(log)
Fresh(log) == Len(log) = 1

\* A cache that would fall too far behind drops its oldest version first.
Grown(key, log, object) ==
  IF key.kind \notin Lagging THEN <<object>>
  ELSE IF Len(log) <= MaxLag THEN Append(log, object)
  ELSE Append(Tail(log), object)
Write(key, object) ==
  objects' = [objects EXCEPT ![key] = IF object = Current(@) THEN @ ELSE Grown(key, @, object)]
WriteCR(i, object) == cr' = [cr EXCEPT ![i] = Append(@, object)]
Spend(event) == used[event] < Bound[event] /\ used' = [used EXCEPT ![event] = @ + 1]

Exists(i) == Current(cr[i]) # NoObject
LiveUIDs == {Current(cr[i]).uid : i \in {j \in Instances : Exists(j)}}

Init ==
  /\ cr = [i \in Instances |-> <<NoObject>>]
  /\ objects = [key \in Keys |-> <<NoObject>>]
  /\ monitorCRD = MonitorCRDAtStart
  /\ queue = {}
  /\ worker = Idle
  /\ used = [event \in Events |-> 0]

-------------------------------------------------------------------------------
(* The owners of the custom resources, through the API server. *)

CreateOpen5GS(i, v) ==
  /\ Spend("create") /\ ~Exists(i)
  /\ WriteCR(i, [uid |-> used["create"] + 1, version |-> v])
  /\ UNCHANGED <<objects, monitorCRD, queue, worker>>

EditOpen5GS(i, v) ==
  /\ Spend("edit") /\ Exists(i) /\ Current(cr[i]).version # v
  /\ WriteCR(i, [uid |-> Current(cr[i]).uid, version |-> v])
  /\ UNCHANGED <<objects, monitorCRD, queue, worker>>

DeleteOpen5GS(i) ==
  /\ Spend("delete") /\ Exists(i)
  /\ WriteCR(i, NoObject)
  /\ UNCHANGED <<objects, monitorCRD, queue, worker>>

-------------------------------------------------------------------------------
(* The manager: its caches and its workqueue. *)

\* The event filter drops the event of a deletion.
SyncOpen5GS(i) ==
  /\ ~Fresh(cr[i])
  /\ cr' = [cr EXCEPT ![i] = Tail(@)]
  /\ queue' = IF cr[i][2] = NoObject THEN queue ELSE queue \cup {i}
  /\ UNCHANGED <<objects, monitorCRD, worker, used>>

\* No other kind is watched for events: only the cache is brought up to date.
SyncObject(key) ==
  /\ ~Fresh(objects[key])
  /\ objects' = [objects EXCEPT ![key] = Tail(@)]
  /\ UNCHANGED <<cr, monitorCRD, queue, worker, used>>

\* Another manager takes over; its first list queues every resource it holds.
Restart ==
  /\ Spend("crash")
  /\ worker' = Idle
  /\ queue' = {i \in Instances : Cached(cr[i]) # NoObject}
  /\ UNCHANGED <<cr, objects, monitorCRD>>

-------------------------------------------------------------------------------
(* Reconcile. *)

Start(i) ==
  /\ worker.at = 0 /\ i \in queue /\ Cached(cr[i]) # NoObject
  /\ worker' = [at |-> 1, instance |-> i, uid |-> Cached(cr[i]).uid,
                version |-> Cached(cr[i]).version, monitors |-> FALSE, doomed |-> {}]
  /\ queue' = queue \ {i}
  /\ UNCHANGED <<cr, objects, monitorCRD, used>>

StartGone(i) ==
  /\ worker.at = 0 /\ i \in queue /\ Cached(cr[i]) = NoObject
  /\ queue' = queue \ {i}
  /\ UNCHANGED <<cr, objects, monitorCRD, worker, used>>

plan == PlanOf[worker.instance][worker.version]
step == plan[worker.at]
InPass == worker.at # 0
Calling(do) == InPass /\ worker.at \in DOMAIN plan /\ step.do = do

\* RequeueAfter 10s at the end of a pass, the rate-limited retry after an error.
Requeue == worker' = Idle /\ queue' = queue \cup {worker.instance}

\* Mutant: a pass that succeeds asks for no other.
FinishForGood ==
  /\ InPass /\ worker.at > Len(plan)
  /\ worker' = Idle /\ UNCHANGED queue
  /\ UNCHANGED <<cr, objects, monitorCRD, used>>

Finish ==
  /\ InPass /\ worker.at > Len(plan)
  /\ Requeue
  /\ UNCHANGED <<cr, objects, monitorCRD, used>>

Goto(next) == worker' = next /\ UNCHANGED queue
NextCall == [worker EXCEPT !.at = @ + 1]
Doom(keys) == [worker EXCEPT !.at = @ + 1, !.doomed = keys]

found == Cached(objects[step.key])
current == Current(objects[step.key])

\* Mutant: any owner will do.
hasOwnerReferenceToAny(object) == object.owner \in Nat

hasOwnerReference(object) == object.owner = worker.uid

\* An object is applied by every step that does so; a ServiceMonitor only if its
\* API is there, now as when the component was begun.
Applying ==
  \/ Calling("apply") \/ Calling("applyIgnoringErrors")
  \/ Calling("applyMonitor") /\ worker.monitors /\ monitorCRD

\* Mutant: an error is logged and the pass goes on.
FailIgnored == Goto(NextCall)

\* The one caller that drops the error goes on with its pass.
Fail == IF step.do = "applyIgnoringErrors" THEN Goto(NextCall) ELSE Requeue

\* Mutant: the new object gets no owner reference.
CreateUnowned ==
  /\ Applying /\ found = NoObject /\ current = NoObject
  /\ Write(step.key, [owner |-> Foreign, body |-> step.body])
  /\ Goto(NextCall)
  /\ UNCHANGED <<cr, monitorCRD, used>>

Create ==
  /\ Applying /\ found = NoObject /\ current = NoObject
  /\ Write(step.key, [owner |-> worker.uid, body |-> step.body])
  /\ Goto(NextCall)
  /\ UNCHANGED <<cr, monitorCRD, used>>

AlreadyExists ==
  /\ Applying /\ found = NoObject /\ current # NoObject
  /\ Fail
  /\ UNCHANGED <<cr, objects, monitorCRD, used>>

LeaveForeign ==
  /\ Applying /\ found # NoObject /\ ~hasOwnerReference(found)
  /\ Goto(NextCall)
  /\ UNCHANGED <<cr, objects, monitorCRD, used>>

Owned == Applying /\ found # NoObject /\ hasOwnerReference(found)
HasDrift == Drifted(step.key, worker.instance, found.body, step.body)
NewBody == Updated(step.key, worker.instance, found.body, step.body)
Accepted == Fresh(objects[step.key]) /\ ~Refused(step.key, found.body, NewBody)

LeaveEqual ==
  /\ Owned /\ ~HasDrift
  /\ Goto(NextCall)
  /\ UNCHANGED <<cr, objects, monitorCRD, used>>

Update ==
  /\ Owned /\ HasDrift /\ Accepted
  /\ Write(step.key, [owner |-> found.owner, body |-> NewBody])
  /\ Goto(NextCall)
  /\ UNCHANGED <<cr, monitorCRD, used>>

UpdateRefused ==
  /\ Owned /\ HasDrift /\ ~Accepted
  /\ Fail
  /\ UNCHANGED <<cr, objects, monitorCRD, used>>

\* Each component that wants a ServiceMonitor looks its API up once more.
LookUpMonitorAPI ==
  /\ Calling("lookUpMonitors")
  /\ Goto([worker EXCEPT !.at = @ + 1, !.monitors = monitorCRD])
  /\ UNCHANGED <<cr, objects, monitorCRD, used>>

\* The ServiceMonitor API went away between the two look-ups: nothing to apply.
MonitorsGone ==
  /\ Calling("applyMonitor") /\ worker.monitors /\ ~monitorCRD
  /\ Goto(NextCall)
  /\ UNCHANGED <<cr, objects, monitorCRD, used>>

\* ServiceMonitors cannot be listed, read or deleted without their API.
Listable(kind) == kind # "ServiceMonitor" \/ monitorCRD
Labelled(labels, kind) ==
  {key \in Keys : /\ key.kind = kind /\ Cached(objects[key]) # NoObject
                  /\ Cached(objects[key]).body.labels = labels}

ListByLabel ==
  /\ Calling("list")
  /\ Goto(Doom(IF Listable(step.key.kind)
               THEN Labelled(step.body, step.key.kind) \ step.keep ELSE {}))
  /\ UNCHANGED <<cr, objects, monitorCRD, used>>

\* Without the API at its start a component's ServiceMonitors count as unwanted.
ListUnwantedMonitors ==
  /\ Calling("applyMonitor") /\ ~worker.monitors
  /\ Goto(Doom(IF monitorCRD THEN Labelled(step.body.labels, "ServiceMonitor") ELSE {}))
  /\ UNCHANGED <<cr, objects, monitorCRD, used>>

\* Mutant: the Services are picked by their names alone.
ListByNameOnly ==
  /\ Calling("listOwned")
  /\ Goto(Doom({key \in Keys : HasPrefix(key, step.key) /\ Cached(objects[key]) # NoObject}))
  /\ UNCHANGED <<cr, objects, monitorCRD, used>>

ListOwnedByName ==
  /\ Calling("listOwned")
  /\ Goto(Doom({key \in Keys : /\ HasPrefix(key, step.key)
                               /\ Cached(objects[key]) # NoObject
                               /\ hasOwnerReference(Cached(objects[key]))}))
  /\ UNCHANGED <<cr, objects, monitorCRD, used>>

\* A delete names the object and nothing of the version that was read.
DeleteOne(key, next) ==
  IF Current(objects[key]) # NoObject THEN Write(key, NoObject) /\ Goto(next)
  ELSE Requeue /\ UNCHANGED objects

DeleteNextListed ==
  /\ Calling("deleteListed")
  /\ \E key \in worker.doomed : DeleteOne(key, [worker EXCEPT !.doomed = @ \ {key}])
  /\ UNCHANGED <<cr, monitorCRD, used>>

\* Mutant: the loop over the list may end early.
SomeListedDeleted ==
  /\ Calling("deleteListed")
  /\ Goto(NextCall)
  /\ UNCHANGED <<cr, objects, monitorCRD, used>>

AllListedDeleted ==
  /\ Calling("deleteListed") /\ worker.doomed = {}
  /\ Goto(NextCall)
  /\ UNCHANGED <<cr, objects, monitorCRD, used>>

\* Mutant: an object of the name is deleted, whoever owns it.
DeletableUnowned == step.key \in Keys /\ Listable(step.key.kind) /\ found # NoObject

Deletable ==
  /\ step.key \in Keys /\ Listable(step.key.kind)
  /\ found # NoObject /\ hasOwnerReference(found)
DeleteByName ==
  /\ Calling("delete")
  /\ IF Deletable THEN DeleteOne(step.key, NextCall) ELSE Goto(NextCall) /\ UNCHANGED objects
  /\ UNCHANGED <<cr, monitorCRD, used>>

-------------------------------------------------------------------------------
(* Failures. A reply that is lost after the write is a failure of the call  *)
(* that follows, or of the end of the pass.                                 *)

RequestFails ==
  /\ InPass /\ Spend("fault")
  /\ IF worker.at \in DOMAIN plan THEN Fail ELSE Requeue
  /\ UNCHANGED <<cr, objects, monitorCRD>>

\* A look-up of the ServiceMonitor API that fails counts as its absence.
LookUpFails ==
  /\ Spend("fault")
  /\ \/ /\ Calling("lookUpMonitors")
        /\ Goto([worker EXCEPT !.at = @ + 1, !.monitors = FALSE])
     \/ /\ Calling("list") \/ Calling("delete") \/ (Calling("applyMonitor") /\ ~worker.monitors)
        /\ step.key.kind = "ServiceMonitor"
        /\ Goto(Doom({}))
  /\ UNCHANGED <<cr, objects, monitorCRD>>

-------------------------------------------------------------------------------
(* What the controller does not do. *)

\* The garbage collector removes what an owner that is gone has left.
CollectGarbage(key) ==
  /\ Current(objects[key]) # NoObject
  /\ Current(objects[key]).owner \notin LiveUIDs \cup {Foreign}
  /\ Write(key, NoObject)
  /\ UNCHANGED <<cr, monitorCRD, queue, worker, used>>

\* Somebody changes a field of an object, or removes it.
Drift(key, field) ==
  /\ Spend("tamper") /\ Current(objects[key]) # NoObject
  /\ Write(key, [Current(objects[key]) EXCEPT !.body[field] = Changed])
  /\ UNCHANGED <<cr, monitorCRD, queue, worker>>

ExternalDelete(key) ==
  /\ Spend("tamper") /\ Current(objects[key]) # NoObject
  /\ Write(key, NoObject)
  /\ UNCHANGED <<cr, monitorCRD, queue, worker>>

\* Somebody else makes an object of his own with the name and labels of a key.
CreateForeign(key, body) ==
  /\ Spend("tamper") /\ Current(objects[key]) = NoObject
  /\ Write(key, [owner |-> Foreign, body |-> body])
  /\ UNCHANGED <<cr, monitorCRD, queue, worker>>

\* The ServiceMonitor API is installed, or goes with every ServiceMonitor.
InstallMonitorCRD ==
  /\ Spend("crd") /\ ~monitorCRD
  /\ monitorCRD' = TRUE
  /\ UNCHANGED <<cr, objects, queue, worker>>
UninstallMonitorCRD ==
  /\ Spend("crd") /\ monitorCRD
  /\ monitorCRD' = FALSE
  /\ objects' = [key \in Keys |-> IF key.kind = "ServiceMonitor" THEN <<NoObject>> ELSE objects[key]]
  /\ UNCHANGED <<cr, queue, worker>>

-------------------------------------------------------------------------------
ForeignBody(i, c) == [Body(i, c, Changed, Changed) EXCEPT !.annotations = Changed]

Worker ==
  \/ Finish
  \/ Create \/ AlreadyExists \/ LeaveForeign \/ LeaveEqual \/ Update \/ UpdateRefused
  \/ LookUpMonitorAPI \/ MonitorsGone \/ ListByLabel \/ ListUnwantedMonitors \/ ListOwnedByName
  \/ DeleteNextListed \/ AllListedDeleted \/ DeleteByName

Owners == \E i \in Instances :
  \/ \E v \in Versions : CreateOpen5GS(i, v) \/ EditOpen5GS(i, v)
  \/ DeleteOpen5GS(i)

Manager ==
  \/ Restart
  \/ \E i \in Instances : SyncOpen5GS(i) \/ Start(i) \/ StartGone(i)
  \/ \E key \in Keys : SyncObject(key)

Outside ==
  \/ \E key \in Keys : CollectGarbage(key)
  \/ \E key \in Exposed : ExternalDelete(key) \/ \E f \in DriftFields : Drift(key, f)
  \/ \E key \in Contested, i \in Instances, c \in Functions5G : CreateForeign(key, ForeignBody(i, c))
  \/ InstallMonitorCRD \/ UninstallMonitorCRD

Next == Owners \/ Manager \/ Worker \/ RequestFails \/ LookUpFails \/ Outside

Spec == Init /\ [][Next]_vars

(***************************************************************************)
(* The caches catch up, a pass that began goes on, an instance that is     *)
(* again and again ready to start does start, and garbage is collected.    *)
(***************************************************************************)
Fairness ==
  /\ WF_vars(Worker)
  /\ \A i \in Instances : WF_vars(SyncOpen5GS(i)) /\ SF_vars(Start(i)) /\ WF_vars(StartGone(i))
  /\ \A key \in Keys : WF_vars(SyncObject(key)) /\ WF_vars(CollectGarbage(key))

FairSpec == Spec /\ Fairness

-------------------------------------------------------------------------------
CR == [uid : UIDs, version : Versions]
IsObject(object) ==
  /\ object.owner \in UIDs \cup {Foreign}
  /\ DOMAIN object.body = {"labels", "annotations", "spec", "rest", "template", "hash"}

LogsType ==
  /\ cr \in [Instances -> Seq(CR \cup {NoObject})]
  /\ \A i \in Instances : cr[i] # <<>>
  /\ DOMAIN objects = Keys
  /\ \A key \in Keys : /\ objects[key] \in Seq(Range(objects[key])) \ {<<>>}
                       /\ \A n \in DOMAIN objects[key] :
                            objects[key][n] # NoObject => IsObject(objects[key][n])
PassType ==
  /\ queue \subseteq Instances
  /\ worker.at \in Nat /\ worker.monitors \in BOOLEAN /\ worker.doomed \subseteq Keys
  /\ InPass => /\ worker.instance \in Instances /\ worker.version \in Versions
              /\ worker.uid \in UIDs /\ worker.at \in 1..Len(plan) + 1

\* What is listed is deleted before anything else is listed.
ListedIsDeleted ==
  worker.doomed # {} =>
    \E n \in worker.at..Len(plan) : /\ plan[n].do = "deleteListed"
                                    /\ \A m \in worker.at..n : plan[m].do \notin {"list", "listOwned"}

\* An object that is written always has all of its fields, and a list is used up.
TypeOK ==
  /\ LogsType /\ PassType /\ ListedIsDeleted
  /\ monitorCRD \in BOOLEAN /\ used \in [Events -> Nat]

(***************************************************************************)
(* An object that exists is changed by a pass only if the resource of that *)
(* pass owns it at that moment, however old the version is that was read.  *)
(***************************************************************************)
ByWorker(key) == worker' # worker /\ Current(objects'[key]) # Current(objects[key])
UpdatesOwned(key) ==
  ByWorker(key) /\ Current(objects[key]) # NoObject /\ Current(objects'[key]) # NoObject
    => Current(objects[key]).owner = worker.uid /\ Current(objects'[key]).owner = worker.uid
UpdatesOnlyOwned == [][\A key \in Keys : UpdatesOwned(key)]_vars

(***************************************************************************)
(* "independent management of each Open5GS instance": a pass for one       *)
(* neither changes nor deletes what another resource that exists owns,     *)
(* not even when the name of one is the beginning of the other's.          *)
(***************************************************************************)
InstancesApart ==
  [][\A key \in Keys :
       ByWorker(key) /\ Current(objects[key]) # NoObject
         => Current(objects[key]).owner \notin LiveUIDs \ {worker.uid}]_vars

(***************************************************************************)
(* What a pass does not own it neither changes nor deletes, a claim with   *)
(* somebody's data least of all: unless its cache still shows the object   *)
(* that had the name before, or the object is of a kind that is picked by  *)
(* its labels, without a look at its owner.                                *)
(***************************************************************************)
PickedByLabel == {"Service", "ServiceMonitor", "ServiceAccount"}
ForeignSpared ==
  [][\A key \in Keys :
       ByWorker(key) /\ Current(objects[key]) # NoObject /\ Fresh(objects[key])
                     /\ key.kind \notin PickedByLabel
         => Current(objects[key]).owner = worker.uid]_vars

(***************************************************************************)
(* A Deployment gets the hash of a configuration, which restarts its pods, *)
(* never before the ConfigMap they will read: what the resource of the     *)
(* pass owns under that name holds the configuration that was hashed, or   *)
(* what somebody else has put there. (Without its ConfigMap a pod does not *)
(* start. The pass has only seen a cache that trails both.)                *)
(***************************************************************************)
RolloutAfterConfig ==
  [][\A i \in Instances, c \in Functions5G :
       LET deployment == Key("Deployment", i, c, <<>>)
           after == Current(objects'[deployment])
           config == Current(objects[ConfigMapKey(i, c)])
       IN  deployment \in Keys /\ ByWorker(deployment) /\ after # NoObject
             /\ config # NoObject /\ config.owner = worker.uid
             => config.body.spec \in {after.body.hash, Changed}]_vars

(***************************************************************************)
(* The desired state is reached: once the environment is quiet, every      *)
(* object that a resource asks for is there and, unless it is somebody     *)
(* else's, has the desired value in the fields that are managed. (No pass  *)
(* gets beyond a claim whose change the API server refuses for ever, and   *)
(* what comes after it, MongoDB's account, is not reached.)                *)
(***************************************************************************)
PassOf(i) == PlanOf[i][Current(cr[i]).version]
UidOf(i) == Current(cr[i]).uid
AlwaysRefused(i, n) ==
  LET wanted == PassOf(i)[n]
      object == Current(objects[wanted.key])
  IN  /\ wanted.key.kind = "PersistentVolumeClaim" /\ object # NoObject
      /\ object.owner = UidOf(i) /\ Drifted(wanted.key, i, object.body, wanted.body)
      /\ Refused(wanted.key, object.body, Updated(wanted.key, i, object.body, wanted.body))
Stuck(i, n) == \E m \in Desired(PassOf(i)) : m < n /\ AlwaysRefused(i, m)
Wanted(i) == {n \in Desired(PassOf(i)) : Listable(PassOf(i)[n].key.kind) /\ ~Stuck(i, n)}
ManagedFields(key, i) ==
  CASE IsUPFDeployment(key, i) -> {"template", "hash"}
    [] key.kind = "Deployment" /\ ~IsUPFDeployment(key, i) -> {"spec", "hash"}
    [] key.kind \in {"ConfigMap", "Service", "ServiceMonitor"} -> {"spec"}
    [] key.kind = "ServiceAccount" -> {"labels", "annotations"}
    [] key.kind = "PersistentVolumeClaim" -> {}
HasFields(desired, fields) ==
  LET object == Current(objects[desired.key])
  IN  /\ object # NoObject /\ object.owner \in LiveUIDs \cup {Foreign}
      /\ object.owner # Foreign => \A f \in fields : object.body[f] = desired.body[f]
Reached(i) ==
  \A n \in Wanted(i) : HasFields(PassOf(i)[n], ManagedFields(PassOf(i)[n].key, i))
NothingElse(i) ==
  \A key \in Keys \ DesiredKeys(PassOf(i)) :
    Current(objects[key]) = NoObject \/ Current(objects[key]).owner # UidOf(i)

Converges == \A i \in Instances : <>[](Exists(i) => Reached(i))

(***************************************************************************)
(* What a resource no longer asks for is removed: a disabled function, a   *)
(* port, a monitor or an account. The lists are taken before and the       *)
(* deletions made after the loop that applies the rest. (Not so the second *)
(* ConfigMap of a disabled UPF or MongoDB, which the code never looks for: *)
(* the property is checked for a function that has none.)                  *)
(***************************************************************************)
UnwantedRemoved ==
  \A i \in Instances : <>[](Exists(i) /\ ~Stuck(i, Len(PassOf(i)) + 1) => NothingElse(i))

(***************************************************************************)
(* When the resources are gone for good, so is everything they asked for:  *)
(* whatever a pass that was under way, or one of a stale cache, has made.  *)
(* (Of a name that others use as well, what is left may be theirs.)        *)
(***************************************************************************)
NothingLeft ==
  <>[](LiveUIDs = {} => \A key \in Keys \ Contested : Current(objects[key]) = NoObject)

===============================================================================
