# Specifications of the Open5GS operator

TLA+ models of the two controllers of `open5gs-operator`, checked with TLC on
small instances, and theorems about them checked with TLAPS. Paths below are
relative to the repository (`internal/controller/...`, `api/v1/...`).

## 1. The system

The operator is one process, a controller-runtime manager (`cmd/main.go`) with
two controllers that share nothing but the API server and MongoDB.

| component | source | state it keeps | operations |
|---|---|---|---|
| Open5GS controller | `open5gs_controller.go` | none of its own; the objects it owns in the cluster | `Reconcile`: one `reconcile<Function>` per network function, each of which applies ConfigMap, Deployment, Services, ServiceMonitor, PVC and ServiceAccount, or deletes what belongs to a disabled function (`deleteComponentResources`) |
| Desired objects and comparisons | `controller_resources.go`, `*_resources.go`, `setDefaultValues` | none | the constructors `Create...`, the comparisons `deploymentEqual`, `serviceEqual`, `configMapEqual`, ... |
| Open5GSUser controller | `open5gsuser_controller.go` | the finalizer on each user | `Reconcile`: add the finalizer, bring the document up to date, or remove document and finalizer |
| Subscriber documents | `open5gsuser_resources.go` | documents of the collection `subscribers`, one MongoDB per Open5GS | `addOrUpdateSubscriber`, `addSubscriber...`, `hasDrift`, `updateSubscriber`, `deleteSubscriberMongo` |
| Pods of the network functions | outside the repository | the configuration a pod has read | start, crash, roll out |
| Custom resource types | `api/v1/` | - | the inputs of everything above |
| Manager | `cmd/main.go` | caches, workqueues | list, watch, requeue, be replaced |
| Deep copies, charts, manifests, tests | `zz_generated...`, `charts/`, `config/`, `test/` | - | not modelled, see section 7 |

How they interact:

- Owners of custom resources write them through the API server. The manager's
  *cache* follows with a delay; a watch event of an Open5GS or Open5GSUser puts
  its name in the *workqueue*. Nothing else is watched.
- Each controller has one worker (`MaxConcurrentReconciles` is not set). A pass
  of `Reconcile` reads the cache, makes its calls one after the other, and ends
  with `RequeueAfter: 10s` or an error, which retries. That requeue is the only
  way in which drift of a Deployment or a document is ever noticed.
- Kubernetes objects carry an owner reference to the Open5GS that asked for them;
  when it is gone the garbage collector removes them. The Open5GS controller has no
  finalizer, the user controller has one per user.
- The user controller finds the MongoDB of an Open5GS through the Service
  `<name>-mongodb`, which the other controller makes and removes.
- Pods mount their ConfigMap by `subPath`: they read it once, when they start. A
  hash of the configuration in the pod template makes a Deployment replace them.

What is hard about it: each pass is a sequence of calls that may fail, or be cut
off by a restart, anywhere; each read is of a cache that may be old; some writes
are checked against the version read (updates), others are not (deletes, and
everything in MongoDB); resources are deleted and made again under the same
names; scripts and `kubectl` change the same objects; the ServiceMonitor API may
come and go. `PROJECT.json` lists these hazards at their lines ("hazards").

What makes each part correct:

- *Open5GS controller*: the desired state is reached from any mixture of old and
  new objects (`Converges`), nothing unwanted stays (`UnwantedRemoved`), nothing
  survives the resource (`NothingLeft`), other people's and other instances'
  objects are not touched (`UpdatesOnlyOwned`, `InstancesApart`).
- *Comparisons*: what is different is seen (`EditVisible`), and what is seen is
  put right for the fields in `ManagedFields`, which are not all (section 3).
- *Configuration and pods*: a Deployment announces a configuration only after its
  ConfigMap holds it (`RolloutAfterConfig`), and pods run it (`PodsConverge`).
- *User controller*: a document is written only while a finalizer guarantees its
  removal (`WriteUnderFinalizer`, `NoOrphan`), deletion removes it
  (`DeletionRemoves`), drift is corrected (`ProfileConverges`), it writes no document
  twice (`AtMostOneDocument`) and alters none that it does not manage (`UnmanagedKept`);
  seen from outside, everything happens at once and for a reason (`ImplementsStore`).
- *Both together*: whoever comes first, users end up in the MongoDB that is there
  (`Provisioned`), and no document outlives its user (`EveryDocumentOwned`).
- *Two managers*: documents of one IMSI stay bounded (`DocumentsBounded`).

## 2. The modules

```
Subscriber ─┬─ SubscriberPasses ─── MCSubscriberPasses
            └─ UserResource ─┬─ Open5GSUser ─┬─ Open5GSUserStore ──── MCOpen5GSUser
                             │               └─ Open5GSUserManagers ─ MCOpen5GSUserManagers
                             └─ SubscriberStore   (abstract; INSTANCE in Open5GSUserStore)

Open5GSResources ─ Open5GSPlan ─┬─ Open5GSController ─┬─ MCOpen5GSController ─┬─ MCOpen5GSPods
                                │                     ├─ Open5GSPods ─────────┘
                                │                     └─ Operator ─ MCOperator
                                └─ Open5GSEdits ── MCOpen5GSEdits
```

The proofs are in modules of their own, each of which extends what it is about:

```
SubscriberProofs ─┬─ SubscriberPassesProofs     (SubscriberPasses)
                  └─ Open5GSUserProofs ─┬─ Open5GSUserStoreProofs     (Open5GSUserStore)
                                        └─ Open5GSUserManagersProofs  (Open5GSUserManagers)
Open5GSPlanProofs ─┬─ Open5GSControllerProofs   (Open5GSController)
                   └─ Open5GSEditsProofs        (Open5GSEdits)
```

`Operator` extends `Open5GSController` and instantiates `Open5GSUser`. Each run in
section 3 is a cfg file; `PROJECT.json` names its module.

A definition whose comment begins with `Mutant:` is a faulty variant of the one
after it. No specification uses it; substituted for the original it makes the
property named in `PROJECT.json` ("mutants") fail, which shows that the property
depends on that piece of the code. "map" in the same file gives for every other
definition the lines it stands for.

### Subscriber, SubscriberPasses

`Subscriber` translates the pure functions of `open5gsuser_resources.go`. A
document has the fields that are ever compared or set: `imsi`, `k`, `opc`,
`slice.0.sst`, `slice.0.sd`, `slice.0.session.0.name`. The empty string is Go's
unset field and `NoField` a key that a document does not have. `AtoiTable` is the
partial function `strconv.Atoi`. Stored integers carry the Go type to which the
driver decodes them, because `hasDrift` asserts a type. `NextCall` is the decision
of `addOrUpdateSubscriber` between insert, update and return.

`SubscriberPasses` makes a whole pass one step and lets the profile be edited and
the document be replaced between passes.

### Open5GSUser

One action per call of a pass: `AddFinalizer`, `reconcileSubscriber` (look up the
Service), `FindOne`, `InsertOne`, `UpdateOne`, `deleteSubscriber`, `DeleteOne`,
`RemoveFinalizer`. `history[u]` is the log of versions of a user; the resource
version is a position in it, `seen[u]` is the position of the cache, and
`worker.rv` the version the pass works on, so an update is accepted exactly if
`worker.rv` is the last position (`UpdateConflict` otherwise). A resource that is
created again continues the log after an absent version. `docs` holds for each
instance and IMSI the documents in the order of insertion: `FindOne`, `UpdateOne`
and `DeleteOne` act on the first. Failures: a call that fails without an effect
(`RequestFails`), a reply that is lost after the effect (`AddFinalizerReplyLost`,
`DeleteReplyLost`), a MongoDB that is gone (`MongoUnreachable`), a manager that is
replaced (`Restart`), a look-up of the Service that fails and is taken for its
absence (`LookUpFails`). The environment: owners, scripts on MongoDB, and what the
other controller and the kubelet do to MongoDB: the Service (`service`), the pod
behind it (`serving`) and the volume come and go one by one.

### SubscriberStore, Open5GSUserStore

`SubscriberStore` is what the controller promises to somebody who sees custom resources and
documents only. It has no cache, queue or pass. A resource is changed by its owner, but for its
finalizer (`Guard`, `Release`). A document is made where there is none, for a resource that is
held by its finalizer (`Provision`), brought to a spec (`Correct`), and removed for a resource
that is being deleted (`Remove`); the resource is released after that. What others do in MongoDB
(`Lose`) is counted in `events`, so that no removal by the controller can pass for one of theirs.
In `Open5GSUserStore` the resource is `Current(u)`, the last version of the log, and the documents
are `docs`; the steps of a pass that change neither are stutters. The weak points of the code show
in the abstraction: a correction may apply a spec that is not the last one; a removal may be for a
namesake's subscriber, or come late, for a document that a deletion left behind when it missed the
MongoDB and that nobody stands for any more; and only `Lasting` instances, those that are never
missed when they are looked up (`NeverMissed`), have their document removed before the release.

### Open5GSUserManagers

`Open5GSUser` twice over the same API server and MongoDB: `Other` is the instance
with a cache, queue and worker of its own. A write that a manager gives up
(`GiveUp`, `OtherGivesUp`) ends its pass and stays in `late`; MongoDB may execute it
at any time (`LateCall`), or never.

### Open5GSResources, Open5GSPlan

`Open5GSResources` has `setDefaultValues`, the constructors and the comparisons.
An object's body has six fields: `labels` and `annotations`; `spec`, what the
comparison of its kind looks at; `rest`, what none looks at; `template` and `hash`,
the pod template annotations of a Deployment. A field holds the inputs that the
constructor prints, not the text: two desired bodies are equal exactly if all the
inputs that reach them are. `Drifted` is the comparison that guards an update and
`Updated` the object that the update writes, per kind. `Refused` says that an
update of a bound claim is rejected by the API server.

`Open5GSPlan` gives the calls of a pass as a sequence of steps, for each function
(`reconcileComponent` with its `reconcileServices`, `reconcileUPF`,
`deleteComponentResources`, `Pass`). The sequence depends on the custom resource alone.

Names are sequences of their `-`-separated parts, so that the prefix test on
Service names is the code's: instance `core` with function `upf` and instance
`core-upf` share a prefix.

### Open5GSController

`objects[key]` is the log of versions of a Kubernetes object from the cached one to
the current one, `cr[i]` the same for the custom resources. A worker with a pass is
`[at, instance, uid, version, monitors, doomed]`: the position in the plan, the
resource it works for, whether the ServiceMonitor API was there at the start of
the component, and the objects listed for deletion. Each call is a step: `Create`,
`AlreadyExists`, `LeaveForeign`, `LeaveEqual`, `Update`, `UpdateRefused`,
`LookUpMonitorAPI`, `MonitorsGone`, `ListByLabel`, `ListUnwantedMonitors`,
`ListOwnedByName`, `DeleteNextListed`, `AllListedDeleted`, `DeleteByName`,
`Finish`.

A read and the write that follows it are one step. Nothing is lost by that: the
read is of the cache, and a cache that may trail shows at the time of the write
whatever it showed at the time of the read. `Lagging` names the kinds whose
cache trails in a run, and `MaxLag` bounds by how many versions.

### Open5GSPods

`Open5GSController` with the pods: `RollOut` when the template changed,
`RestartPod`, `StopPod`. A pod keeps the `spec` of the ConfigMap that was current
when it started.

### Open5GSEdits

All edits of one field at a time of one function's spec. It is the comparison of
all pairs of adjacent specs, without the cluster.

### Operator

Both controllers in one manager. Each keeps its own actions; the other one's
variables take the place of the environment:

| `Open5GSUser` has | here it is |
|---|---|
| `open5gs` | the Open5GS in the cache, `cr` |
| `service` | the `<name>-mongodb` Services in the cache, `objects` |
| `serving` | the instances whose MongoDB Deployment and claim exist |
| `docs` lost with the volume | emptied when the claim goes (`KeepVolumes`) |

`RestartBoth` stops both workers: they are one process. The environment actions of
`Open5GSUser` that make MongoDB come and go are not used.

## 3. What the runs check

Bounds are in the `MC*` modules (`Budget(...)`: how often each kind of environment
event may happen) and in the cfg files. Events are bounded, the controllers'
own steps are not: after the last event the worker goes on forever. Deadlock is not
checked, since before the first resource is created, and after the last one is
deleted, there is nothing to do.

### Runs that pass

| run | instance | what it shows |
|---|---|---|
| `MCSubscriberPasses` | all profiles and documents over 3 sst, 2 sd, 3 APNs, 2 keys | what one pass establishes (`OnePassSettles`, `CredentialsFollow`) and that after two quiet passes nothing is written any more (`WritingEnds`) |
| `MCUserSafety` | 2 users of one IMSI, 3 creations, 1 edit, 2 deletions, 1 removal by a script, 1 fault, 1 restart | `WriteUnderFinalizer`, `NoOrphan`, `AtMostOneDocument`, `ImplementsStore` |
| `MCUserConverges` | 1 user, 1 key rotation, 1 deletion, 1 write by a script, 2 changes of Open5GS, Service, pod or volume, 1 fault, 1 failed look-up, 1 restart | `ProfileConverges`, `DeletionRemoves`, `UnmanagedKept` |
| `MCUserManagers` | 1 user created twice (with another key), 1 deletion, 2 managers, 1 fault or call given up | `DocumentsBounded`, `ProfileConverges`, `DeletionRemoves` |
| `MCCoreSafety` | instances `core` and `core-nrf`; NRF; 2 creations, enabled or disabled, 1 deletion, 1 drift, removal or foreign object, a lagging Deployment cache | `UpdatesOnlyOwned`, `InstancesApart`, `ForeignSpared`, `NothingLeft` |
| `MCCoreUPF` | UPF; 1 edit, 1 drift or removal of any object (of one Service for the three), API installed and removed, 1 fault, 1 restart, ConfigMaps that the cache shows one version late | `Converges`, `RolloutAfterConfig` |
| `MCPods` | AMF with its pods; 1 edit out of four specs, API removed, 1 fault, 1 pod crash, lagging Services | `Converges`, `UnwantedRemoved`, `PodsConverge` |
| `MCEdits` | 11 functions, every pair of edits of their fields | `EditVisible` |
| `MCOperator` | MongoDB of one Open5GS, 2 edits (off and on), claim enlarged or removed by hand, 1 restart; 1 user created and deleted | `Provisioned`, `EveryDocumentOwned`, `Converges` |

Two resources suffice for what concerns two (a shared IMSI, a common prefix), since
a pass looks at one resource only. Two creations of one name suffice for the
confusion of an object with its namesake's, and two versions of lag (`MaxLag`) for
an old, a middle and a new version; in `MCCoreUPF` one version of lag, an old one for the last
one, is what its property is about. One fault and one restart can fall between any
two calls, and a pass is repeated from its start after each. One function is
looked at in a run (`Functions5G`) because all but the UPF are handled by the same
code with other inputs, and the steps of one never name an object of another: the
NRF is the plainest, the AMF has the most Services, the UPF its own path, MongoDB a
claim. Which function has which inputs is the subject of `MCEdits`, which takes
nearly all of them. `Exposed` and `Contested` name the objects that others touch or
make in a run. In `MCCoreSafety` they are a Deployment of `core`, which a pass finds by
its name, and a Service with the labels of a function, which it finds by them. In
`MCUserConverges` a script may insert a document between the two passes of a deletion, the second
of which works on an old version; in `MCCoreUPF` the cache of the ConfigMap shows an old version,
no object, or a drifted one while the Deployment is written. The
kinds of event are spread over the runs, so that each kind meets the kinds it
can interfere with; all of them at once is more than TLC can do. `MCOperator` looks at
MongoDB alone, the one function that both controllers know.

### Runs that show a disagreement

Each checks one property that the documentation states and the code does not keep
("findings" quotes the line).

| run | property | what happens |
|---|---|---|
| `MCUserSST` | `SSTConverges` | `hasDrift` asserts that the decoded sst is a Go `int`; the driver decodes `int32` or `int64`, so a changed sst is never seen and never written |
| `MCPodsRecreate` | `PodsConverge` | the new resource finds the ConfigMap of its namesake, leaves it alone, and yet announces the desired hash: the pod reads the old configuration and is not replaced when the ConfigMap is |
| `MCUserUnmanaged` | `UnmanagedUnaltered` | a pass on an old version, marked for deletion, of a resource that is gone deletes by IMSI and hits what a script has inserted since |

### Limits of the passing properties

The passing properties hold because they say exactly what the code does. What they
leave out on purpose, with the line where it can be seen:

| property | what it does not claim | why |
|---|---|---|
| `ProfileConverges` | an sd that is added later, an sst that is changed | `open5gsuser_resources.go:328-332`: compared only if the document's field has the asserted type |
| `ProfileConverges` | that `spec.open5gs.namespace` is obeyed, as README.md:92 has it | `open5gsuser_controller.go:51` looks in the user's own namespace |
| `CredentialsFollow` | specs with sd and without sst | `open5gsuser_resources.go:42`: the update fails before it writes |
| `WritingEnds` | that the document is right when writing ends: the README's default for an omitted APN, the sst that a spec without sd provides | `open5gsuser_resources.go:50`: the pass after the insert takes the default APN for drift and writes `""`; `:369`: the constructor for the APN inserts the default sst, which is never compared |
| `WritingEnds` | a spec without a slice whose document has an sd | `open5gsuser_resources.go:41`: every pass sees the sd, and none clears it |
| `UnmanagedKept` | a deletion that comes late (`LateDeletion`) | `open5gsuser_resources.go:78` deletes by IMSI, for a resource released since its version was read (`MCUserUnmanaged`) |
| `DeletionRemoves` | that the deletion ends | `open5gsuser_resources.go:83`: after a lost reply, or without a document, every retry fails and the finalizer stays |
| `NoOrphan`, `ImplementsStore` | edits of the IMSI or reference; a deletion while the Service or the Open5GS is away, or its look-up fails | the old document is not looked for; `open5gsuser_controller.go:111` releases the finalizer without the document |
| `WriteUnderFinalizer`, `NoOrphan`, `AtMostOneDocument` | two managers, calls executed late | one manager inserts for a user that the other has just released; both find no document and insert one. `DocumentsBounded` is what remains |
| `InstancesApart` | a Service, ServiceMonitor or account with the labels of one instance under a name of another's, made by somebody else | `open5gs_controller.go:249` deletes what it finds by labels; the theorem asks for `NobodyUsesTheLabels` |
| `RolloutAfterConfig` | an edit that is taken back while the cache of the ConfigMaps lags; a name that is used again while a ConfigMap of its last use is there; somebody else who makes the ConfigMap | an old ConfigMap is taken for the one there is, and left alone; the namesake's is left alone (`MCPodsRecreate`), and so is anybody's. The theorem excludes the first two by `NothingComesBack` and the third by `ConfigMapsAreOurs` |
| `EveryDocumentOwned` | a pass that fails or is cut off between the Service and the claim, MongoDB being wanted again by the next one; an Open5GS made anew whose old Service is collected after the new claim is there; a Service that is removed by hand | in each of them a user deleted meanwhile finds no Service, and the volume with its document stays |
| `ForeignSpared` | Services, ServiceMonitors, accounts; objects the cache does not show yet | `open5gs_controller.go:249` deletes by labels; a delete names no version |
| `NothingLeft` | names that others use as well | an object of somebody else's has no owner that is gone |
| `Converges` | fields outside `ManagedFields`: replicas, ports, security contexts; image and account of an existing UPF Deployment; labels of a ConfigMap | no comparison looks at the first; the UPF's Deployment is compared by its pod annotations only (`open5gs_controller.go:1030`), so a new image never reaches it; the labels are compared and not copied (`open5gs_controller.go:956`) |
| `Converges`, `UnwantedRemoved` | a claim that drifted, and what comes after it in the pass (`Stuck`) | its update is refused every time (`open5gs_controller.go:1075`), and the pass gets no further |
| `UnwantedRemoved` | UPF and MongoDB disabled | `<name>-upf-entrypoint` and `<name>-mongodb-common-scripts` stay: `open5gs_controller.go:830` looks for the component's own name only, although the comment before it (`:827`) speaks of all the resources of a component |
| `PodsConverge` | a ConfigMap that drifts while a pod starts; an edit that is taken back while a cache lags or after a pass that failed half way; a name used again (`MCPodsRecreate`) | the hash is that of the desired data (`open5gs_controller.go:975`): it does not change when the ConfigMap is put right |
| `EditVisible` | the WebUI's `mongoDBVersion`, all of the UPF | `controller_resources.go:66` compares no init containers; the UPF has its own path |

## 4. Fairness

Liveness is checked under `FairSpec` (`PodsSpec` with pods, `OperatorSpec` for both
controllers, `ManagersSpec` for two managers, each of them scheduled the same way):

- weak fairness of the worker: a goroutine that has begun a pass goes on, because
  every call returns or fails by its timeout. `RequestFails` is not fair, and bounded;
- weak fairness of `SyncCache`, `SyncOpen5GS`, `SyncObject`: a watch delivers in
  the end, or is opened again;
- strong fairness of `Start`: it is disabled while the worker is busy with another
  resource, and enabled again and again; the workqueue is first in, first out, and
  every pass but that of a missing resource ends with a requeue. (That the requeue
  happens is part of the model and not assumed: the mutants `RequeueForgotten` and
  `FinishForGood` break convergence.)
- weak fairness of `CollectGarbage`, `RollOut`, `StopPod`: the garbage collector and
  the Deployment controller of Kubernetes, external to the repository.

Nothing is assumed of owners, scripts, faults and restarts, nor of a call that was
given up (`LateCall`), nor that a pod of MongoDB ever starts (`StartMongoDB`): what
is said of a user is said while its MongoDB answers.

`Provisioned` and `EveryDocumentOwned` are of the form "from some time on, always":
they speak about the end of every behaviour, when the bounded events have happened.
`EveryDocumentOwned` holds of the behaviours without a fault and a restart of
the Open5GS controller's pass (`Smooth`); the run has restarts for `Provisioned` and
`Converges`, which need no such condition.

## 5. What is proved

All the properties of the passing runs that are not liveness are theorems, proved
by TLAPS for every value of the constants under the ASSUMEs `SubscriberAssumption`,
`DocumentsAssumption`, `ResourceAssumption`, `UserAssumption`, `ControllerAssumption`
and `EditsAssumption`, which TLC evaluates in the runs. Further hypotheses are listed with
the theorem; the run that checks its property satisfies them.

### One subscriber

- `SubscriberProofs`: a document stays a document under insert and update, and right
  after either `hasDrift` is false where the code can see it (`NoDriftAfterUpdate`,
  `NoDriftAfterAdd`).
- `SubscriberPassesProofs`: `PassesTypeCorrect`, `PassesApplyCredentials`,
  `PassesSettleComplete`, `PassesEndWriting`, from the lemma `PassOutcome`, which
  splits a pass into its three outcomes. Each property is inductive together with
  what the counter `quiet` says of the last step.

### The user controller

| theorem | property | hypotheses |
|---|---|---|
| `TypeCorrect` | `TypeOK` | |
| `WritesUnderFinalizer` | `WriteUnderFinalizer` | |
| `OneDocumentPerIMSI` | `AtMostOneDocument` | `ExternalDocuments = {}` |
| `NoDocumentOrphaned` | `NoOrphan` | and `SettledSpecs`, `Bound["core"] = Bound["lookup"] = 0` |
| `ManagedOnlyAltered` | `UnmanagedKept` | `SettledSpecs` |
| `StoreImplemented` | `ImplementsStore` | `ExternalDocuments = {}`, `SettledSpecs` |
| `DocumentsStayBounded` (two managers) | `DocumentsBounded` | `ExternalDocuments = {}` |

The hypotheses: only the operator inserts documents (scripts may remove them); an
owner edits everything but the IMSI and the name of the Open5GS, since the code never
looks for the document of the old one; no Open5GS or MongoDB goes and no look-up of
it fails, since the code then releases a deleted resource without its document.
Section 3 says where in the code each is needed. `MCUserSafety`, `MCUserConverges` and
`MCUserManagers` are instances that satisfy them. `ManagedOnlyAltered` needs the second
one only: scripts insert, change and remove what they like, and instances come and go.

*Writes.* `WriteUnderFinalizer` is not inductive. The pass read an old version with a
finalizer and without a deletion timestamp; why can the resource not be gone by now? Because
only the worker takes the finalizer off, it does so by an update, and an update is
accepted only for the last version, which the worker had from the cache. So before a
finalizer goes, the cache has passed every older version. The invariant says it so:

- `FinalizerHeld`: as long as the cache has yet to pass a version that has the
  finalizer and no deletion mark, the resource exists with its finalizer;
- `DeletionPass`: a pass that deletes works on a version marked for deletion, which
  the cache has reached;
- `IInv == TypeOK /\ FinalizerHeld /\ DeletionPass /\ WriteUnderFinalizer`.

The lemma `WriteKeepsFinalizer` treats a write to the log of a user once for
all actions that append to it; `OwnersKeep`, `ManagerKeeps`, `WorkerKeeps` and
`EnvironmentKeeps` then take the actions one by one.

*One document.* The invariant `Single` adds to `AtMostOneDocument` that a pass about to
insert still finds nothing (`InsertsFirst`): there is one worker, and between its `FindOne`
and its `InsertOne` everybody else only removes documents. `DocumentsStep` says what any step
does to the documents of an IMSI and to the insertion that is pending; the lemmas
`...Documents` show it action by action, and both `Single` and the bound for two managers
follow from it alone.

*Orphans.* The invariant wanted is `Covered`: a document has a resource that carries the
finalizer. It fails if the finalizer is taken off while there is a document, so
`ReleasedLast` says that there is none when a pass comes to that, and `PassTarget` that
the pass looked in the instance its version means. And it fails if a deletion seen late
removed the finalizer of a resource that has been made anew. Why can this not be? A pass
may still hold a version marked for deletion; but a finalizer is put on only by a pass,
on a version the cache has reached, so a resource in service was marked, if ever,
before any version that a pass can hold (`LogInv`: `LogsFaithful`, `CacheNotRevived`,
`PassNotRevived`, `AddingPass`). `StoreInv == MongoStays /\ PassTarget /\ Covered /\
ReleasedLast` is inductive together with `LogInv` and the invariants before. Its parts
speak of the instances in `NeverMissed` only: where an instance may be missed, they
claim nothing, and `StoreImplemented` holds there as well.

*Refinement.* `StoreImplemented` is the step-by-step simulation of `SubscriberStore`: initial
states map to initial states, and under `IInv`, `Single`, `LogInv` and `StoreInv` every
step is a step of the abstract specification or a stutter (`OwnersRefine`,
`ManagerRefines`, `WorkerRefines`, `FaultsRefine`, `OutsideRefines`). Each invariant has its
place: an insert is a `Provision` because the resource holds its finalizer and nothing
was inserted meanwhile; `RemoveFinalizer` is a `Release` because of `ReleasedLast`; a
`DeleteOne` is a `Remove` because of `LogInv`.

*Two managers.* What is proved of one manager holds of the other: `OtherProofs` is
`Open5GSUserProofs` for the other cache, queue and worker, and the lemmas `Same...` and
`Other...` identify its actions with those of `Other`. The invariant counts
(`Counted`): documents, insertions pending in either manager, and calls given up that
are yet to insert, are together at most two more than the failures so far.

### The Open5GS controller

| theorem | property | hypotheses |
|---|---|---|
| `ControllerTypeCorrect` | `TypeOK` | |
| `UpdatesAreOwned` | `UpdatesOnlyOwned` | |
| `ForeignObjectsSpared` | `ForeignSpared` | |
| `InstancesStayApart` | `InstancesApart` | `NobodyUsesTheLabels` |
| `RolloutsAfterConfig` | `RolloutAfterConfig` | `ConfigMapsAreOurs`, `Numberings(Age)`, `[][NothingComesBack(Age)]_vars` |
| `EditsAreVisible` | `EditVisible` | neither the UPF nor the WebUI is edited |

`NobodyUsesTheLabels`: others make no Service, monitor or account under a name that a
component of an instance has, and what they write into one are not the labels of an
instance. `ConfigMapsAreOurs`: nobody else makes a ConfigMap under these names; that one of
ours drifts or is removed by hand is allowed. `NothingComesBack(Age)` is about what owners do: no
edit asks for a configuration older than the present one, in some numbering `Age` of the
configurations of each instance and function (`Numberings`), and a name is created again only
when no ConfigMap of its last use is left, in the cluster or in the cache (`Unused`). Nothing is
asked of caches: all of them may lag. `MCCoreSafety` and `MCEdits` satisfy what is asked of them.
TLC does not evaluate the hypothesis about behaviours; `MCCoreUPF` satisfies it, since it creates
the name once and edits it once.

*Plans.* `Open5GSPlanProofs` is about the sequence of calls of every pass, whatever the
spec: names are those of the instance, what is listed is deleted before anything else is
listed, and a Deployment comes right after the ConfigMap its hash is of. `IsPlan` holds
of a concatenation if it holds of the parts (`PlanConcatenation`), so it is shown for each
piece and follows for `Pass` (`PassPlan`). `NamesApart`: no object name belongs to two
instances, also when the name of one begins with that of the other.

*Updates.* The controller checks the owner on what its cache shows, which may be old;
but the API server accepts an update of the last version only, and then the cache
showed the last version (`FreshLog`, `UpdateSafe`). The only invariant needed is
that the log of an object is never empty (`Logs`).

*Types.* `Sound` adds to `TypeOK` the shapes of the records. `NewVersions` says where a
version in a log comes from: it was there, or a pass applied it, or the environment made it; it
is shown once for all actions and used for every invariant about objects. `WorkerMoves` does
the same for the pass: it goes on in its plan (`GoesOn`) or ends.

*Foreign objects.* A delete names no version, so the argument for updates does not apply.
`ForeignSpared` speaks of objects the cache shows as they are; there a deletion by name checks the
owner, and a deletion of listed objects concerns the kinds picked by labels
(`DoomedKinds`).

*Instances.* A pass may hold a UID that is gone, and the cache may show objects of
resources that are gone, so "the owner of the object is the instance of its name" says too
little. `Claim(uid, i)` says of a UID that a cache or a pass still knows: objects
with this owner have names of instance `i`, names of `i` have no later owner, and a pass for
`i` works for no later resource. `OwnersSound` (UIDs are counted, apart, growing along a log, and
claimed) is inductive; with it, what a pass lists by labels is its own instance's
(`LabelsApart`, `DoomedApart`), and what it deletes by name is its own by `NamesApart`.

*Rollout.* Between the call that applies the ConfigMap and the one that applies the
Deployment there is a state, and `ConfigFirst` says of it that the ConfigMap holds what
the hash is of. The call may have left the ConfigMap alone, because the cache showed it equal.
How can that be right, when the cache shows an old version? Because then everything
between that version and the last one is as new as the configuration of the pass and no newer:
`Aged` says that the numbers of the configurations do not decrease along the versions of the
ConfigMap from the cached one on, from there to the pass, and from the pass to the versions of the
resource. The cached ConfigMap is equal to what the pass asks for, so nothing in between
differs from it, but for what has drifted or is gone. `OneOwner`
says that all there is of an instance, in caches, cluster and pass, has one UID; so a
ConfigMap that is found is not left alone as somebody else's. Both would fail if a
configuration or a name came back, which is what `NothingComesBack` excludes (for the name,
`MCPodsRecreate` shows what then happens to the pods). The lemmas `ConfigMapNext` and `ResourcesNext` say once
what any step does to a ConfigMap and to a resource.

*Edits.* `EditsAreVisible` needs no cluster. Every call of a pass asks for one of four forms of
object (`Asks`), and two calls for the same object with different bodies differ in a compared
field: what is not compared follows from the name of the object (the port of a Service) or from
what is hashed (the metrics of a Deployment, `HashShowsMetrics`). For the UPF and the WebUI this
is false (section 3). The run compares edits of one field; the theorem has any two specs.

### Only model-checked

What is left are the liveness properties, since fairness and ENABLED are out of the prover's
reach: `ProfileConverges`, `DeletionRemoves`, `Converges`, `UnwantedRemoved`, `NothingLeft`,
`PodsConverge`, `Provisioned`, `EveryDocumentOwned`. And no theorem speaks about the composition
`Operator` and about pods.

## 6. Abstractions

- One namespace for the Open5GS controller. The user controller has any number: a user has a
  namespace, and names one in its spec, which the code does not look at.
- The hash of a configuration is its content: SHA-256 is taken to be injective.
- Requests to MongoDB take effect before the call returns, but for
  `Open5GSUserManagers`, where a write may be executed after its client gave up.
- In `Operator`, MongoDB answers while its Deployment and claim exist: the time its pod
  takes to start is not modelled there (it is in `Open5GSUser`). Restarts of the
  manager hit both controllers, failures of single requests the user controller
  in its own runs.
- Documents have the shape that this operator and the Open5GS WebUI write; other
  shapes make `hasDrift` panic in an unchecked type assertion.
- A restarted manager keeps the position of its cache, or any later one: a first
  list is at least as new as what the previous manager had seen. This is so when the
  API server's watch cache is not behind another's.
- A deletion of an Open5GS raises an event that the filter drops, so the queue does
  not grow by it.
- A deleted claim is gone at once; in a cluster it waits for its pod.
- The second loop over the Services of a component looks each up again. Where the cache
  shows no Service there, and none exists, the model creates it; the code would try
  to create the object of the first loop a second time and fail, and the next pass
  creates it. Only a Service that goes between the two loops makes the difference.
- Foreign objects have the labels of a component at worst, and an owner of their own.
- Logging, status conditions, event recording and the text of all files are left out.
  The status fields of both types are never written by the controllers.

## 7. Not modelled

- Deep copies: generated, without behaviour.
- Charts and manifests under `charts/` and `config/`: declarations.
- Tests: read for what they expect.
- Flags, TLS, probes and metrics endpoint of the manager; the election of a leader
  itself. Two managers at once are modelled for the user controller only: two of the
  Open5GS controller meet in the API server, which refuses the second creation and
  the stale update.
- Documents that make `hasDrift` panic (section 6).
- The text of configuration files and scripts, ports, probes, security contexts:
  one field of a body, by the inputs that are printed into it.
- The network functions themselves.

## 8. Plan

1. *(done)* `Subscriber`, `SubscriberPasses`, `Open5GSUser` with runs and proofs.
2. *(done)* `Open5GSResources`, `Open5GSPlan`, `Open5GSController`, `Open5GSPods`,
   `Open5GSEdits` with runs.
3. *(done)* The abstract `SubscriberStore`, implemented by `Open5GSUser`.
4. *(done)* Two managers and late calls (`Open5GSUserManagers`); both controllers in
   one manager (`Operator`).
5. *(done)* Proofs about the user controller: the safety properties, the refinement of
   `SubscriberStore`, and the bound for two managers.
6. *(done)* Proofs about the Open5GS controller: its types and safety properties, the
   order of the calls in a plan, and what edits its comparisons show.
7. Proofs about the composition: the steps of each controller in `Operator` are steps of
   its own specification, so that its invariants hold there; and the action
   properties of the Open5GS controller under the steps of the pods.
