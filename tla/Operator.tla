------------------------------- MODULE Operator --------------------------------
(***************************************************************************)
(* The two controllers in one manager: what the Open5GS controller makes   *)
(* of MongoDB is what the Open5GSUser controller finds. The look-ups of a  *)
(* user's pass read the cache in which the Open5GS controller reads its    *)
(* own resource and Service; the calls to MongoDB reach what the           *)
(* Deployment and the claim are at that moment.                            *)
(***************************************************************************)
EXTENDS Open5GSController

CONSTANTS
  Namespace,                                        \* the one namespace looked at
  Users, SpecsOf, UserBound, NoUser, NoSpec,        \* as in Open5GSUser
  IMSIs, UserKeys, OPCs, SSTs, SDs, APNs, AtoiTable, NoField

VARIABLES
  history, seen, userQueue, userWorker, docs, userUsed

userVars == <<history, seen, userQueue, userWorker, userUsed>>
operatorVars == <<vars, userVars, docs>>

Named(i) == [name |-> i, namespace |-> Namespace]
NamedAll(instances) == {Named(i) : i \in instances}

ServiceKey(i) == Key("Service", i, "mongodb", <<>>)
DeploymentKey(i) == Key("Deployment", i, "mongodb", <<>>)
ClaimKey(i) == Key("PersistentVolumeClaim", i, "mongodb", <<>>)
There(key) == Current(objects[key]) # NoObject

\* MongoDB answers while its Deployment and its claim are there.
Serving(i) == There(DeploymentKey(i)) /\ There(ClaimKey(i))

User == INSTANCE Open5GSUser WITH
  Keys <- UserKeys, CoreNames <- Instances, Namespaces <- {Namespace},
  NamespaceOf <- [u \in Users |-> Namespace],
  ExternalDocuments <- {}, InitialInstances <- {}, Bound <- UserBound, NoCore <- NoInstance,
  queue <- userQueue, worker <- userWorker, used <- userUsed,
  open5gs <- NamedAll({i \in Instances : Cached(cr[i]) # NoObject}),
  service <- NamedAll({i \in Instances : Cached(objects[ServiceKey(i)]) # NoObject}),
  serving <- NamedAll({i \in Instances : Serving(i)})

NoDocuments == [imsi \in IMSIs |-> <<>>]

OperatorInit == Init /\ User!Init

\* A claim that goes takes its documents with it.
KeepVolumes ==
  docs' = [c \in DOMAIN docs |->
             IF Current(objects'[ClaimKey(c.name)]) = NoObject THEN NoDocuments ELSE docs[c]]

CoreStep(Action) == Action /\ UNCHANGED userVars /\ KeepVolumes
CoreManager ==
  \/ \E i \in Instances : SyncOpen5GS(i) \/ Start(i) \/ StartGone(i)
  \/ \E key \in Keys : SyncObject(key)
CoreNext == CoreStep(Owners \/ CoreManager \/ Worker \/ RequestFails \/ LookUpFails \/ Outside)

UserManager == \E u \in Users : User!SyncCache(u) \/ User!Start(u) \/ User!StartGone(u)
UserNext == UNCHANGED vars /\ (User!Owners \/ UserManager \/ User!Worker \/ User!Faults)

\* Both controllers stop and start as one process.
RestartBoth == Restart /\ User!Restart

OperatorNext == CoreNext \/ UserNext \/ RestartBoth

OperatorFairness ==
  /\ WF_operatorVars(CoreStep(Worker)) /\ WF_operatorVars(UNCHANGED vars /\ User!Worker)
  /\ \A i \in Instances :
       /\ WF_operatorVars(CoreStep(SyncOpen5GS(i)))
       /\ SF_operatorVars(CoreStep(Start(i)))
       /\ WF_operatorVars(CoreStep(StartGone(i)))
  /\ WF_operatorVars(CoreStep(\E key \in Keys : SyncObject(key)))
  /\ WF_operatorVars(CoreStep(\E key \in Keys : CollectGarbage(key)))
  /\ \A u \in Users :
       /\ WF_operatorVars(UNCHANGED vars /\ User!SyncCache(u))
       /\ SF_operatorVars(UNCHANGED vars /\ User!Start(u))
       /\ WF_operatorVars(UNCHANGED vars /\ User!StartGone(u))

OperatorSpec == OperatorInit /\ [][OperatorNext]_operatorVars /\ OperatorFairness

-------------------------------------------------------------------------------
(***************************************************************************)
(* Whoever is first, the Open5GS or its users, and however often MongoDB   *)
(* or the whole Open5GS is taken away and asked for again, with its volume *)
(* lost each time: once the environment is quiet, every user of an Open5GS *)
(* that wants MongoDB has its subscriber there, with its credentials.      *)
(***************************************************************************)
WantsMongoDB(i) ==
  Exists(i) /\ setDefaultValues(SpecOf[Current(cr[i]).version]).functions["mongodb"].enabled
Live(u) == User!Current(u).present /\ ~User!Current(u).deleting
Provisioned ==
  \A u \in Users :
    <>[](Live(u) /\ WantsMongoDB(User!Current(u).spec.open5gs.name) =>
           /\ User!DocsOf(u) # <<>>
           /\ User!CredentialsMatch(User!Current(u).spec.profile, Head(User!DocsOf(u))))

(***************************************************************************)
(* A user that goes while there is no MongoDB Service leaves its document  *)
(* behind; but what is disabled soon has no volume either, and in the end  *)
(* every document has its user: unless a pass that takes MongoDB away is   *)
(* cut short between the Service and the claim, and MongoDB is wanted      *)
(* again by the next one; or the Open5GS is made anew, and the garbage     *)
(* collector takes the old Service only after the old claim.               *)
(***************************************************************************)
Smooth == used["fault"] = 0 /\ used["crash"] = 0 /\ used["create"] <= 1
EveryDocumentOwned == <>[](Smooth => User!NoOrphan)

===============================================================================
