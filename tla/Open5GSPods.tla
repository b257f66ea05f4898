----------------------------- MODULE Open5GSPods -----------------------------
(***************************************************************************)
(* The Open5GS controller together with the pods of the Deployments it     *)
(* writes. A pod reads its configuration once, when it starts: the         *)
(* ConfigMap is mounted by subPath, which the kubelet never refreshes.     *)
(* A Deployment starts a new pod when its template changes, and the hash   *)
(* of the configuration is in the template for that reason alone.          *)
(***************************************************************************)
EXTENDS Open5GSController

CONSTANTS
  NoPod,
  PodRestarts          \* how often a pod may crash or be evicted

ASSUME PodsAssumption == PodRestarts \in Nat

VARIABLES
  pods,                \* instance -> function -> the template and configuration its pod runs with
  restarts

podVars == <<pods, restarts>>

DeploymentOf(i, c) == Current(objects[Key("Deployment", i, c, <<>>)])
ConfigMapOf(i, c) == Current(objects[ConfigMapKey(i, c)])
Template(deployment) ==
  [f \in {"spec", "rest", "template", "hash"} |-> deployment.body[f]]
SetPod(i, c, pod) == pods' = [pods EXCEPT ![i][c] = pod]

PodsInit ==
  /\ Init
  /\ pods = [i \in Instances |-> [c \in Functions5G |-> NoPod]]
  /\ restarts = 0

\* Without its ConfigMap a pod does not start.
RollOut(i, c) ==
  /\ DeploymentOf(i, c) # NoObject /\ ConfigMapOf(i, c) # NoObject
  /\ pods[i][c] # NoPod => pods[i][c].runs # Template(DeploymentOf(i, c))
  /\ SetPod(i, c, [runs |-> Template(DeploymentOf(i, c)), config |-> ConfigMapOf(i, c).body.spec])
  /\ UNCHANGED <<vars, restarts>>

RestartPod(i, c) ==
  /\ restarts < PodRestarts /\ restarts' = restarts + 1
  /\ pods[i][c] # NoPod /\ ConfigMapOf(i, c) # NoObject
  /\ SetPod(i, c, [runs |-> pods[i][c].runs, config |-> ConfigMapOf(i, c).body.spec])
  /\ UNCHANGED vars

StopPod(i, c) ==
  /\ DeploymentOf(i, c) = NoObject /\ pods[i][c] # NoPod
  /\ SetPod(i, c, NoPod)
  /\ UNCHANGED <<vars, restarts>>

PodsNext ==
  \/ Next /\ UNCHANGED podVars
  \/ \E i \in Instances, c \in Functions5G : RollOut(i, c) \/ RestartPod(i, c) \/ StopPod(i, c)

PodsSpec ==
  /\ PodsInit /\ [][PodsNext]_<<vars, podVars>>
  /\ WF_<<vars, podVars>>(Worker /\ UNCHANGED podVars)
  /\ \A i \in Instances :
       /\ WF_<<vars, podVars>>(SyncOpen5GS(i) /\ UNCHANGED podVars)
       /\ SF_<<vars, podVars>>(Start(i) /\ UNCHANGED podVars)
       /\ WF_<<vars, podVars>>(StartGone(i) /\ UNCHANGED podVars)
  /\ \A key \in Keys :
       /\ WF_<<vars, podVars>>(SyncObject(key) /\ UNCHANGED podVars)
       /\ WF_<<vars, podVars>>(CollectGarbage(key) /\ UNCHANGED podVars)
  /\ \A i \in Instances, c \in Functions5G :
       WF_<<vars, podVars>>(RollOut(i, c)) /\ WF_<<vars, podVars>>(StopPod(i, c))

(***************************************************************************)
(* "The operator will restart the necessary pods to apply the changes":    *)
(* once the environment is quiet, every pod of an enabled function runs    *)
(* with the configuration that its resource asks for, and not only the     *)
(* ConfigMap holds it.                                                     *)
(***************************************************************************)
Running(i, c) ==
  Exists(i) /\ Key("Deployment", i, c, <<>>) \in DesiredKeys(PassOf(i))
PodsConverge ==
  \A i \in Instances, c \in Functions5G :
    <>[](Running(i, c) =>
           /\ pods[i][c] # NoPod
           /\ pods[i][c].config = ConfigMapData(setDefaultValues(SpecOf[Current(cr[i]).version]), c))

===============================================================================
