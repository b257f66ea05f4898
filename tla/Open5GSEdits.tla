----------------------------- MODULE Open5GSEdits -----------------------------
(***************************************************************************)
(* The edits an owner can make to the spec of an Open5GS resource, one     *)
(* field after the other, against what the controller compares: a change   *)
(* of a desired object that no compared field shows is never applied to    *)
(* the object that exists.                                                 *)
(***************************************************************************)
EXTENDS Open5GSPlan

CONSTANTS
  Instance,            \* the parts of its name
  EmptySpec,           \* the spec that sets nothing
  Looked,              \* the network functions looked at
  MaxEdits,
  Addresses            \* values of a field that is a string

ASSUME EditsAssumption ==
  Looked \subseteq Names /\ MaxEdits \in Nat /\ Instance \in Seq(STRING)

VARIABLES
  component,           \* the network function whose part of the spec is edited
  spec, edits
vars == <<component, spec, edits>>

Pointers == {Nil, TRUE, FALSE}
Strings == {Nil} \cup Addresses
ServiceTypes == {"NodePort", "LoadBalancer", "ClusterIP"}
ServiceEntries(c) ==
  {<<>>} \cup {<<[name |-> port, serviceType |-> type]>> : port \in TypedPorts(c), type \in ServiceTypes}

SliceLists == {Nil, <<>>, <<[sst |-> "2", sd |-> "0x111111"]>>}
ValuesOf(c) ==
  [enabled |-> Pointers, serviceAccount |-> Pointers, metrics |-> Pointers, serviceMonitor |-> Pointers,
   service |-> ServiceEntries(c), gtpuDev |-> Strings, deploymentAnnotations |-> Strings,
   unprivileged |-> Pointers]

Init == component \in Looked /\ spec = EmptySpec /\ edits = 0

EditFunction(field) ==
  \E value \in ValuesOf(component)[field] : spec' = [spec EXCEPT !.functions[component][field] = value]
EditConfiguration(field) ==
  \E value \in IF field = "slices" THEN SliceLists ELSE Strings :
    spec' = [spec EXCEPT !.configuration[field] = value]
EditImage(field) ==
  \E value \in Strings : spec' = [spec EXCEPT ![field] = value]

Edit ==
  /\ edits < MaxEdits /\ edits' = edits + 1
  /\ UNCHANGED component
  /\ \/ \E field \in DOMAIN ValuesOf(component) : EditFunction(field)
     \/ \E field \in DOMAIN spec.configuration : EditConfiguration(field)
     \/ \E field \in {"open5gsImage", "webuiImage", "mongoDBVersion"} : EditImage(field)

Spec == Init /\ [][Edit]_vars

-------------------------------------------------------------------------------
PassFor(s) == Pass(setDefaultValues(s), Instance, {component})

NextPassSees ==
  LET before == PassFor(spec)
      after == PassFor(spec')
  IN  \A n \in Desired(before), m \in Desired(after) :
        before[n].key = after[m].key /\ before[n].body # after[m].body
          => Drifted(after[m].key, Instance, before[n].body, after[m].body)

(***************************************************************************)
(* Every edit that changes an object which is wanted before and after it   *)
(* changes a field of it that is compared: the next pass corrects it.      *)
(***************************************************************************)
EditVisible == [][NextPassSees]_vars

===============================================================================
