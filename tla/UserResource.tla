------------------------------ MODULE UserResource ------------------------------
(***************************************************************************)
(* The Open5GSUser custom resource as the API server keeps it: its spec,   *)
(* the finalizer, the deletion mark, and the place where its subscriber    *)
(* belongs. What the specifications of its controller have in common.      *)
(***************************************************************************)
EXTENDS Subscriber

CONSTANTS
  Users,               \* the names an Open5GSUser may have, in one namespace each
  CoreNames, Namespaces,
  NamespaceOf,         \* user -> metadata.namespace
  SpecsOf,             \* user -> the specs its owner may give it
  NoSpec

Cores == [name : CoreNames, namespace : Namespaces]
UserSpec == [profile : Profile, open5gs : Cores]

ASSUME ResourceAssumption ==
  /\ NamespaceOf \in [Users -> Namespaces]
  /\ SpecsOf \in [Users -> SUBSET UserSpec]
  /\ NoSpec \notin UserSpec

Existing == [present : {TRUE}, deleting : BOOLEAN, finalizer : BOOLEAN, spec : UserSpec]
Absent == [present |-> FALSE, deleting |-> FALSE, finalizer |-> FALSE, spec |-> NoSpec]
Object == {Absent} \cup Existing
Created(spec) == [present |-> TRUE, deleting |-> FALSE, finalizer |-> FALSE, spec |-> spec]

\* What a deletion leaves: with a finalizer the resource stays, marked.
Deleted(object) == IF object.finalizer THEN [object EXCEPT !.deleting = TRUE] ELSE Absent

\* The Open5GS that a spec means: the name is the spec's, the namespace the user's own.
Target(u, spec) == [name |-> spec.open5gs.name, namespace |-> NamespaceOf[u]]

===============================================================================
