---------------------------- MODULE SubscriberStore ----------------------------
(***************************************************************************)
(* What the Open5GSUser controller promises to those who see only custom   *)
(* resources and MongoDB: no caches, no queue, no passes that fail half    *)
(* way. A document appears, changes and goes in one step, for a reason     *)
(* that holds at that moment; and a resource changes by its owner alone,   *)
(* but for its finalizer.                                                  *)
(*                                                                         *)
(* It holds while nobody else inserts documents (somebody may remove them) *)
(* and each user keeps its IMSI and its Open5GS. What others do is counted *)
(* so that the controller cannot pass a removal of its own off as theirs.  *)
(***************************************************************************)
EXTENDS UserResource

CONSTANT Lasting       \* the instances whose MongoDB is never missed when looked up

VARIABLES
  resource,  \* user -> the custom resource
  docs,      \* instance -> IMSI -> the documents with that imsi, oldest first
  events     \* how often somebody else has touched MongoDB, or an instance

storeVars == <<resource, docs, events>>

DocsFor(u, spec) == docs[Target(u, spec)][spec.profile.imsi]
SetDocsFor(u, spec, found) ==
  /\ docs' = [docs EXCEPT ![Target(u, spec)][spec.profile.imsi] = found]
  /\ UNCHANGED <<resource, events>>

SetResource(u, object) ==
  /\ resource' = [resource EXCEPT ![u] = object]
  /\ UNCHANGED <<docs, events>>

\* A resource that must be released before it can go.
Held(u) == resource[u].present /\ resource[u].finalizer
HeldFor(u, i, imsi) ==
  Held(u) /\ Target(u, resource[u].spec) = i /\ resource[u].spec.profile.imsi = imsi

Init ==
  /\ resource = [u \in Users |-> Absent]
  /\ docs = [i \in Cores |-> [imsi \in IMSIs |-> <<>>]]
  /\ events = 0

-------------------------------------------------------------------------------
CreateUser(u, spec) == ~resource[u].present /\ SetResource(u, Created(spec))

EditUser(u, spec) ==
  resource[u].present /\ SetResource(u, [resource[u] EXCEPT !.spec = spec])

DeleteUser(u) == resource[u].present /\ SetResource(u, Deleted(resource[u]))

Guard(u) ==
  /\ resource[u].present /\ ~resource[u].deleting
  /\ SetResource(u, [resource[u] EXCEPT !.finalizer = TRUE])

\* Only for a resource that is held, and only where there is no document.
Provision(u, spec) ==
  /\ Held(u) /\ DocsFor(u, spec) = <<>> /\ ~AddFails(spec.profile)
  /\ SetDocsFor(u, spec, <<AddedDocument(spec.profile)>>)

\* The spec may be one the resource had before.
Correct(u, spec) ==
  /\ Held(u) /\ DocsFor(u, spec) # <<>> /\ ~UpdateFails(spec.profile)
  /\ SetDocsFor(u, spec, <<UpdatedDocument(spec.profile, Head(DocsFor(u, spec)))>>)

(***************************************************************************)
(* The document goes with the resource that is being deleted, or by the    *)
(* doing of one that has been and names the same subscriber, or late: left *)
(* behind by a deletion that missed the MongoDB, it is nobody's.           *)
(***************************************************************************)
Remove(u, spec) ==
  /\ DocsFor(u, spec) # <<>>
  /\ \/ Held(u) /\ resource[u].deleting
     \/ \E v \in Users \ {u} : HeldFor(v, Target(u, spec), spec.profile.imsi)
     \/ /\ Target(u, spec) \notin Lasting
        /\ \A v \in Users : ~HeldFor(v, Target(u, spec), spec.profile.imsi)
  /\ SetDocsFor(u, spec, <<>>)

\* The resource goes after its document.
Release(u) ==
  /\ Held(u) /\ resource[u].deleting
  /\ Target(u, resource[u].spec) \in Lasting => DocsFor(u, resource[u].spec) = <<>>
  /\ SetResource(u, Absent)

\* Scripts remove a document, the volume goes, or an instance comes and goes.
Lose(i, imsis) ==
  /\ docs' = [docs EXCEPT ![i] = [imsi \in IMSIs |-> IF imsi \in imsis THEN <<>> ELSE docs[i][imsi]]]
  /\ events' = events + 1
  /\ UNCHANGED resource

Next ==
  \/ \E u \in Users :
       \/ \E spec \in SpecsOf[u] :
            \/ CreateUser(u, spec) \/ EditUser(u, spec)
            \/ Provision(u, spec) \/ Correct(u, spec) \/ Remove(u, spec)
       \/ DeleteUser(u) \/ Guard(u) \/ Release(u)
  \/ \E i \in Cores : \E imsis \in SUBSET IMSIs : Lose(i, imsis)

Spec == Init /\ [][Next]_storeVars

===============================================================================
