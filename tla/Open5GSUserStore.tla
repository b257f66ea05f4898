--------------------------- MODULE Open5GSUserStore ----------------------------
(***************************************************************************)
(* The user controller implements SubscriberStore: a resource is the last  *)
(* version of its log, and the documents are the documents.                *)
(***************************************************************************)
EXTENDS Open5GSUser

\* Where an Open5GS or its MongoDB may be missing for a while, or a look-up may fail,
\* the code skips the deletion of the document.
NeverMissed == IF Bound["core"] = 0 /\ Bound["lookup"] = 0 THEN InitialInstances ELSE {}

Resources == [u \in Users |-> Current(u)]
OutsideEvents == used["external"] + used["core"]

Store == INSTANCE SubscriberStore WITH
  resource <- Resources, events <- OutsideEvents, Lasting <- NeverMissed

(***************************************************************************)
(* However late the cache, and whatever fails: a resource is changed by    *)
(* its owner alone but for the finalizer, a document is made only where    *)
(* there is none and for a resource that is held. It is removed only for   *)
(* one that is being deleted (or shares its IMSI with one), or late, when  *)
(* a deletion that missed the MongoDB has left it behind and nobody stands *)
(* for it. A resource is released after its document.                      *)
(***************************************************************************)
ImplementsStore == Store!Spec

===============================================================================
