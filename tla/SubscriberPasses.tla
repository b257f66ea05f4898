--------------------------- MODULE SubscriberPasses ---------------------------
(***************************************************************************)
(* One subscriber, with each pass of addOrUpdateSubscriber as one step:    *)
(* the spec is edited and scripts write or remove the document at any time *)
(* between passes. What a pass establishes, and how many passes without a  *)
(* disturbance it takes until there is nothing left to write.              *)
(***************************************************************************)
EXTENDS Subscriber

CONSTANT Documents   \* what scripts may write

ASSUME DocumentsAssumption == Documents \subseteq Document

VARIABLES
  spec,     \* the profile in the custom resource
  found,    \* the documents with its IMSI, at most one
  quiet     \* passes since the last disturbance; PassesCounted stands for more
vars == <<spec, found, quiet>>

PassesCounted == 2

Init == spec \in Profile /\ found = <<>> /\ quiet = 0

EditSpec ==
  /\ spec' \in Profile /\ spec'.imsi = spec.imsi /\ spec' # spec
  /\ quiet' = 0 /\ UNCHANGED found

Script ==
  /\ found' \in {<<>>} \cup {<<doc>> : doc \in Documents} /\ found' # found
  /\ quiet' = 0 /\ UNCHANGED spec

AfterPass ==
  CASE NextCall(spec, found) = "InsertOne" -> <<AddedDocument(spec)>>
    [] NextCall(spec, found) = "UpdateOne" -> <<UpdatedDocument(spec, Head(found))>>
    [] OTHER -> found

addOrUpdateSubscriber ==
  /\ found' = AfterPass
  /\ quiet' = IF quiet < PassesCounted THEN quiet + 1 ELSE quiet
  /\ UNCHANGED spec

Next == EditSpec \/ Script \/ addOrUpdateSubscriber

Spec == Init /\ [][Next]_vars

-------------------------------------------------------------------------------
TypeOK ==
  /\ spec \in Profile
  /\ found \in Seq(Document) /\ Len(found) <= 1
  /\ quiet \in 0..PassesCounted

Complete == HasSlice(spec) /\ IsNumeric(spec.sst)
CredentialsMatch == found # <<>> /\ Head(found).k = spec.key /\ Head(found).opc = spec.opc

(***************************************************************************)
(* One pass is enough for a spec with every field set, whatever document   *)
(* scripts left: credentials and APN are the spec's, and the next pass     *)
(* sees no drift. A comparison hasDrift makes of a field that no update    *)
(* sets would make the controller write forever.                           *)
(***************************************************************************)
OnePassSettles ==
  Complete /\ quiet > 0 =>
    /\ CredentialsMatch /\ Head(found).name = spec.apn
    /\ NextCall(spec, found) = "return"

(***************************************************************************)
(* A pass over a spec with optional fields left out applies the            *)
(* credentials all the same, as long as spec.sst parses when it is needed. *)
(***************************************************************************)
CredentialsFollow ==
  quiet > 0 /\ ~AddFails(spec) /\ ~UpdateFails(spec) => CredentialsMatch

(***************************************************************************)
(* Two undisturbed passes and the operator stops writing this subscriber,  *)
(* with optional fields left out or not and whether the spec parses or     *)
(* not. The exception is a slice sd that a spec without a slice does not   *)
(* ask for: hasDrift sees it, updateSubscriber never clears it, and every  *)
(* pass writes again without effect. That the operator is done does not    *)
(* mean that the document is as promised: the README's default for an      *)
(* omitted APN is replaced by an empty one, and is not claimed here.       *)
(***************************************************************************)
WritingEnds ==
  quiet > 1 =>
    \/ NextCall(spec, found) = "return"
    \/ ~SetsSlice(spec) /\ Head(found).sd \notin {NoField, Unset}

===============================================================================
