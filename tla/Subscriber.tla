------------------------------ MODULE Subscriber ------------------------------
(***************************************************************************)
(* The subscriber document that the user controller keeps in MongoDB for   *)
(* an Open5GSUser, and the pure functions of open5gsuser_resources.go that *)
(* create it, compare it with the user's spec and update it.               *)
(*                                                                         *)
(* A document keeps the five fields the controller compares or sets; every *)
(* other field of the inserted BSON is a literal that nothing reads again. *)
(* "slice" and "session" are always one-element arrays, so slice.0.sst is  *)
(* the field sst, slice.0.sd is sd and slice.0.session.0.name is name.     *)
(*                                                                         *)
(* A definition marked "Mutant" is a faulty variant of the one after it.   *)
(* No specification uses it: put in its place, it breaks a property.       *)
(***************************************************************************)
EXTENDS Integers, Sequences

CONSTANTS
  IMSIs, Keys, OPCs,   \* subscriber identities and credentials
  SSTs, SDs, APNs,     \* spec.sst, spec.sd and spec.apn, as the CR's strings
  AtoiTable,           \* the strings strconv.Atoi accepts, with their value
  NoField              \* what a document holds for a key that was never set

Unset == ""            \* Go's zero string: the CR leaves the field out
DefaultSST == 1
DefaultAPN == "internet"

ASSUME SubscriberAssumption ==
  /\ DOMAIN AtoiTable \subseteq SSTs
  /\ Unset \notin DOMAIN AtoiTable
  /\ \A sst \in DOMAIN AtoiTable : AtoiTable[sst] \in Int
  /\ NoField \notin SDs

Profile == [imsi : IMSIs, key : Keys, opc : OPCs, sst : SSTs, sd : SDs, apn : APNs]

(***************************************************************************)
(* The Go driver stores an int that fits as a BSON int32 and decodes a     *)
(* BSON integer to Go's int32 or int64: a document read back never holds a *)
(* value of Go type int.                                                   *)
(***************************************************************************)
BsonInteger(n) == [gotype |-> "int32", n |-> n]
StoredIntegers == [gotype : {"int32", "int64"}, n : Int]

Document == [imsi : IMSIs, k : Keys, opc : OPCs, sst : StoredIntegers,
             sd : SDs \cup {NoField}, name : APNs \cup {DefaultAPN}]

IsNumeric(sst) == sst \in DOMAIN AtoiTable
Itoa(n) == CHOOSE sst \in DOMAIN AtoiTable : AtoiTable[sst] = n

\* Mutant: sst is inserted as the string of the spec.
NewDocumentStringSST(spec, sst, sd, name) ==
  [imsi |-> spec.imsi, k |-> spec.key, opc |-> spec.opc,
   sst |-> [gotype |-> "string", n |-> sst], sd |-> sd, name |-> name]

NewDocument(spec, sst, sd, name) ==
  [imsi |-> spec.imsi, k |-> spec.key, opc |-> spec.opc,
   sst |-> BsonInteger(sst), sd |-> sd, name |-> name]

addSubscriberWithSlice(spec) == NewDocument(spec, AtoiTable[spec.sst], spec.sd, spec.apn)
addSubscriberWithAPN(spec) == NewDocument(spec, DefaultSST, NoField, spec.apn)
addSubscriberWithDefaults(spec) == NewDocument(spec, DefaultSST, NoField, DefaultAPN)

(***************************************************************************)
(* addOrUpdateSubscriber picks the constructor from the fields that are    *)
(* set. Only the constructor with a slice parses spec.sst, and it returns  *)
(* before its insert when spec.sst is no number.                           *)
(***************************************************************************)
HasSlice(spec) == spec.sst # Unset /\ spec.sd # Unset /\ spec.apn # Unset
AddFails(spec) == HasSlice(spec) /\ ~IsNumeric(spec.sst)
AddedDocument(spec) ==
  IF HasSlice(spec) THEN addSubscriberWithSlice(spec)
  ELSE IF spec.apn # Unset THEN addSubscriberWithAPN(spec)
  ELSE addSubscriberWithDefaults(spec)

\* Mutant: the key is not compared.
hasDriftIgnoringKey(spec, doc) ==
  doc.opc # spec.opc \/ doc.sd \notin {NoField, spec.sd} \/ doc.name # spec.apn

\* Mutant: a document without sd counts as one with an empty sd.
hasDriftOnMissingSD(spec, doc) ==
  \/ doc.k # spec.key \/ doc.opc # spec.opc \/ doc.name # spec.apn
  \/ doc.sd # spec.sd

(***************************************************************************)
(* hasDrift: the last three comparisons are made only when the type        *)
(* assertion on the decoded value succeeds.                                *)
(***************************************************************************)
hasDrift(spec, doc) ==
  \/ doc.k # spec.key
  \/ doc.opc # spec.opc
  \/ doc.sst.gotype = "int" /\ Itoa(doc.sst.n) # spec.sst
  \/ doc.sd # NoField /\ doc.sd # spec.sd
  \/ doc.name # spec.apn

(***************************************************************************)
(* updateSubscriber: the slice is set only when sst or sd is set, and then *)
(* sst must parse or nothing is written; the APN is set always.            *)
(***************************************************************************)
SetsSlice(spec) == spec.sst # Unset \/ spec.sd # Unset
UpdateFails(spec) == SetsSlice(spec) /\ ~IsNumeric(spec.sst)

\* Mutant: the APN is left as it is.
UpdatedDocumentKeepingAPN(spec, doc) ==
  [imsi |-> doc.imsi, k |-> spec.key, opc |-> spec.opc, name |-> doc.name,
   sst |-> IF SetsSlice(spec) THEN BsonInteger(AtoiTable[spec.sst]) ELSE doc.sst,
   sd |-> IF SetsSlice(spec) THEN spec.sd ELSE doc.sd]

UpdatedDocument(spec, doc) ==
  [imsi |-> doc.imsi, k |-> spec.key, opc |-> spec.opc, name |-> spec.apn,
   sst |-> IF SetsSlice(spec) THEN BsonInteger(AtoiTable[spec.sst]) ELSE doc.sst,
   sd |-> IF SetsSlice(spec) THEN spec.sd ELSE doc.sd]

\* Mutant: a document that differs is not taken for the subscriber's.
NextCallInsertsOnDrift(spec, found) ==
  IF (found = <<>> \/ hasDrift(spec, Head(found))) /\ ~AddFails(spec)
  THEN "InsertOne" ELSE "return"

(***************************************************************************)
(* addOrUpdateSubscriber, from the documents that FindOne matches to the   *)
(* call that changes MongoDB, or "return" when there is none to make: no   *)
(* drift, or a spec.sst that does not parse.                               *)
(***************************************************************************)
NextCall(spec, found) ==
  CASE found = <<>> /\ ~AddFails(spec) -> "InsertOne"
    [] found # <<>> /\ hasDrift(spec, Head(found)) /\ ~UpdateFails(spec) -> "UpdateOne"
    [] OTHER -> "return"

===============================================================================
