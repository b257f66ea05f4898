--------------------------- MODULE SubscriberProofs ---------------------------
(* Facts about the operators of Subscriber that other proofs cite. *)
EXTENDS Subscriber, TLAPS

(***************************************************************************)
(* What the three addSubscriber functions insert is a document, when the   *)
(* one that parses spec.sst can.                                           *)
(***************************************************************************)
LEMMA AddedDocumentType ==
  ASSUME NEW p \in Profile, ~AddFails(p)
  PROVE  AddedDocument(p) \in Document
<1>1. CASE HasSlice(p)
  <2>1. AddedDocument(p) = addSubscriberWithSlice(p)
    BY <1>1 DEF AddedDocument
  <2>2. IsNumeric(p.sst) /\ AtoiTable[p.sst] \in Int
    BY <1>1, SubscriberAssumption DEF AddFails, IsNumeric
  <2> QED
    BY <2>1, <2>2 DEF addSubscriberWithSlice, NewDocument, BsonInteger, StoredIntegers,
                      Document, Profile
<1>2. CASE ~HasSlice(p)
  <2>1. AddedDocument(p) \in {addSubscriberWithAPN(p), addSubscriberWithDefaults(p)}
    BY <1>2 DEF AddedDocument
  <2> QED
    BY <2>1 DEF addSubscriberWithAPN, addSubscriberWithDefaults, NewDocument, BsonInteger,
                StoredIntegers, Document, Profile, DefaultSST, DefaultAPN
<1> QED BY <1>1, <1>2

(***************************************************************************)
(* updateSubscriber keeps a document a document.                           *)
(***************************************************************************)
LEMMA UpdatedDocumentType ==
  ASSUME NEW p \in Profile, NEW doc \in Document, ~UpdateFails(p)
  PROVE  UpdatedDocument(p, doc) \in Document
<1>1. CASE SetsSlice(p)
  <2>1. AtoiTable[p.sst] \in Int
    BY <1>1, SubscriberAssumption DEF UpdateFails, IsNumeric
  <2> QED BY <1>1, <2>1 DEF UpdatedDocument, BsonInteger, StoredIntegers, Document, Profile
<1>2. CASE ~SetsSlice(p)
  BY <1>2 DEF UpdatedDocument, Document, Profile
<1> QED BY <1>1, <1>2

(***************************************************************************)
(* After updateSubscriber hasDrift has nothing to report, if the update    *)
(* set the slice, or if the document has no slice sd to differ.            *)
(***************************************************************************)
LEMMA NoDriftAfterUpdate ==
  ASSUME NEW p \in Profile, NEW doc \in Document, ~UpdateFails(p),
         SetsSlice(p) \/ doc.sd \in {NoField, p.sd}
  PROVE  ~hasDrift(p, UpdatedDocument(p, doc))
<1> DEFINE new == UpdatedDocument(p, doc)
<1>1. new.k = p.key /\ new.opc = p.opc /\ new.name = p.apn
  BY DEF UpdatedDocument, Document
<1>2. new.sst.gotype # "int"
  BY DEF UpdatedDocument, Document, BsonInteger, StoredIntegers
<1>3. new.sd \in {NoField, p.sd}
  BY DEF UpdatedDocument, Document
<1> QED BY <1>1, <1>2, <1>3 DEF hasDrift

(***************************************************************************)
(* A document just inserted from a spec with every field set has no drift. *)
(***************************************************************************)
LEMMA NoDriftAfterAdd ==
  ASSUME NEW p \in Profile, HasSlice(p)
  PROVE  ~hasDrift(p, AddedDocument(p))
BY DEF hasDrift, AddedDocument, addSubscriberWithSlice, NewDocument, BsonInteger

===============================================================================
