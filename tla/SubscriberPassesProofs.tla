------------------------ MODULE SubscriberPassesProofs ------------------------
(***************************************************************************)
(* What passes of addOrUpdateSubscriber establish, for every set of field  *)
(* values and every document a script may leave behind.                    *)
(***************************************************************************)
EXTENDS SubscriberPasses, SubscriberProofs

USE DEF PassesCounted

(***************************************************************************)
(* The outcome of a pass: a document inserted, a document updated, or the  *)
(* documents left alone, each under the condition the code makes it on.    *)
(***************************************************************************)
LEMMA PassOutcome ==
  ASSUME TypeOK, addOrUpdateSubscriber
  PROVE  \/ found = <<>> /\ ~AddFails(spec) /\ found' = <<AddedDocument(spec)>>
         \/ /\ found # <<>> /\ ~UpdateFails(spec) /\ hasDrift(spec, Head(found))
            /\ found' = <<UpdatedDocument(spec, Head(found))>>
         \/ found = <<>> /\ AddFails(spec) /\ found' = <<>>
         \/ found # <<>> /\ found' = found /\ (hasDrift(spec, Head(found)) => UpdateFails(spec))
<1>1. CASE found = <<>> /\ ~AddFails(spec)
  BY <1>1 DEF addOrUpdateSubscriber, AfterPass, NextCall
<1>2. CASE found # <<>> /\ hasDrift(spec, Head(found)) /\ ~UpdateFails(spec)
  <2>1. NextCall(spec, found) = "UpdateOne" BY <1>2 DEF NextCall
  <2> QED BY <1>2, <2>1 DEF addOrUpdateSubscriber, AfterPass
<1>3. CASE ~(found = <<>> /\ ~AddFails(spec)) /\
           ~(found # <<>> /\ hasDrift(spec, Head(found)) /\ ~UpdateFails(spec))
  <2>1. NextCall(spec, found) = "return" BY <1>3 DEF NextCall
  <2> QED BY <1>3, <2>1 DEF addOrUpdateSubscriber, AfterPass
<1> QED BY <1>1, <1>2, <1>3

LEMMA Singleton ==
  ASSUME NEW S, NEW e \in S
  PROVE  <<e>> \in Seq(S) /\ Len(<<e>>) <= 1
OBVIOUS

(***************************************************************************)
(* Type correctness of the passes: what is in MongoDB is a document.       *)
(***************************************************************************)
THEOREM PassesTypeCorrect == Spec => []TypeOK
<1>1. Init => TypeOK
  BY DEF Init, TypeOK
<1>2. TypeOK /\ [Next]_vars => TypeOK'
  <2> SUFFICES ASSUME TypeOK, [Next]_vars PROVE TypeOK' OBVIOUS
  <2>1. CASE EditSpec BY <2>1 DEF EditSpec, TypeOK
  <2>2. CASE Script
    <3>1. found' \in Seq(Document) /\ Len(found') <= 1
      <4>1. CASE found' = <<>> BY <4>1
      <4>2. ASSUME NEW doc \in Documents, found' = <<doc>>
            PROVE  found' \in Seq(Document) /\ Len(found') <= 1
        BY <4>2, DocumentsAssumption, Singleton
      <4> QED BY <2>2, <4>1, <4>2 DEF Script
    <3> QED BY <2>2, <3>1 DEF Script, TypeOK
  <2>3. CASE addOrUpdateSubscriber
    <3>1. found # <<>> => Head(found) \in Document
      BY DEF TypeOK
    <3>2. found' \in Seq(Document) /\ Len(found') <= 1
      <4>1. spec \in Profile BY DEF TypeOK
      <4>2. CASE ~AddFails(spec) /\ found' = <<AddedDocument(spec)>>
        BY <4>1, <4>2, AddedDocumentType, Singleton
      <4>3. CASE found # <<>> /\ ~UpdateFails(spec) /\ found' = <<UpdatedDocument(spec, Head(found))>>
        BY <3>1, <4>1, <4>3, UpdatedDocumentType, Singleton
      <4>4. CASE found' = found BY <4>4 DEF TypeOK
      <4> QED BY <2>3, <4>2, <4>3, <4>4, PassOutcome
    <3> QED BY <2>3, <3>2 DEF addOrUpdateSubscriber, TypeOK
  <2>4. CASE UNCHANGED vars BY <2>4 DEF vars, TypeOK
  <2> QED BY <2>1, <2>2, <2>3, <2>4 DEF Next
<1> QED BY <1>1, <1>2, PTL DEF Spec

(***************************************************************************)
(* Two facts about a document: a pass leaves it with the spec's            *)
(* credentials, and without drift it already has them.                     *)
(***************************************************************************)
LEMMA CredentialsAfterAdd ==
  ASSUME NEW p \in Profile
  PROVE  AddedDocument(p).k = p.key /\ AddedDocument(p).opc = p.opc
BY DEF AddedDocument, addSubscriberWithSlice, addSubscriberWithAPN,
       addSubscriberWithDefaults, NewDocument

LEMMA CredentialsAfterUpdate ==
  ASSUME NEW p \in Profile, NEW doc \in Document
  PROVE  UpdatedDocument(p, doc).k = p.key /\ UpdatedDocument(p, doc).opc = p.opc
BY DEF UpdatedDocument, Document

(***************************************************************************)
(* The credentials of every spec that parses are applied by one pass,      *)
(* optional fields or not.                                                 *)
(***************************************************************************)
THEOREM PassesApplyCredentials == Spec => []CredentialsFollow
<1>1. Init => CredentialsFollow
  BY DEF Init, CredentialsFollow
<1>2. TypeOK /\ CredentialsFollow /\ [Next]_vars => CredentialsFollow'
  <2> SUFFICES ASSUME TypeOK, CredentialsFollow, [Next]_vars PROVE CredentialsFollow' OBVIOUS
  <2>1. CASE EditSpec BY <2>1 DEF EditSpec, CredentialsFollow
  <2>2. CASE Script BY <2>2 DEF Script, CredentialsFollow
  <2>3. CASE addOrUpdateSubscriber
    <3>1. spec' = spec /\ spec \in Profile BY <2>3 DEF addOrUpdateSubscriber, TypeOK
    <3>2. found # <<>> => Head(found) \in Document BY DEF TypeOK
    <3>3. ASSUME ~AddFails(spec), ~UpdateFails(spec) PROVE CredentialsMatch'
      <4>1. CASE found' = <<AddedDocument(spec)>>
        BY <4>1, <3>1, CredentialsAfterAdd DEF CredentialsMatch
      <4>2. CASE found # <<>> /\ found' = <<UpdatedDocument(spec, Head(found))>>
        BY <4>2, <3>1, <3>2, CredentialsAfterUpdate DEF CredentialsMatch
      <4>3. CASE found # <<>> /\ found' = found /\ ~hasDrift(spec, Head(found))
        BY <4>3, <3>1 DEF CredentialsMatch, hasDrift
      <4> QED BY <2>3, <3>3, <4>1, <4>2, <4>3, PassOutcome
    <3> QED BY <3>1, <3>3 DEF CredentialsFollow
  <2>4. CASE UNCHANGED vars BY <2>4 DEF vars, CredentialsFollow, CredentialsMatch
  <2> QED BY <2>1, <2>2, <2>3, <2>4 DEF Next
<1> QED BY <1>1, <1>2, PassesTypeCorrect, PTL DEF Spec

(***************************************************************************)
(* A complete spec settles in one pass, from every document.               *)
(***************************************************************************)
THEOREM PassesSettleComplete == Spec => []OnePassSettles
<1>1. Init => OnePassSettles
  BY DEF Init, OnePassSettles
<1>2. TypeOK /\ OnePassSettles /\ [Next]_vars => OnePassSettles'
  <2> SUFFICES ASSUME TypeOK, OnePassSettles, [Next]_vars PROVE OnePassSettles' OBVIOUS
  <2>1. CASE EditSpec BY <2>1 DEF EditSpec, OnePassSettles
  <2>2. CASE Script BY <2>2 DEF Script, OnePassSettles
  <2>3. CASE addOrUpdateSubscriber
    <3>1. spec' = spec /\ spec \in Profile BY <2>3 DEF addOrUpdateSubscriber, TypeOK
    <3>2. found # <<>> => Head(found) \in Document BY DEF TypeOK
    <3> SUFFICES ASSUME Complete
                 PROVE  found' # <<>> /\ ~hasDrift(spec, Head(found'))
      BY <3>1 DEF OnePassSettles, Complete, NextCall, CredentialsMatch, hasDrift
    <3>3. ~AddFails(spec) /\ ~UpdateFails(spec) /\ HasSlice(spec) /\ SetsSlice(spec)
      BY DEF Complete, AddFails, UpdateFails, HasSlice, SetsSlice
    <3>4. CASE found' = <<AddedDocument(spec)>>
      BY <3>1, <3>3, <3>4, NoDriftAfterAdd
    <3>5. CASE found # <<>> /\ found' = <<UpdatedDocument(spec, Head(found))>>
      BY <3>1, <3>2, <3>3, <3>5, NoDriftAfterUpdate
    <3>6. CASE found # <<>> /\ found' = found /\ ~hasDrift(spec, Head(found))
      BY <3>6
    <3> QED BY <2>3, <3>3, <3>4, <3>5, <3>6, PassOutcome
  <2>4. CASE UNCHANGED vars
    BY <2>4 DEF vars, OnePassSettles, Complete, CredentialsMatch
  <2> QED BY <2>1, <2>2, <2>3, <2>4 DEF Next
<1> QED BY <1>1, <1>2, PassesTypeCorrect, PTL DEF Spec

(***************************************************************************)
(* Two quiet passes and nothing is written any more, for every spec, but   *)
(* for a document's sd that a spec without a slice does not ask for. The   *)
(* first pass leaves a document (CredentialsFollow), and the second sets   *)
(* the fields hasDrift compares; a spec that does not parse never gets as  *)
(* far as a write.                                                         *)
(***************************************************************************)
THEOREM PassesEndWriting == Spec => []WritingEnds
<1>1. Init => WritingEnds
  BY DEF Init, WritingEnds
<1>2. TypeOK /\ CredentialsFollow /\ WritingEnds /\ [Next]_vars => WritingEnds'
  <2> SUFFICES ASSUME TypeOK, CredentialsFollow, WritingEnds, [Next]_vars
               PROVE  WritingEnds'
    OBVIOUS
  <2>1. CASE EditSpec BY <2>1 DEF EditSpec, WritingEnds
  <2>2. CASE Script BY <2>2 DEF Script, WritingEnds
  <2>3. CASE addOrUpdateSubscriber
    <3>1. spec' = spec /\ spec \in Profile BY <2>3 DEF addOrUpdateSubscriber, TypeOK
    <3>2. found # <<>> => Head(found) \in Document BY DEF TypeOK
    <3> SUFFICES ASSUME quiet' > 1, SetsSlice(spec) \/ Head(found').sd \in {NoField, Unset}
                 PROVE  NextCall(spec, found') = "return"
      BY <3>1 DEF WritingEnds
    <3>3. CASE UpdateFails(spec)
      <4>1. found' = <<>> => AddFails(spec)
        BY <2>3, PassOutcome
      <4> QED BY <3>3, <4>1 DEF NextCall
    <3>4. CASE ~UpdateFails(spec)
      <4>1. ~AddFails(spec)
        BY <3>4 DEF AddFails, UpdateFails, HasSlice, SetsSlice
      <4>2. quiet > 0
        BY <2>3 DEF addOrUpdateSubscriber, TypeOK
      <4>3. found # <<>>
        BY <3>4, <4>1, <4>2 DEF CredentialsFollow, CredentialsMatch
      <4> SUFFICES found' # <<>> /\ ~hasDrift(spec, Head(found'))
        BY DEF NextCall
      <4>4. CASE found' = <<UpdatedDocument(spec, Head(found))>>
        <5>1. SetsSlice(spec) \/ Head(found).sd \in {NoField, spec.sd}
          BY <3>2, <4>3, <4>4 DEF UpdatedDocument, Document, SetsSlice
        <5> QED BY <3>1, <3>2, <3>4, <4>3, <4>4, <5>1, NoDriftAfterUpdate
      <4>5. CASE found' = found /\ ~hasDrift(spec, Head(found))
        BY <4>3, <4>5
      <4> QED BY <2>3, <3>4, <4>1, <4>3, <4>4, <4>5, PassOutcome
    <3> QED BY <3>3, <3>4
  <2>4. CASE UNCHANGED vars
    BY <2>4 DEF vars, WritingEnds
  <2> QED BY <2>1, <2>2, <2>3, <2>4 DEF Next
<1> QED BY <1>1, <1>2, PassesTypeCorrect, PassesApplyCredentials, PTL DEF Spec

===============================================================================
