------------------------ MODULE ReplyDecoding_proofs ------------------------
(***************************************************************************)
(* Theorems about ReplyDecoding, for every number of fields a node sends.  *)
(* The invariant says what a reply has passed when it gets to a step, and  *)
(* what each outcome says of it.                                           *)
(***************************************************************************)
EXTENDS ReplyDecoding, TLAPS

InOnePiece == reply.pieces # "transfers" /\ reply.form # "value8"
Binary == InOnePiece /\ reply.form \in {"data", "value32"}
Magical == Binary /\ Has(1) /\ reply.magic = "corda 1.0"
Sectioned == Magical /\ Has(2) /\ reply.section = 0
Enveloped == Sectioned /\ reply.cut = Uncut

Passed ==
  /\ pc \in {"frame", "body", "magic", "section", "envelope", "try", "value", "rest"}
  /\ pc = "body" => InOnePiece
  /\ pc = "magic" => Binary
  /\ pc = "section" => Magical
  /\ pc = "envelope" => Sectioned
  /\ pc = "try" => Enveloped
  /\ pc = "value" => Enveloped /\ reply.try = SuccessName
  /\ pc = "rest" => Enveloped /\ reply.try = SuccessName /\ AllFields

Verdict ==
  /\ SnapshotExactly
  /\ WholeRepliesReturn
  /\ PiecesNeverReturn

IInv ==
  /\ reply \in Replies
  /\ outcome \in {"running", "ok", "err", "panic"}
  /\ outcome = "running" => Passed
  /\ Verdict

\* What is known of a cut: a reply in pieces has one, and it comes before the
\* end.
LEMMA CutFacts ==
  ASSUME reply \in Replies
  PROVE  /\ reply.cut = Uncut => reply.cut.parts = Whole /\ reply.pieces = "one"
         /\ reply.cut # Uncut => /\ reply.cut.parts \in 0..Whole - 1
                                 /\ reply.pieces # "one" /\ reply.form = "data"
<1>1. CASE reply.cut = Uncut
  <2>1. reply.cut \notin Cuts
    <3>1. \A c \in Cuts : c.parts # Whole
      BY DEF Cuts, Whole
    <3> QED BY <1>1, <3>1 DEF Uncut
  <2>2. reply.pieces = "one"
    BY <2>1 DEF Replies
  <2> QED BY <1>1, <2>2 DEF Uncut
<1>2. CASE reply.cut # Uncut
  <2>1. reply.cut \in Cuts /\ reply.form = "data" /\ reply.pieces # "one"
    BY <1>2 DEF Replies
  <2>2. \A c \in Cuts : c.parts \in 0..Whole - 1
    BY DEF Cuts
  <2> QED BY <1>2, <2>1, <2>2
<1> QED BY <1>1, <1>2

\* A piece that ends before the section does ends where peek() looks.
LEMMA CutShort ==
  ASSUME reply \in Replies, ~Has(1) \/ ~Has(2)
  PROVE  PeekLooks /\ reply.cut # Uncut
<1>1. reply.cut.parts \in 0..Whole
  BY CutFacts DEF Whole
<1>2. reply.cut.parts < 2
  BY <1>1 DEF Has, Whole
<1> QED BY <1>1, <1>2 DEF PeekLooks, Has, Within, Whole, Uncut

\* A reply is not judged before it is decoded.
LEMMA InitInv == Init => IInv
BY DEF Init, IInv, Passed, Verdict, SnapshotExactly, WholeRepliesReturn, PiecesNeverReturn, PeekLooks, Has, Within, Ended

\* A step that goes on judges nothing.
LEMMA Onwards ==
  ASSUME IInv, outcome = "running", UNCHANGED <<reply, outcome>>, Passed'
  PROVE  IInv'
BY DEF IInv, Verdict, SnapshotExactly, WholeRepliesReturn, PiecesNeverReturn, PeekLooks, Has, Within, Ended,
       AllFields, FirstMissing

\* An error is right where the reply is no whole success, and no piece of one
\* that is cut where peek() does not look.
LEMMA Erring ==
  ASSUME IInv, UNCHANGED <<reply, pc>>, outcome' = "err",
         ~(/\ reply.try = SuccessName /\ Plain /\ reply.cut = Uncut
           /\ reply.form \in {"data", "value32"} /\ AllFields /\ ~reply.more),
         reply.pieces = "sections" /\ Plain =>
           PeekLooks
  PROVE  IInv'
BY DEF IInv, Verdict, SnapshotExactly, WholeRepliesReturn, PiecesNeverReturn, PeekLooks, Has, Within, Ended,
       AllFields, FirstMissing, Plain

\* A panic is right where the reply is cut, at a place where peek() does not
\* look, or has too few fields.
LEMMA Panicking ==
  ASSUME IInv, UNCHANGED <<reply, pc>>, outcome' = "panic",
         \/ reply.cut # Uncut
         \/ reply.try = SuccessName /\ Plain /\ ~AllFields /\ FirstMissing = "number",
         ~(/\ reply.try = SuccessName /\ Plain /\ reply.cut = Uncut
           /\ reply.form \in {"data", "value32"} /\ AllFields /\ ~reply.more),
         reply.pieces = "sections" /\ Plain =>
           ~PeekLooks
  PROVE  IInv'
BY DEF IInv, Verdict, SnapshotExactly, WholeRepliesReturn, PiecesNeverReturn, PeekLooks, Has, Within, Ended,
       AllFields, FirstMissing, Plain

\* Every step of decoding keeps the invariant.
LEMMA StepInv == IInv /\ [Next]_vars => IInv'
<1> SUFFICES ASSUME IInv, [Next]_vars PROVE IInv'
  OBVIOUS
<1> USE DEF Runs, Whole
<1>0. reply \in Replies /\ (outcome = "running" => Passed)
  BY DEF IInv
<1>1. CASE DecodeFrame
  <2>1. CASE reply.pieces = "transfers"
    BY <1>0, <1>1, <2>1, CutFacts, Panicking DEF DecodeFrame, Finish
  <2>2. CASE reply.pieces # "transfers" /\ reply.form = "value8"
    BY <1>0, <1>1, <2>2, CutFacts, Erring DEF DecodeFrame, Finish
  <2>3. CASE InOnePiece
    BY <1>0, <1>1, <2>3, Onwards DEF DecodeFrame, Continue, Passed, InOnePiece
  <2> QED BY <2>1, <2>2, <2>3 DEF InOnePiece
<1>2. CASE Body
  <2>1. CASE reply.form \in {"data", "value32"}
    BY <1>0, <1>2, <2>1, Onwards DEF Body, Continue, Passed, Binary, InOnePiece
  <2>2. CASE reply.form \notin {"data", "value32"}
    BY <1>0, <1>2, <2>2, CutFacts, Erring DEF Body, Finish
  <2> QED BY <2>1, <2>2
<1>3. CASE Magic
  <2>0. Binary /\ outcome = "running"
    BY <1>0, <1>3 DEF Magic, Passed
  <2>1. CASE Has(1) /\ reply.magic = "corda 1.0"
    <3>1. pc' = "section" /\ reply' = reply /\ outcome' = outcome
      BY <1>3, <2>1 DEF Magic, Continue
    <3>2. Passed'
      BY <2>0, <2>1, <3>1 DEF Passed, Magical, Binary, InOnePiece, Has
    <3> QED BY <2>0, <3>1, <3>2, Onwards
  <2>2. CASE ~Has(1) \/ reply.magic # "corda 1.0"
    <3>1. outcome' = "err" /\ UNCHANGED <<reply, pc>>
      BY <1>3, <2>2 DEF Magic, Finish
    <3>2. reply.cut # Uncut \/ ~Plain
      BY <2>2, <1>0, CutShort DEF Plain
    <3>3. Plain => PeekLooks
      BY <2>2, <1>0, CutShort DEF Plain
    <3> QED BY <3>1, <3>2, <3>3, Erring
  <2> QED BY <2>1, <2>2
<1>4. CASE Section
  <2>0. Magical /\ outcome = "running"
    BY <1>0, <1>4 DEF Section, Passed
  <2>1. CASE Has(2) /\ reply.section = 0
    <3>1. pc' = "envelope" /\ reply' = reply /\ outcome' = outcome
      BY <1>4, <2>1 DEF Section, Continue
    <3>2. Passed'
      BY <2>0, <2>1, <3>1 DEF Passed, Sectioned, Magical, Binary, InOnePiece, Has
    <3> QED BY <2>0, <3>1, <3>2, Onwards
  <2>2. CASE ~Has(2) \/ reply.section # 0
    <3>1. outcome' = "err" /\ UNCHANGED <<reply, pc>>
      BY <1>4, <2>2 DEF Section, Finish
    <3>2. reply.cut # Uncut \/ ~Plain
      BY <2>2, <1>0, CutShort DEF Plain
    <3>3. Plain => PeekLooks
      BY <2>2, <1>0, CutShort DEF Plain
    <3> QED BY <3>1, <3>2, <3>3, Erring
  <2> QED BY <2>1, <2>2
<1>5. CASE Envelope
  <2>0. Sectioned /\ outcome = "running"
    BY <1>0, <1>5 DEF Envelope, Passed
  <2>1. CASE Has(Whole)
    <3>1. reply.cut = Uncut
      BY <1>0, <2>1, CutFacts DEF Has
    <3>2. ~PeekLooks
      BY <3>1, <1>0, CutFacts DEF PeekLooks, Has
    <3>3. pc' = "try" /\ reply' = reply /\ outcome' = outcome
      BY <1>5, <2>1, <3>2 DEF Envelope, Continue, PeekLooks
    <3>4. Passed'
      BY <2>0, <3>1, <3>3 DEF Passed, Enveloped, Sectioned, Magical, Binary, InOnePiece, Has, Uncut
    <3> QED BY <2>0, <3>3, <3>4, Onwards
  <2>2. CASE ~Has(Whole)
    <3>1. reply.cut # Uncut
      BY <1>0, <2>2, CutFacts DEF Has
    <3>2. CASE PeekLooks
      BY <1>5, <2>2, <3>1, <3>2, Erring DEF Envelope, Finish, PeekLooks
    <3>3. CASE ~PeekLooks
      BY <1>5, <2>2, <3>1, <3>3, Panicking DEF Envelope, Finish, PeekLooks
    <3> QED BY <3>2, <3>3
  <2> QED BY <2>1, <2>2
<1>6. CASE ReadTry
  <2>0. Enveloped /\ outcome = "running"
    BY <1>0, <1>6 DEF ReadTry, Passed
  <2>1. CASE reply.try = SuccessName
    <3>1. pc' = "value" /\ reply' = reply /\ outcome' = outcome
      BY <1>6, <2>1 DEF ReadTry, Continue
    <3>2. Passed'
      BY <2>0, <2>1, <3>1 DEF Passed, Enveloped, Sectioned, Magical, Binary, InOnePiece, Has, Uncut
    <3> QED BY <2>0, <3>1, <3>2, Onwards
  <2>2. CASE reply.try # SuccessName
    <3>1. reply.try # FailureName
      BY <1>0, <2>2 DEF Replies, FailureName, NodeFailureName
    <3>2. reply.pieces # "sections"
      BY <1>0, <2>0, CutFacts DEF Enveloped
    <3> QED BY <1>6, <2>2, <3>1, <3>2, Erring DEF ReadTry, Finish
  <2> QED BY <2>1, <2>2
<1>7. CASE ReadValue
  <2>1. Enveloped /\ reply.try = SuccessName /\ outcome = "running"
    BY <1>0, <1>7 DEF ReadValue, Passed
  <2>2. Plain /\ reply.pieces # "sections"
    BY <1>0, <2>1, CutFacts DEF Enveloped, Sectioned, Magical, Plain
  <2>3. CASE AllFields
    <3>1. pc' = "rest" /\ reply' = reply /\ outcome' = outcome
      BY <1>7, <2>3 DEF ReadValue, Continue
    <3>2. Passed'
      BY <2>1, <2>3, <3>1
      DEF Passed, Enveloped, Sectioned, Magical, Binary, InOnePiece, Has, Uncut, AllFields
    <3> QED BY <2>1, <3>1, <3>2, Onwards
  <2>4. CASE ~AllFields /\ FirstMissing = "list"
    BY <1>7, <2>2, <2>4, Erring DEF ReadValue, Finish
  <2>5. CASE ~AllFields /\ FirstMissing # "list"
    <3>1. FirstMissing = "number"
      <4>1. reply.fields \in Nat
        <5>1. reply.fields \in 0..MaxFields
          BY <1>0 DEF Replies
        <5> QED BY <5>1, FieldsAssumption
      <4>2. reply.fields \in 0..3
        BY <4>1, <2>5 DEF AllFields, NodeInfo
      <4> QED BY <4>2, <2>5 DEF FirstMissing, NodeInfo
    <3>2. outcome' = "panic" /\ UNCHANGED <<reply, pc>>
      BY <1>7, <2>5 DEF ReadValue, Finish
    <3> QED BY <2>1, <2>2, <2>5, <3>1, <3>2, Panicking
  <2> QED BY <2>3, <2>4, <2>5
<1>8. CASE Rest
  <2>1. Enveloped /\ reply.try = SuccessName /\ AllFields
    BY <1>0, <1>8 DEF Rest, Passed
  <2>2. /\ Plain /\ reply.pieces # "sections" /\ reply.cut = Uncut
        /\ reply.form \in {"data", "value32"}
    BY <1>0, <2>1, CutFacts DEF Enveloped, Sectioned, Magical, Binary, Plain
  <2>3. CASE reply.more
    BY <1>8, <2>2, <2>3, Erring DEF Rest, Finish
  <2>4. CASE ~reply.more
    <3>1. outcome' = "ok" /\ UNCHANGED <<reply, pc>>
      BY <1>8, <2>4 DEF Rest, Finish
    <3> QED BY <2>1, <2>2, <2>4, <3>1
      DEF IInv, Verdict, SnapshotExactly, WholeRepliesReturn, PiecesNeverReturn, Ended, Plain, AllFields
  <2> QED BY <2>3, <2>4
<1>9. CASE Done \/ UNCHANGED vars
  BY <1>9 DEF Done, vars, IInv, Passed, InOnePiece, Binary, Magical, Sectioned, Enveloped, Has, Plain,
     Verdict, SnapshotExactly, WholeRepliesReturn, PiecesNeverReturn, PeekLooks, Within, Ended,
     AllFields, FirstMissing
<1> QED BY <1>1, <1>2, <1>3, <1>4, <1>5, <1>6, <1>7, <1>8, <1>9 DEF Next

\* The invariant holds of every behaviour.
LEMMA Invariant == Spec => []IInv
BY InitInv, StepInv, PTL DEF Spec

\* response() returns a snapshot exactly for a success that arrived whole and
\* has nothing behind it.
THEOREM SnapshotFromSuccess == Spec => []SnapshotExactly
<1>1. IInv => SnapshotExactly
  BY DEF IInv, Verdict
<1> QED BY <1>1, Invariant, PTL

\* response() panics on no reply that is whole, unless a NodeInfo lacks a number
\* and no list.
THEOREM WholeNeverPanics == Spec => []WholeRepliesReturn
<1>1. IInv => WholeRepliesReturn
  BY DEF IInv, Verdict
<1> QED BY <1>1, Invariant, PTL

\* The first of two data sections is an error or a panic by where it is cut.
THEOREM PiecesFail == Spec => []PiecesNeverReturn
<1>1. IInv => PiecesNeverReturn
  BY DEF IInv, Verdict
<1> QED BY <1>1, Invariant, PTL
=============================================================================
