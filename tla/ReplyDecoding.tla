---------------------------- MODULE ReplyDecoding ----------------------------
(***************************************************************************)
(* What becomes of the node's reply between the frame that holds it and    *)
(* the caller of an RPC: Frame::decode's body, BytesFrame::body,           *)
(* Envelope::decode, Try's Deserialize and NetworkMapSnapshot::response.   *)
(***************************************************************************)
EXTENDS Naturals, Sequences

CONSTANT MaxFields         \* bound on the fields a node sends of a NodeInfo

ASSUME FieldsAssumption == MaxFields \in Nat

\* The fields of a NodeInfo that this library asks for, in their order.
NodeInfo == <<"list", "list", "number", "number">>

\* A payload, cut short after so many of its parts and perhaps within the next.
Parts == <<"magic", "section", "marker", "descriptor", "composite">>
Whole == 5
Cuts == {[parts |-> n, within |-> b] : n \in 0..Whole - 1, b \in BOOLEAN}
        \ {[parts |-> n, within |-> TRUE] : n \in {1, 2}}     \* of one byte each
Uncut == [parts |-> Whole, within |-> FALSE]

\* form     the section that holds the payload, or that there is none: an
\*          amqp-value's binary has a length of four bytes or of one
\* pieces   whether the payload is spread over two data sections or two
\*          transfers, of which the first has it up to the cut
\* section  Corda's SectionId: DATA_AND_STOP, ALT_DATA_AND_STOP, ENCODING
\* try      the class of the object, known by the name of its descriptor
\* fields   how many fields each NodeInfo has; there is at least one NodeInfo
\* more     whether the section goes on behind the object
Forms == {"data", "value32", "value8", "text", "sequence", "disposition"}
SuccessName == "net.corda:e+qsW/cJ4ajGpb8YkJWB1A=="
NodeFailureName == "the fingerprint of a node's Try.Failure"
Replies ==
  { r \in [form : Forms, pieces : {"one", "sections", "transfers"}, cut : Cuts \cup {Uncut},
           magic : {"corda 1.0", "another"}, section : 0..2,
           try : {SuccessName, NodeFailureName}, fields : 0..MaxFields, more : BOOLEAN] :
      IF r.pieces = "one" THEN r.cut = Uncut
      ELSE r.cut \in Cuts /\ r.form = "data" /\ ~r.more }

VARIABLES reply, pc, outcome
vars == <<reply, pc, outcome>>

Runs(p) == outcome = "running" /\ pc = p
Finish(o) == outcome' = o /\ UNCHANGED <<reply, pc>>
Continue(p) == pc' = p /\ UNCHANGED <<reply, outcome>>
Has(n) == reply.cut.parts >= n
Within(n) == reply.cut.parts = n - 1 /\ reply.cut.within

Init == reply \in Replies /\ pc = "frame" /\ outcome = "running"

-----------------------------------------------------------------------------
\* Frame::decode of the first transfer.  A data section that ends in a later
\* transfer is longer than what there is of it: split_at panics.  Any reads no
\* short binary.  Of several data sections the first is kept (SectionReader).
DecodeFrame ==
  /\ Runs("frame")
  /\ IF reply.pieces = "transfers" THEN Finish("panic")
     ELSE IF reply.form = "value8" THEN Finish("err")
     ELSE Continue("body")

\* BytesFrame::body: a message with binary in its body, or response() fails.
Body ==
  /\ Runs("body")
  /\ IF reply.form \in {"data", "value32"} THEN Continue("magic") ELSE Finish("err")

Magic ==
  /\ Runs("magic")
  /\ IF ~Has(1) \/ reply.magic # "corda 1.0" THEN Finish("err") ELSE Continue("section")

Section ==
  /\ Runs("section")
  /\ IF ~Has(2) \/ reply.section # 0 THEN Finish("err") ELSE Continue("envelope")

\* Faulty variant: next() where the code has peek().
EnvelopeUnpeeked ==
  /\ Runs("envelope")
  /\ IF ~Has(Whole) THEN Finish("panic") ELSE Continue("try")

\* deserialize::<Envelope<..>>: peek() notices the end of the input, next()
\* and split_at() do not.  The outermost composite says how long all is.
Envelope ==
  /\ Runs("envelope")
  /\ IF ~Has(4) /\ ~Within(4) THEN Finish("err")
     ELSE IF ~Has(Whole) THEN Finish("panic")
     ELSE Continue("try")

\* Faulty variant: the name a node gives its failures.
FailureNameReal == NodeFailureName
\* A placeholder.
FailureName == "net.corda:????????????????????????"

\* Try's Deserialize knows two names.  A failure's value is asked for as (),
\* which a node's exception is not: assume(0x40) would panic.
ReadTry ==
  /\ Runs("try")
  /\ IF reply.try = SuccessName THEN Continue("value")
     ELSE IF reply.try = FailureName THEN Finish("panic")
     ELSE Finish("err")

AllFields == reply.fields >= Len(NodeInfo)
FirstMissing == NodeInfo[reply.fields + 1]

\* Each NodeInfo is read field by field, and the fields beyond those asked for
\* are passed over.  Where the first that is missing is a list, peek() says so;
\* where it is a number, next() panics.
ReadValue ==
  /\ Runs("value")
  /\ IF AllFields THEN Continue("rest")
     ELSE IF FirstMissing = "list" THEN Finish("err")
     ELSE Finish("panic")

\* Faulty variant: what is behind the object is not looked at.
RestIgnored == Runs("rest") /\ Finish("ok")

\* Envelope::decode has decoded the object, and wants nothing behind it.
Rest ==
  /\ Runs("rest")
  /\ IF reply.more THEN Finish("err") ELSE Finish("ok")

Done == outcome # "running" /\ UNCHANGED vars

Next ==
  \/ DecodeFrame \/ Body \/ Magic \/ Section \/ Envelope
  \/ ReadTry \/ ReadValue \/ Rest \/ Done

Spec == Init /\ [][Next]_vars

-----------------------------------------------------------------------------
Ended == outcome # "running"
Plain == reply.magic = "corda 1.0" /\ reply.section = 0

\* A caller gets a snapshot exactly from a success that arrived whole, in a
\* data section or a long binary, uncompressed, with all the fields and with
\* nothing behind it: from no failure, no other frame, no part of a reply and
\* no reply with more after it.
SnapshotExactly ==
  Ended =>
    (outcome = "ok" <=>
       /\ reply.try = SuccessName /\ Plain /\ reply.cut = Uncut
       /\ reply.form \in {"data", "value32"} /\ AllFields /\ ~reply.more)

\* A reply that is whole, and whose NodeInfos have both lists and both numbers,
\* never panics, whatever the RPC came to and whatever is behind it: only a
\* reply in pieces does, or one from a node whose NodeInfo lacks a number only.
WholeRepliesReturn ==
  outcome = "panic" =>
    \/ reply.cut # Uncut
    \/ /\ reply.try = SuccessName /\ Plain
       /\ ~AllFields /\ FirstMissing = "number"

PeekLooks == ~Has(4) /\ ~Within(4)

\* Of a reply in two data sections the first is decoded as if it were all: an
\* error if it ends before the object does, at a place where peek() looks,
\* and a panic anywhere else.
PiecesNeverReturn ==
  Ended /\ reply.pieces = "sections" /\ Plain =>
    outcome = (IF PeekLooks THEN "err" ELSE "panic")
=============================================================================
