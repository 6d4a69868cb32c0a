------------------------------ MODULE FrameFormat ------------------------------
(***************************************************************************)
(* One frame as Frame::to_vec and an AMQP 1.0 peer write it, and as        *)
(* Frame::decode reads it: the data offset, the type, the channel, the     *)
(* extended header, the descriptor of the performative and what follows.   *)
(* FrameCodec has the length prefix, Dispatch the performatives,           *)
(* SectionReader the message.                                              *)
(*                                                                         *)
(* Bytes are numbers.  Two stand for more than themselves: Fields for the  *)
(* list after a descriptor, Message for all of a message.                  *)
(***************************************************************************)
EXTENDS Naturals, Sequences

CONSTANTS
  Frames,       \* the frames that may be written
  Performatives, SaslBodies   \* the descriptor codes of the two kinds of frame

\* kind       amqp, sasl, or other: a type byte nobody has defined
\* doff       the data offset a peer writes, in words of four bytes
\* extended   the extended header
\* spare      a SASL frame's bytes 6 and 7, an AMQP frame's channel
\* code       the descriptor of what it holds, or Empty
\* message    whether a message follows it
Empty == 0
\* The descriptor says what kind of frame it is in, and none is 0 or 1, what a
\* boolean is read as; a SASL frame and an empty one hold no message.  The data
\* offset is a byte.  The library writes frames of its two types, each with a
\* body, and no spare bytes in a SASL frame.
ASSUME FramesAssumption ==
  /\ Performatives \subseteq 2..255 /\ SaslBodies \subseteq 2..255
  /\ \A f \in Frames :
       /\ f \in [writer : {"own", "peer"}, kind : {"amqp", "sasl", "other"},
                 extended : Seq(0..255), spare : (0..255) \X (0..255),
                 code : Performatives \cup SaslBodies \cup {Empty}, message : BOOLEAN]
       /\ Len(f.extended) % 4 = 0 /\ Len(f.extended) <= 4 * 253
       /\ f.code = Empty => ~f.message
       /\ f.kind = "amqp" => f.code \in Performatives \cup {Empty}
       /\ f.kind = "sasl" => f.code \in SaslBodies \cup {Empty} /\ ~f.message
       /\ f.writer = "own" =>
            /\ f.kind # "other" /\ f.code # Empty
            /\ f.kind = "sasl" => f.spare = <<0, 0>>

VARIABLES
  sent,      \* the frame
  input,     \* its bytes after the length prefix
  at,        \* the first byte not read yet
  pc,        \* encode, header, identifier, fields or message
  decoded,   \* what has been decoded of it
  outcome    \* running, or ok, err, panic

vars == <<sent, input, at, pc, decoded, outcome>>

Described == 0
SmallULong == 83     \* 0x53
ULong == 128         \* 0x80
ULong0 == 68         \* 0x44
ByteNumbers == {80, SmallULong}         \* 0x50, 0x53: a format code and the number
UInts == {67, 82, 112}                  \* 0x43, 0x52, 0x70
BoolByte == 86                          \* 0x56
Names == {163, 179}                     \* 0xa3, 0xb3: symbols
Composites == {69, 192, 193, 208, 209, 224, 240}
Fields == 208        \* 0xd0 or another list: a size, a count and the items
Message == 0         \* the descriptor a message starts with
TypeByte == [amqp |-> 0, sasl |-> 1, other |-> 2]

Finish(o) == outcome' = o /\ UNCHANGED <<sent, input, at, pc, decoded>>
Runs(p) == outcome = "running" /\ pc = p

Content(f) ==
  (IF f.code = Empty THEN <<>> ELSE <<Described, SmallULong, f.code, Fields>>)
  \o (IF f.message THEN <<Message>> ELSE <<>>)

Init ==
  /\ sent \in Frames
  /\ input = <<>> /\ at = 1
  /\ pc = "encode"
  /\ decoded = [kind |-> "none", extended |-> <<>>, spare |-> <<0, 0>>,
                code |-> Empty, message |-> FALSE]
  /\ outcome = "running"

-----------------------------------------------------------------------------
\* Faulty variant: the channel is not written.
EncodeNoChannel ==
  /\ Runs("encode") /\ sent.writer = "own"
  /\ input' = <<2, TypeByte[sent.kind], 0, 0>> \o Content(sent)
  /\ pc' = "header"
  /\ UNCHANGED <<sent, at, decoded, outcome>>

\* Frame::to_vec: the offset is always 2, and the extended header is not
\* written.  A SASL frame's spare bytes stay 0.
Encode ==
  /\ Runs("encode") /\ sent.writer = "own"
  /\ input' = <<2, TypeByte[sent.kind]>>
              \o (IF sent.kind = "sasl" THEN <<0, 0>> ELSE sent.spare) \o Content(sent)
  /\ pc' = "header"
  /\ UNCHANGED <<sent, at, decoded, outcome>>

\* AMQP 1.0: the offset counts words, the frame's header included.
PeerEncode ==
  /\ Runs("encode") /\ sent.writer = "peer"
  /\ input' = <<2 + Len(sent.extended) \div 4, TypeByte[sent.kind]>>
              \o sent.spare \o sent.extended \o Content(sent)
  /\ pc' = "header"
  /\ UNCHANGED <<sent, at, decoded, outcome>>

-----------------------------------------------------------------------------
Doff == input[1]

\* amqp::Frame::decode takes doff - 2 bytes, not words, for the extended
\* header.  (Frame::decode refuses an offset below 2; no writer has one.)
DecodeAmqp ==
  /\ Runs("header") /\ input[2] = TypeByte.amqp
  /\ decoded' = [decoded EXCEPT !.kind = "amqp", !.spare = <<input[3], input[4]>>,
                                !.extended = SubSeq(input, 5, Doff + 2)]
  /\ at' = Doff + 3 /\ pc' = "identifier"
  /\ UNCHANGED <<sent, input, outcome>>

\* Faulty variant: the spare bytes are not looked at.
DecodeSaslSpare ==
  /\ Runs("header") /\ input[2] = TypeByte.sasl
  /\ decoded' = [decoded EXCEPT !.kind = "sasl"]
  /\ at' = 5 /\ pc' = "identifier"
  /\ UNCHANGED <<sent, input, outcome>>

\* The spare bytes are asserted to be 0; the offset is not looked at.
DecodeSasl ==
  /\ Runs("header") /\ input[2] = TypeByte.sasl
  /\ IF SubSeq(input, 3, 4) # <<0, 0>> THEN Finish("panic")
     ELSE /\ decoded' = [decoded EXCEPT !.kind = "sasl"]
          /\ at' = 5 /\ pc' = "identifier"
          /\ UNCHANGED <<sent, input, outcome>>

DecodeOther ==
  /\ Runs("header") /\ input[2] \notin {TypeByte.amqp, TypeByte.sasl}
  /\ Finish("err")

-----------------------------------------------------------------------------
Codes == IF decoded.kind = "amqp" THEN Performatives ELSE SaslBodies

\* deserialize_enum: the zero byte of a descriptor may be missing.
Lead == IF at <= Len(input) /\ input[at] = Described THEN at + 1 ELSE at
IdentifierAmong(formats) == Runs("identifier") /\ Lead <= Len(input) /\ input[Lead] \in formats

Take(code, next) ==
  /\ decoded' = [decoded EXCEPT !.code = code]
  /\ at' = next /\ pc' = "fields"
  /\ UNCHANGED <<sent, input, outcome>>

\* Bytes taken for what they were not written as: an error, a panic, or, where
\* they happen to fit, a body and what follows it.
ReadOthers(codes) ==
  \/ Finish("err")
  \/ Finish("panic")
  \/ \E c \in codes, m \in (IF decoded.kind = "amqp" THEN BOOLEAN ELSE {FALSE}) :
       /\ decoded' = [decoded EXCEPT !.code = c, !.message = m]
       /\ outcome' = "ok"
       /\ UNCHANGED <<sent, input, at, pc>>

\* Faulty variant: the match on the code has a default.
ReadByteNumberDefault ==
  /\ IdentifierAmong(ByteNumbers)
  /\ IF Lead = Len(input) THEN Finish("panic") ELSE Take(input[Lead+1], Lead + 2)

\* The identifier as a byte: the code of a body this kind of frame has.
ReadByteNumber ==
  /\ IdentifierAmong(ByteNumbers)
  /\ IF Lead = Len(input) THEN Finish("panic")
     ELSE IF input[Lead+1] \in Codes THEN Take(input[Lead+1], Lead + 2)
     ELSE Finish("err")

\* read_u32 takes the format code for the first of the number's four bytes: the
\* number is no code.
ReadUInt ==
  /\ IdentifierAmong(UInts)
  /\ Finish(IF Len(input) - Lead < 3 THEN "panic" ELSE "err")

\* parse_u64: eight bytes, of which only the last may be other than 0 in a code.
\* A frame's fields may take more bytes than one.
ReadULong ==
  /\ IdentifierAmong({ULong})
  /\ IF Len(input) - Lead < 8 THEN Finish("panic") \/ (sent.code # Empty /\ Finish("err"))
     ELSE IF (\A k \in 1..7 : input[Lead+k] = 0) /\ input[Lead+8] \in Codes
     THEN Take(input[Lead+8], Lead + 9)
     ELSE Finish("err")

\* A name: which names there are is left open.
ReadName == IdentifierAmong(Names) /\ ReadOthers(Codes)

\* A boolean, an empty number, and any other byte, or none, say no code.
ReadNoCode ==
  /\ Runs("identifier")
  /\ ~IdentifierAmong(ByteNumbers \cup UInts \cup Names \cup {ULong})
  /\ Finish(IF Lead = Len(input) /\ input[Lead] = BoolByte THEN "panic" ELSE "err")

\* Where the list of fields starts behind a small descriptor, or none.
FieldsAt ==
  IF input[at] # Described THEN at ELSE IF input[at+1] = SmallULong THEN at + 3 ELSE at + 2
\* What is read here are the fields that were written.
InSync == /\ decoded.code = sent.code
          /\ FieldsAt + (IF sent.message THEN 1 ELSE 0) = Len(input)

\* deserialize_struct ignores a second descriptor, whatever it says.
ReadFields ==
  /\ Runs("fields")
  /\ LET described == at <= Len(input) /\ input[at] = Described
         follows(formats) == at < Len(input) /\ input[at+1] \in formats IN
     IF at > Len(input) \/ (described /\ ~follows({ULong0, SmallULong, ULong} \cup Names))
     THEN Finish("err")
     ELSE IF described /\ follows({ULong} \cup Names) THEN ReadOthers({decoded.code})
     ELSE IF FieldsAt > Len(input) THEN Finish("panic")
     ELSE IF input[FieldsAt] \notin Composites THEN Finish("err")
     ELSE IF ~InSync THEN ReadOthers({decoded.code})
     ELSE /\ at' = FieldsAt + 1 /\ pc' = "message"
          /\ UNCHANGED <<sent, input, decoded, outcome>>

\* What is left is the message; after a SASL body it is an error.
ReadMessage ==
  /\ Runs("message")
  /\ LET rest == at <= Len(input) IN
     IF rest /\ decoded.kind = "sasl" THEN Finish("err")
     ELSE /\ decoded' = [decoded EXCEPT !.message = rest]
          /\ outcome' = "ok"
          /\ UNCHANGED <<sent, input, at, pc>>

Done == outcome # "running" /\ UNCHANGED vars

Next ==
  \/ Encode \/ PeerEncode
  \/ DecodeAmqp \/ DecodeSasl \/ DecodeOther
  \/ ReadByteNumber \/ ReadUInt \/ ReadULong \/ ReadName \/ ReadNoCode
  \/ ReadFields \/ ReadMessage \/ Done

Spec == Init /\ [][Next]_vars

-----------------------------------------------------------------------------
Ended == outcome # "running"
Value(f) == [kind |-> f.kind, extended |-> f.extended, spare |-> f.spare,
             code |-> f.code, message |-> f.message]

\* What to_vec writes, decode reads as the same frame, but for an extended
\* header, which comes back as none.
OwnFramesReturn ==
  Ended /\ sent.writer = "own" =>
    outcome = "ok" /\ decoded = [Value(sent) EXCEPT !.extended = <<>>]

\* A peer's frame is read as it was sent if it has no extended header; an
\* empty frame, a heartbeat, and a type of frame nobody has defined are
\* errors, and a SASL frame's spare bytes, which AMQP 1.0 says to ignore,
\* panic if they are not 0.
PlainFramesAreRead ==
  Ended /\ sent.writer = "peer" /\ sent.extended = <<>> =>
    IF sent.kind = "sasl" /\ sent.spare # <<0, 0>> THEN outcome = "panic"
    ELSE IF sent.kind = "other" \/ sent.code = Empty THEN outcome = "err"
    ELSE outcome = "ok" /\ decoded = Value(sent)

\* An extended header of a peer's frame is read from its first byte behind what
\* is skipped of it: words are counted, bytes are taken, and none of a SASL
\* frame's.
FirstRead ==
  LET j == 1 + (IF sent.kind = "amqp" THEN Len(sent.extended) \div 4 ELSE 0) IN
  IF sent.extended[j] = Described THEN j + 1 ELSE j

\* A peer's frame with an extended header is never read as it was sent.  It
\* is an error, unless what is left of that header starts like a descriptor:
\* with the byte number of a body this kind of frame has, with a longer number
\* or with a name.  Then the frame may be taken for another or end in a panic;
\* a number of four bytes can only be a panic, where an empty frame has fewer.
ExtendedFramesAreLost ==
  Ended /\ sent.writer = "peer" /\ sent.extended # <<>> =>
    \/ outcome = "err"
    \/ outcome = "panic" /\ sent.kind = "sasl" /\ sent.spare # <<0, 0>>
    \/ /\ sent.kind # "other"
       /\ outcome = "ok" => decoded.extended # sent.extended
       /\ LET format == sent.extended[FirstRead] IN
          \/ /\ format \in ByteNumbers
             /\ sent.extended[FirstRead + 1] \in
                  IF sent.kind = "amqp" THEN Performatives ELSE SaslBodies
          \/ /\ format \in UInts /\ outcome = "panic"
             /\ sent.code = Empty /\ Len(sent.extended) < FirstRead + 3
          \/ format \in {ULong} \cup Names
=============================================================================
