----------------------------- MODULE FrameCodec -----------------------------
(***************************************************************************)
(* How bytes read from the socket become AMQP frames: Codec::decode driven *)
(* by the read half of tokio_util's Framed.                                *)
(*                                                                         *)
(* The peer's byte stream is fixed in advance: N frames laid end to end,   *)
(* frame i occupying the bytes Start[i] .. Start[i+1]-1.  The receive      *)
(* buffer is the window consumed .. received-1 of that stream, so a read   *)
(* moves `received`, a split_to moves `consumed`, and nothing is copied.   *)
(* TCP may cut the stream into reads of any size, and the peer may close   *)
(* or reset the connection at any byte (`cut`), in the middle of a frame   *)
(* included.                                                               *)
(***************************************************************************)
EXTENDS Integers, Sequences

CONSTANTS
  N,          \* number of frames on the stream
  Headers,    \* the frames that are 8-byte protocol headers
  Length,     \* bytes of each frame; for a non-header, also its length field
  Start,      \* stream offset at which each frame begins
  Decodable,  \* the frames Frame::decode accepts
  Broken      \* the frames it panics on for what they say

\* "AMQP" read as a big-endian u32: what the length prefix of a protocol
\* header looks like while fewer than 8 of its bytes have arrived.
HeaderTag == 1095586128
HeaderLength == 8
PrefixLength == 4
MinFrame == 8

ASSUME FrameCountAssumption == N \in Nat
ASSUME FrameSetsAssumption ==
  /\ Headers \subseteq 1..N /\ Decodable \subseteq 1..N /\ Broken \subseteq 1..N
  /\ Headers \subseteq Decodable \cup Broken
ASSUME LengthAssumption ==
  /\ Length \in [1..N -> Nat]
  /\ \A i \in 1..N : Length[i] >= PrefixLength
  /\ \A i \in Headers : Length[i] = HeaderLength
  /\ \A i \in 1..N : Length[i] # HeaderTag
ASSUME StartAssumption ==
  /\ Start \in [1..N+1 -> Nat]
  /\ Start[1] = 0
  /\ \A i \in 1..N : Start[i+1] = Start[i] + Length[i]
  /\ \A i, j \in 1..N+1 : i < j => Start[i] < Start[j]

VARIABLES
  cut,        \* how many bytes the peer sends before it goes away
  reset,      \* it goes away by a reset the client has yet to notice
  received,   \* bytes read from the socket so far
  consumed,   \* bytes split off the front of the buffer so far
  readable,   \* ReadFrame.is_readable
  eof,        \* ReadFrame.eof
  errored,    \* ReadFrame.has_errored
  out,        \* the decode attempts on complete frames, in order
  answer      \* what the last completed poll returned to its caller

flags == <<readable, eof, errored>>
vars == <<cut, reset, received, consumed, readable, eof, errored, out, answer>>

Answers == {"pending", "frame", "error", "none", "panic"}
Outcome == [id : 1..N, ok : BOOLEAN]

\* Nothing is consumed that was not read, nor read that was not sent.
TypeOK ==
  /\ cut \in 0..Start[N+1]
  /\ reset \in BOOLEAN
  /\ received \in 0..cut
  /\ consumed \in 0..received
  /\ readable \in BOOLEAN /\ eof \in BOOLEAN /\ errored \in BOOLEAN
  /\ out \in Seq(Outcome)
  /\ answer \in Answers

Init ==
  /\ cut \in 0..Start[N+1]
  /\ reset \in BOOLEAN
  /\ received = 0 /\ consumed = 0
  /\ readable = FALSE /\ eof = FALSE /\ errored = FALSE
  /\ out = <<>>
  /\ answer = "pending"

-----------------------------------------------------------------------------
Buffered == received - consumed

\* The frame whose bytes are at the front of the buffer.
Front == CHOOSE i \in 1..N : Start[i] <= consumed /\ consumed < Start[i+1]

\* What the first four bytes of frame i say when taken for a length.
LengthField(i) == IF i \in Headers THEN HeaderTag ELSE Length[i]

\* Faulty variants of Taken: the prefix not counted, a frame that ends with
\* the buffer taken for incomplete.
TakenWithoutPrefix ==
  IF Buffered < PrefixLength THEN 0
  ELSE IF Front \in Headers /\ Buffered >= HeaderLength THEN HeaderLength
  ELSE IF Buffered >= LengthField(Front) THEN LengthField(Front) - PrefixLength
  ELSE 0

TakenOffByOne ==
  IF Buffered < PrefixLength THEN 0
  ELSE IF Front \in Headers /\ Buffered >= HeaderLength THEN HeaderLength
  ELSE IF Buffered > LengthField(Front) THEN LengthField(Front)
  ELSE 0

\* How many bytes Codec::decode splits off; 0 when it answers Ok(None).
Taken ==
  IF Buffered < PrefixLength THEN 0
  ELSE IF Front \in Headers /\ Buffered >= HeaderLength THEN HeaderLength
  ELSE IF Buffered >= LengthField(Front) THEN LengthField(Front)
  ELSE 0

\* Frames Frame::decode does not survive: too short for the four bytes it
\* slices off; a protocol header that is neither SASL's nor AMQP's, an
\* extended header longer than the frame, values that end with the input.
Malformed(i) == Length[i] < MinFrame \/ i \in Broken

Polling == answer # "panic" /\ ~errored

\* Faulty variant: a rejected frame left in the buffer.
DecodeFrameKeepingRejected ==
  /\ Polling /\ readable
  /\ Taken > 0
  /\ LET ok == Front \in Decodable IN
     /\ consumed' = IF ok THEN consumed + Taken ELSE consumed
     /\ out' = Append(out, [id |-> Front, ok |-> ok])
     /\ errored' = ~ok
     /\ answer' = IF ok THEN "frame" ELSE "error"
  /\ Len(out) < N
  /\ UNCHANGED <<cut, reset, received, readable, eof>>

\* framing or pausing, a complete frame in the buffer.  The bytes are gone
\* before Frame::decode looks at them, whatever it then says of them.
DecodeFrame ==
  /\ Polling /\ readable
  /\ Taken > 0
  /\ consumed' = consumed + Taken
  /\ IF Malformed(Front)
     THEN answer' = "panic" /\ UNCHANGED <<errored, out>>
     ELSE LET ok == Front \in Decodable IN
          /\ out' = Append(out, [id |-> Front, ok |-> ok])
          /\ errored' = ~ok
          /\ answer' = IF ok THEN "frame" ELSE "error"
  /\ UNCHANGED <<cut, reset, received, readable, eof>>

\* framing -> reading: decode answered Ok(None).
NeedMore ==
  /\ Polling /\ readable /\ ~eof
  /\ Taken = 0
  /\ readable' = FALSE
  /\ UNCHANGED <<cut, reset, received, consumed, eof, errored, out, answer>>

\* pausing: the provided decode_eof turns left-over bytes into an I/O error.
DecodeEof ==
  /\ Polling /\ readable /\ eof
  /\ Taken = 0
  /\ IF Buffered = 0
     THEN readable' = FALSE /\ answer' = "none" /\ UNCHANGED errored
     ELSE errored' = TRUE /\ answer' = "error" /\ UNCHANGED readable
  /\ UNCHANGED <<cut, reset, received, consumed, eof, out>>

\* Faulty variant: the poll after an error looks for the next frame.
AfterErrorOnwards ==
  /\ errored
  /\ errored' = FALSE
  /\ readable' = FALSE
  /\ UNCHANGED <<cut, reset, received, consumed, eof, out, answer>>

\* The poll after an error: one None, and the buffer is not looked at again
\* before the next successful read.
AfterError ==
  /\ errored
  /\ errored' = FALSE
  /\ readable' = FALSE
  /\ answer' = "none"
  /\ UNCHANGED <<cut, reset, received, consumed, eof, out>>

Read(n) ==
  /\ Polling /\ ~readable
  /\ received' = received + n
  /\ readable' = TRUE
  /\ eof' = FALSE
  /\ UNCHANGED <<cut, reset, consumed, errored, out, answer>>

\* The reset surfaces, once, on a read; bytes not read yet are lost.
ReadError ==
  /\ Polling /\ ~readable
  /\ reset
  /\ reset' = FALSE
  /\ cut' = received
  /\ errored' = TRUE
  /\ answer' = "error"
  /\ UNCHANGED <<received, consumed, readable, eof, out>>

\* A read of zero bytes: the first enters pausing, later ones answer None.
ReadEof ==
  /\ Polling /\ ~readable
  /\ received = cut /\ ~reset
  /\ IF eof
     THEN answer' = "none" /\ UNCHANGED <<readable, eof>>
     ELSE eof' = TRUE /\ readable' = TRUE /\ UNCHANGED answer
  /\ UNCHANGED <<cut, reset, received, consumed, errored, out>>

Next ==
  \/ DecodeFrame
  \/ NeedMore
  \/ DecodeEof
  \/ AfterError
  \/ \E n \in 1..(cut - received) : Read(n)
  \/ ReadError
  \/ ReadEof

\* The peer's bytes arrive and the caller goes on polling.
Fairness == WF_vars(Next)

Spec == Init /\ [][Next]_vars /\ Fairness

-----------------------------------------------------------------------------
\* The buffer always starts on a frame boundary, the one after the frames
\* already decoded: Codec::decode never loses its place in the stream,
\* however the stream was cut into reads, whatever Frame::decode rejected.
Aligned == answer # "panic" => consumed = Start[Len(out) + 1]

\* Frames reach the caller complete, in order, none twice and none skipped;
\* each is accepted or rejected on its own merits, and none before its last
\* byte was read.
InOrder ==
  \A j \in 1..Len(out) :
    /\ out[j] = [id |-> j, ok |-> j \in Decodable]
    /\ Start[j+1] <= received

\* The stream has ended for the caller: Framed answers None from now on.
Ended == eof /\ ~readable /\ ~errored /\ answer = "none"

\* When None means end of stream, every frame that arrived in full has been
\* handed over -- unless one of them was rejected: Framed does not look at
\* the frames buffered behind a rejected one before the next read, so at end
\* of file they stay where they are.
NoneMeansDrained ==
  Ended =>
    \/ \A i \in 1..N : Start[i+1] <= cut => i <= Len(out)
    \/ \E j \in 1..Len(out) : ~out[j].ok

\* Frame::decode panics only on a frame the peer itself malformed, and on the
\* first such one; no way of cutting good frames into reads makes it panic.
PanicIsMalformedFrame ==
  answer = "panic" =>
    /\ Len(out) < N /\ Malformed(Len(out) + 1)
    /\ \A i \in 1..Len(out) : ~Malformed(i)

Stream == INSTANCE FrameStream WITH
  Accepted <- Decodable,
  Fatal <- {i \in 1..N : Malformed(i)},
  handed <- Len(out)

\* The bytes, the buffer and the flags implement the stream of frames the
\* client is written against: in particular an error is always followed by a
\* None, and a frame by whatever comes next on the stream.
ImplementsStream == Stream!Spec

\* A frame that has arrived in full is handed to a caller that goes on
\* polling, unless the decoder stopped at an earlier frame.
EveryFrameDelivered ==
  \A i \in 1..N :
    Start[i+1] <= received ~>
      \/ i <= Len(out)
      \/ answer = "panic"
      \/ \E j \in 1..Len(out) : ~out[j].ok
=============================================================================
