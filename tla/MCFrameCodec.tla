---------------------------- MODULE MCFrameCodec ----------------------------
(* A small byte stream for FrameCodec: a protocol header, as every AMQP     *)
(* stream begins, an empty frame of 8 bytes, which the decoder rejects, a   *)
(* second header, a frame of 10 bytes, and last one of 11 bytes whose       *)
(* content makes the decoder panic.                                         *)
EXTENDS FrameCodec, FiniteSetsExt

MCLength == [i \in 1..N |-> IF i \in Headers THEN HeaderLength ELSE 6 + i]
MCStart == [i \in 1..N+1 |-> MapThenSumSet(LAMBDA j : MCLength[j], 1..i-1)]
=============================================================================
