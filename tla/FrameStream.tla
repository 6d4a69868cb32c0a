----------------------------- MODULE FrameStream -----------------------------
(***************************************************************************)
(* What whoever polls the transport for the next frame is promised: the    *)
(* frames the peer sent, in order and one per poll, until one of them is   *)
(* rejected or the connection fails, which is answered with an error and   *)
(* then a None.  How bytes become frames is of no concern here.            *)
(***************************************************************************)
EXTENDS Naturals

CONSTANTS
  N,         \* number of frames the peer has to send
  Accepted,  \* the frames Frame::decode accepts
  Fatal      \* the frames it panics on

VARIABLES
  handed,    \* frames accounted for
  answer     \* of the last completed poll

vars == <<handed, answer>>

Init == handed = 0 /\ answer = "pending"

\* A poll after a panic never comes, and the one after an error says None.
Polled == answer \notin {"error", "panic"}

Frame ==
  /\ Polled /\ handed < N
  /\ handed + 1 \in Accepted \ Fatal
  /\ handed' = handed + 1
  /\ answer' = "frame"

Reject ==
  /\ Polled /\ handed < N
  /\ handed + 1 \notin Accepted \cup Fatal
  /\ handed' = handed + 1
  /\ answer' = "error"

Panic ==
  /\ Polled /\ handed < N
  /\ handed + 1 \in Fatal
  /\ answer' = "panic"
  /\ UNCHANGED handed

\* The connection is reset, or ends inside a frame.
Lost == Polled /\ answer' = "error" /\ UNCHANGED handed

End == answer # "panic" /\ answer' = "none" /\ UNCHANGED handed

Next == Frame \/ Reject \/ Panic \/ Lost \/ End

Spec == Init /\ [][Next]_vars
=============================================================================
