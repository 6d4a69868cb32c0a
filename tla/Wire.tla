-------------------------------- MODULE Wire --------------------------------
(***************************************************************************)
(* The TCP connection between the client and the broker, one element per   *)
(* AMQP frame, and what one poll of the client's Framed transport answers. *)
(* FrameCodec shows that a byte stream, however it is cut into reads,      *)
(* reaches the caller as these whole frames in this order.                 *)
(***************************************************************************)
EXTENDS Naturals, Sequences

CONSTANT MaxCalls   \* bound on the calls the application makes

ASSUME MaxCallsAssumption == MaxCalls \in Nat

\* A call's identity, as it travels in its frames: the random name of its
\* reply queue in attach and reply_to, the rpc-id in its message.
Calls == 1..MaxCalls

VARIABLES
  toBroker,   \* frames sent by the client and not yet read by the broker
  toClient,   \* frames sent by the broker and not yet polled by the client
  link,       \* what is left of the connection, seen from the client
  errored     \* ReadFrame.has_errored: the last poll answered Some(Err(_))

wire == <<toBroker, toClient, link, errored>>

\* up         both ways work
\* closed     the broker closed it after the frames in toClient
\* truncated  the same, in the middle of a frame
\* reset      a reset waits to be reported to the next read or write
\* dead       the reset was reported; reads end, writes fail
LinkStates == {"up", "closed", "truncated", "reset", "dead"}

Frame(kind, id) == [kind |-> kind, id |-> id]

\* Performative has no variant for a session's end frame, so Frame::decode
\* rejects it.  It decodes every other frame this broker sends.
Decodable(f) == f.kind # "end"

WireInit ==
  /\ toBroker = <<>> /\ toClient = <<>>
  /\ link = "up"
  /\ errored = FALSE

-----------------------------------------------------------------------------
\* transport.send(frame).await = Ok(()).  The kernel accepts a write on a
\* connection the peer has closed, and learns of the reset later.
SendOk(f) ==
  \/ /\ link = "up"
     /\ toBroker' = Append(toBroker, f)
     /\ UNCHANGED <<toClient, link, errored>>
  \/ /\ link \in {"closed", "truncated"}
     /\ link' \in {link, "reset"}
     /\ UNCHANGED <<toBroker, toClient, errored>>

\* transport.send(frame).await = Err(_)
SendErr ==
  /\ link \in {"reset", "dead"}
  /\ link' = "dead"
  /\ UNCHANGED <<toBroker, toClient, errored>>

\* transport.next().await = Some(Ok(frame)), the frame being Head(toClient)
PollFrame ==
  /\ ~errored
  /\ toClient # <<>> /\ Decodable(Head(toClient))
  /\ toClient' = Tail(toClient)
  /\ UNCHANGED <<toBroker, link, errored>>

\* Faulty variant: Codec::decode answers Err, not Ok(None), while a frame is
\* incomplete.
PollErrIncomplete ==
  /\ ~errored
  /\ errored' = TRUE
  /\ toClient = <<>>
  /\ UNCHANGED <<toBroker, toClient, link>>

\* transport.next().await = Some(Err(_)): a frame the decoder rejects (the
\* broker sends nothing after an end frame), or the connection lost.
PollErr ==
  /\ ~errored
  /\ errored' = TRUE
  /\ \/ /\ toClient # <<>> /\ ~Decodable(Head(toClient))
        /\ toClient' = Tail(toClient)
        /\ link' = link
     \/ /\ toClient = <<>> /\ toClient' = <<>>
        /\ \/ link = "truncated" /\ link' = "closed"
           \/ link = "reset" /\ link' = "dead"
  /\ UNCHANGED toBroker

\* transport.next().await = None: end of stream, or the poll that follows an
\* error even on a connection that is still up.
PollNone ==
  /\ \/ errored
     \/ toClient = <<>> /\ link \in {"closed", "dead"}
  /\ errored' = FALSE
  /\ UNCHANGED <<toBroker, toClient, link>>
=============================================================================
