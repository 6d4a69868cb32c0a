----------------------------- MODULE CordaClient -----------------------------
(***************************************************************************)
(* The client: corda_rpc::Client on top of oasis_amqp::proto::Client.      *)
(*                                                                         *)
(* Every method of proto::Client is a straight line of sends and receives, *)
(* so each is written as a script, and new() and call() as the scripts of  *)
(* the methods they await one after the other.  A receive inside a script  *)
(* looks only at whether the stream has ended: `transport.next().await     *)
(* .ok_or(())` is Ok for any frame whatever, and for a decoding or I/O     *)
(* error too.                                                              *)
(***************************************************************************)
EXTENDS Wire

CONSTANT MayCancel   \* whether the application may drop a call's future

ASSUME MayCancelAssumption == MayCancel \in BOOLEAN

VARIABLES
  pc,       \* start -> new -> ready <-> call, or failed, or panicked
  step,     \* position in the script being run
  calls,    \* calls started so far; the latest is the one running
  result    \* what each call returned

client == <<pc, step, calls, result>>

-----------------------------------------------------------------------------
Tx(kind) == [op |-> "send", kind |-> kind, unwrapped |-> FALSE]
Rx == [op |-> "recv", kind |-> "any", unwrapped |-> FALSE]

\* Faulty variant: one frame too many is waited for.
LoginWaiting == << Tx("sasl_header"), Rx, Rx, Rx, Tx("init"), Rx, Rx, Tx("amqp_header") >>

Login == << Tx("sasl_header"), Rx, Rx, Tx("init"), Rx, Rx, Tx("amqp_header") >>
Open == << Tx("open"), Rx >>
Begin == << Tx("begin"), Rx >>

\* Faulty variants: the flow that follows a sender's attach is not waited
\* for; nothing is.
AttachWithoutFlow(role) ==
  << Tx(IF role = "sender" THEN "attach_sender" ELSE "attach_receiver"), Rx >>
AttachWithoutAnswer(role) ==
  IF role = "sender" THEN << Tx("attach_sender") >>
                     ELSE << Tx("attach_receiver"), Rx >>

Attach(role) ==
  IF role = "sender" THEN << Tx("attach_sender"), Rx, Rx >>
                     ELSE << Tx("attach_receiver"), Rx >>
Flow == << Tx("flow") >>

\* Faulty variant: the disposition is not waited for.
TransferUnsettled == << Tx("transfer") >>

Transfer == << Tx("transfer"), Rx >>
PollNext == << [op |-> "next", kind |-> "any", unwrapped |-> FALSE] >>

\* A script whose Err is unwrap()ped instead of handed on with `?`.
Unwrapped(s) == [op |-> s.op, kind |-> s.kind, unwrapped |-> TRUE]
Unwrap(script) == [i \in DOMAIN script |-> Unwrapped(script[i])]

\* Faulty variants: the session begun before the connection is opened; a
\* call that grants the receiver link no credit.
NewBeginFirst == Login \o Begin \o Open \o Attach("sender")
CallWithoutCredit == Attach("receiver") \o Unwrap(Transfer) \o PollNext

New == Login \o Open \o Begin \o Attach("sender")
Call == Attach("receiver") \o Flow \o Unwrap(Transfer) \o PollNext

-----------------------------------------------------------------------------
NoResult == Frame("none", 0)
ErrResult == Frame("err", 0)

ClientInit ==
  /\ pc = "start"
  /\ step = 1
  /\ calls = 0
  /\ result = [c \in Calls |-> NoResult]

Script == IF pc = "new" THEN New ELSE Call
Running(op) == pc \in {"new", "call"} /\ Script[step].op = op

\* Faulty variant: the script left a step late.
AdvancePastEnd ==
  IF step <= Len(Script)
  THEN step' = step + 1 /\ UNCHANGED <<pc, calls, result>>
  ELSE step' = 1 /\ pc' = "ready" /\ UNCHANGED <<calls, result>>

\* The method being run answers Ok and the script goes on, or is over.
Advance ==
  IF step < Len(Script)
  THEN step' = step + 1 /\ UNCHANGED <<pc, calls, result>>
  ELSE step' = 1 /\ pc' = "ready" /\ UNCHANGED <<calls, result>>

\* call() returns.
Return(r) ==
  /\ pc' = "ready"
  /\ step' = 1
  /\ result' = [result EXCEPT ![calls] = r]
  /\ UNCHANGED calls

\* The method being run answers Err(()).
Abort ==
  IF Script[step].unwrapped
  THEN pc' = "panicked" /\ UNCHANGED <<step, calls, result>>
  ELSE IF pc = "call" THEN Return(ErrResult)
  ELSE pc' = "failed" /\ UNCHANGED <<step, calls, result>>

\* Client::connect
Connect ==
  /\ pc = "start"
  /\ pc' = IF link = "up" THEN "new" ELSE "failed"
  /\ UNCHANGED <<step, calls, result, wire>>

Transmit ==
  /\ Running("send")
  /\ \/ SendOk(Frame(Script[step].kind, IF pc = "call" THEN calls ELSE 0)) /\ Advance
     \/ SendErr /\ Abort

\* Faulty variant: the end of the stream is not an error either.
ReceiveAnything ==
  /\ Running("recv")
  /\ (PollFrame \/ PollErr \/ PollNone) /\ Advance

Receive ==
  /\ Running("recv")
  /\ \/ (PollFrame \/ PollErr) /\ Advance
     \/ PollNone /\ Abort

\* The end of call(): the next frame is taken for the reply.
TakeReply ==
  /\ Running("next")
  /\ \/ PollFrame /\ Return(Head(toClient))
     \/ (PollErr \/ PollNone) /\ Return(ErrResult)

\* The application calls an RPC, having got an answer to its previous one.
StartCall ==
  /\ pc = "ready" /\ calls < MaxCalls
  /\ pc' = "call"
  /\ calls' = calls + 1
  /\ UNCHANGED <<step, result, wire>>

\* The application drops the future of a call that awaits a frame, or that one
\* be flushed: a timeout around it, a select!.  Nothing in the client runs, and
\* a frame not flushed goes out with the next.
Cancel ==
  /\ MayCancel
  /\ pc = "call"
  /\ Script[step].op # "send" \/ (step > 1 /\ Script[step - 1].op = "send")
  /\ pc' = "ready"
  /\ step' = 1
  /\ UNCHANGED <<calls, result, wire>>

ClientNext == Connect \/ Transmit \/ Receive \/ TakeReply \/ StartCall \/ Cancel
=============================================================================
