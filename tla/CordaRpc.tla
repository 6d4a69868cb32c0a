------------------------------ MODULE CordaRpc ------------------------------
(***************************************************************************)
(* The client and the broker over one connection, and what their           *)
(* conversation must be like for an RPC to be answered.                    *)
(***************************************************************************)
EXTENDS CordaClient, Broker

VARIABLE quiet   \* history: the calls started with nothing of the past under way

vars == <<wire, client, broker, quiet>>

\* Everything sent was received and answered; nothing can still arrive.
Quiescent ==
  /\ toBroker = <<>> /\ toClient = <<>> /\ ~errored
  /\ unsettled = {} /\ requests = {}
  /\ queue \notin replies

Init == WireInit /\ ClientInit /\ BrokerInit /\ quiet = {}

\* The program has no more to do: new() failed, a call panicked, or the
\* application has made all its calls.
Stopped ==
  /\ \/ pc \in {"failed", "panicked"}
     \/ pc = "ready" /\ calls = MaxCalls
  /\ UNCHANGED vars

Next ==
  \/ (Connect \/ Transmit \/ Receive \/ TakeReply \/ Cancel) /\ UNCHANGED <<broker, quiet>>
  \/ /\ StartCall /\ UNCHANGED broker
     /\ quiet' = IF Quiescent THEN quiet \cup {calls + 1} ELSE quiet
  \/ BrokerNext /\ UNCHANGED <<client, quiet>>
  \/ Stopped

\* The executor polls a future that can make progress, and the broker goes on
\* reading and working while it is connected.  Nobody has to make a call, to
\* drop one, or to lose the connection.
Fairness ==
  /\ WF_vars((Connect \/ Transmit \/ Receive \/ TakeReply) /\ UNCHANGED <<broker, quiet>>)
  /\ WF_vars(BrokerReads /\ UNCHANGED <<client, quiet>>)
  /\ \A c \in Calls :
       WF_vars((Settle(c) \/ Execute(c) \/ Deliver(c)) /\ UNCHANGED <<client, quiet>>)

Spec == Init /\ [][Next]_vars /\ Fairness

-----------------------------------------------------------------------------
HandshakeKinds ==
  {"sasl_header", "init", "amqp_header", "open", "begin", "attach_sender"}
ToBrokerFrames ==
  [kind : HandshakeKinds, id : {0}]
  \cup [kind : {"attach_receiver", "flow", "transfer"}, id : Calls]
ToClientFrames ==
  [kind : {"sasl_header", "mechanisms", "outcome", "amqp_header", "open", "begin",
           "attach", "flow", "detach", "close", "end"}, id : {0}]
  \cup [kind : {"disposition", "transfer"}, id : Calls]

WireTypeOK ==
  /\ toBroker \in Seq(ToBrokerFrames) /\ toClient \in Seq(ToClientFrames)
  /\ link \in LinkStates /\ errored \in BOOLEAN

ClientTypeOK ==
  /\ pc \in {"start", "new", "ready", "call", "failed", "panicked"}
  /\ step \in 1..Len(New) /\ (pc \in {"call", "panicked"} => step \in 1..Len(Call))
  /\ calls \in 0..MaxCalls /\ (pc \in {"call", "panicked"} => calls > 0)
  /\ result \in [Calls -> ToClientFrames \cup {NoResult, ErrResult}]

BrokerTypeOK ==
  /\ stage \in Stages
  /\ senderLink \in BOOLEAN /\ credited \in BOOLEAN
  /\ queue \in 0..MaxCalls /\ senderCredit \in 0..Credit
  /\ unsettled \subseteq Calls /\ requests \subseteq Calls
  /\ executed \subseteq Calls /\ replies \subseteq Calls

\* Only known frames are under way, the client stays inside its scripts, and
\* every identity in a frame or in the broker is a call's.
TypeOK == WireTypeOK /\ ClientTypeOK /\ BrokerTypeOK /\ quiet \subseteq Calls

-----------------------------------------------------------------------------
Reply(c) == Frame("transfer", c)

\* A call that returns Ok returns the node's reply to that very call.
CallReturnsOwnReply ==
  \A c \in Calls : result[c] \in {NoResult, ErrResult, Reply(c)}

\* The same, promised only to a call that found the connection quiescent.
\* A call dropped by its caller leaves frames behind which the next call
\* takes for its own; once they are gone the connection is as good as new.
QuietCallReturnsOwnReply ==
  \A c \in quiet : result[c] \in {NoResult, ErrResult, Reply(c)}

\* Client and broker count frames alike: whenever no call is running there is
\* nothing under way that a later call could take for an answer to itself.
NothingLeftBehind ==
  pc = "ready" /\ link = "up" => Quiescent

\* The client speaks the protocol as the broker understands it: it never
\* sends a frame the broker's state does not allow.
NeverRejected == stage # "rejected"

\* new() returns a client only after the broker accepted the login, opened
\* the connection and the session, and attached the sender link, although
\* the client looks at none of the broker's answers.
ReadyMeansAttached ==
  pc \in {"ready", "call"} => senderLink

\* The same of every broker, one that may refuse the link included: the
\* login was accepted and the session begun.
ReadyMeansSession ==
  pc \in {"ready", "call"} => stage \in {"links", "ended", "rejected"}

\* call() unwraps the result of the transfer: it panics only when the
\* connection is gone, or the broker has ended the session.
PanicMeansSessionLost == pc = "panicked" => link # "up" \/ stage = "ended"

\* A call that returns a reply, if not its own, returns one to an earlier call
\* that the node has run; and no two calls return the same one.
RepliesAreReal ==
  \A c \in Calls :
    result[c].kind = "transfer" =>
      /\ result[c].id \in executed
      /\ result[c].id <= c
      /\ \A d \in Calls \ {c} : result[d] # result[c]

\* A caller of new() gets its client, unless the connection or the login is
\* lost: nothing the client waits for is an answer the broker is not to send.
NewSucceeds == pc = "new" ~> pc = "ready" \/ link # "up"

\* A caller of call() gets an answer, or a panic.
CallReturns == pc = "call" ~> pc \in {"ready", "panicked"}

\* A call on a session that lasts is answered, with the reply to this call.
CallSucceeds ==
  \A c \in Calls :
    pc = "call" /\ calls = c ~> result[c] = Reply(c) \/ link # "up" \/ stage = "ended"

-----------------------------------------------------------------------------
\* What the caller sees of all this is the service RpcService specifies.
Outcome(c) ==
  CASE result[c] = NoResult -> "none"
    [] result[c] = ErrResult -> "err"
    [] result[c] = Reply(c) -> "ok"
    [] OTHER -> "wrong"

Service == INSTANCE RpcService WITH
  phase <- CASE pc \in {"start", "new"} -> "opening"
             [] pc = "ready" -> "ready"
             [] pc = "call" -> "calling"
             [] OTHER -> "over",
  started <- calls,
  outcome <- [c \in Calls |-> Outcome(c)]

\* The client and the broker together behave as RpcService: no call succeeds
\* without its RPC having run, and opening and every call end.
ImplementsService == Service!Spec
=============================================================================
