----------------------------- MODULE RpcService -----------------------------
(***************************************************************************)
(* What corda_rpc::Client promises its caller: a connection that opens or  *)
(* does not, and calls, one at a time, each answered at most once.  A call *)
(* that succeeds returns the outcome of an RPC the node has run for it.  A *)
(* call that fails promises nothing: its RPC may have run, may never run,  *)
(* or may run after the failure was reported.                              *)
(***************************************************************************)
EXTENDS Naturals

CONSTANT MaxCalls

VARIABLES
  phase,     \* opening, ready, calling, or over
  started,   \* calls made so far
  outcome,   \* none, ok or err for each call
  executed   \* calls whose RPC the node has run

vars == <<phase, started, outcome, executed>>

Calls == 1..MaxCalls

Init ==
  /\ phase = "opening"
  /\ started = 0
  /\ outcome = [c \in Calls |-> "none"]
  /\ executed = {}

\* Client::new returns.
Opened ==
  /\ phase = "opening"
  /\ phase' \in {"ready", "over"}
  /\ UNCHANGED <<started, outcome, executed>>

Start ==
  /\ phase = "ready" /\ started < MaxCalls
  /\ phase' = "calling"
  /\ started' = started + 1
  /\ UNCHANGED <<outcome, executed>>

Run(c) ==
  /\ c <= started /\ c \notin executed
  /\ executed' = executed \cup {c}
  /\ UNCHANGED <<phase, started, outcome>>

Succeed ==
  /\ phase = "calling" /\ started \in executed
  /\ phase' = "ready"
  /\ outcome' = [outcome EXCEPT ![started] = "ok"]
  /\ UNCHANGED <<started, executed>>

Fail ==
  /\ phase = "calling"
  /\ \/ phase' = "ready" /\ outcome' = [outcome EXCEPT ![started] = "err"]
     \/ phase' = "over" /\ UNCHANGED outcome
  /\ UNCHANGED <<started, executed>>

Next ==
  \/ Opened \/ Start \/ Succeed \/ Fail
  \/ \E c \in Calls : Run(c)

\* Opening ends, and every call ends.
Spec ==
  /\ Init /\ [][Next]_vars
  /\ WF_vars(Opened) /\ WF_vars(Succeed \/ Fail)
=============================================================================
