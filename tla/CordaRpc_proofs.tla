--------------------------- MODULE CordaRpc_proofs ---------------------------
(***************************************************************************)
(* Proofs about CordaRpc for every number of calls, every set of faults and *)
(* every behaviour of the broker the constants allow.                      *)
(*                                                                         *)
(* The client looks at none of the answers it gets while it connects, so   *)
(* what it knows when new() returns it knows by counting.  LockInv says    *)
(* how its position in the script of new() and the broker's stage belong   *)
(* together: while the connection is up, the frames under way are exactly  *)
(* the ones between the two; once it is lost, the frames still to be had   *)
(* are too few to bring the client to the end of its script.               *)
(*                                                                         *)
(* About the calls after new(): when a call panics, that every reply       *)
(* returned is a real one, and that the client never sends what the broker  *)
(* does not allow, whatever is dropped, lost or reordered.                 *)
(***************************************************************************)
EXTENDS CordaRpc, SequenceTheorems, TLAPS

SendSteps == {1, 4, 7, 8, 10, 12}

\* How many frames the script of new() has received before position s.
Received(s) ==
  IF s <= 2 THEN 0 ELSE IF s = 3 THEN 1 ELSE IF s <= 5 THEN 2
  ELSE IF s = 6 THEN 3 ELSE IF s <= 9 THEN 4 ELSE IF s <= 11 THEN 5
  ELSE IF s <= 13 THEN 6 ELSE 7

\* How many frames, at most, the broker has sent when it is at `stage`.
Answered == senderLink \/ "refuse_link" \in Faults
Sent ==
  CASE stage = "sasl_header" -> 0
    [] stage = "init" -> 2
    [] stage = "amqp_header" -> IF EagerHeader THEN 4 ELSE 3
    [] stage = "refused" -> 3
    [] stage = "open" -> 4
    [] stage = "begin" -> 5
    [] OTHER -> IF Answered THEN 8 ELSE 6

Owed == Received(step) + Len(toClient)

Empty == Len(toBroker) = 0
One(kind) == Len(toBroker) = 1 /\ toBroker[1].kind = kind
Two(first, second) ==
  Len(toBroker) = 2 /\ toBroker[1].kind = first /\ toBroker[2].kind = second

\* The frames under way to the broker are the script's, from the one the
\* broker waits for to the last one the client has sent.
Lockstep ==
  \/ /\ stage = "sasl_header" /\ Owed = 0
     /\ (step = 1 /\ Empty) \/ (step = 2 /\ One("sasl_header"))
  \/ /\ stage = "init" /\ Owed = 2
     /\ (step \in 2..4 /\ Empty) \/ (step = 5 /\ One("init"))
  \/ /\ stage = "amqp_header" /\ Owed = Sent
     /\ \/ step \in 5..7 /\ Empty
        \/ step = 8 /\ One("amqp_header")
        \/ step = 9 /\ Two("amqp_header", "open")
  \/ /\ stage = "open" /\ Owed = 4
     /\ (step = 8 /\ Empty) \/ (step = 9 /\ One("open"))
  \/ /\ stage = "begin" /\ Owed = 5
     /\ (step \in 9..10 /\ Empty) \/ (step = 11 /\ One("begin"))
  \/ /\ stage = "links" /\ ~senderLink /\ Owed = 6
     /\ (step \in 11..12 /\ Empty) \/ (step = 13 /\ One("attach_sender"))
  \/ /\ stage = "links" /\ Answered /\ Owed = 8
     /\ step \in 13..14 /\ Empty

\* Nothing but the handshake has happened yet.
Fresh ==
  /\ calls = 0 /\ queue = 0
  /\ unsettled = {} /\ requests = {} /\ replies = {}
  /\ senderLink => stage = "links" /\ senderCredit = Credit

StepsOK == pc \in {"start", "ready"} => step = 1
StartInv ==
  pc = "start" => Fresh /\ stage = "sasl_header" /\ ~errored /\ Empty /\ toClient = <<>>
NewFresh == pc = "new" => Fresh /\ stage \notin {"ended", "rejected"}
NewLockstep ==
  pc = "new" /\ link = "up" =>
    /\ ~errored
    /\ \A i \in 1..Len(toClient) : Decodable(toClient[i])
    /\ Lockstep
NewBound == pc = "new" => Owed <= Sent + (IF errored THEN 1 ELSE 0)
AfterNew ==
  pc \in {"ready", "call"} => stage \in {"links", "ended", "rejected"} /\ Answered

LockInv == StartInv /\ NewFresh /\ NewLockstep /\ NewBound /\ AfterNew
IInv == TypeOK /\ StepsOK /\ LockInv

-----------------------------------------------------------------------------
\* The parts of a concatenation, each by its own index.
LEMMA ConcatParts ==
  ASSUME NEW S, NEW s \in Seq(S), NEW t \in Seq(S)
  PROVE  /\ s \o t \in Seq(S)
         /\ Len(s \o t) = Len(s) + Len(t)
         /\ \A i \in 1..Len(s) : (s \o t)[i] = s[i]
         /\ \A i \in 1..Len(t) : (s \o t)[Len(s) + i] = t[i]
<1>1. Len(s) \in Nat /\ Len(t) \in Nat
  BY LenProperties
<1>2. \A i \in 1..Len(s) : i \in 1..Len(s) + Len(t) /\ i <= Len(s)
  BY <1>1, SMT
<1>3. \A i \in 1..Len(t) : /\ Len(s) + i \in 1..Len(s) + Len(t) /\ ~(Len(s) + i <= Len(s))
                           /\ Len(s) + i - Len(s) = i
  BY <1>1, SMT
<1> DEFINE st == s \o t
<1>4. /\ st \in Seq(S) /\ Len(st) = Len(s) + Len(t)
      /\ \A i \in 1..Len(s) + Len(t) : st[i] = IF i <= Len(s) THEN s[i] ELSE t[i - Len(s)]
  BY ConcatProperties, Zenon
<1> HIDE DEF st
<1> QED  BY <1>2, <1>3, <1>4 DEF st

\* The scripts of new() and call(), position by position.
LEMMA NewScript ==
  /\ Len(New) = 14
  /\ New[1] = Tx("sasl_header") /\ New[2] = Rx /\ New[3] = Rx
  /\ New[4] = Tx("init") /\ New[5] = Rx /\ New[6] = Rx
  /\ New[7] = Tx("amqp_header") /\ New[8] = Tx("open") /\ New[9] = Rx
  /\ New[10] = Tx("begin") /\ New[11] = Rx
  /\ New[12] = Tx("attach_sender") /\ New[13] = Rx /\ New[14] = Rx
<1> DEFINE S == {Rx, Tx("sasl_header"), Tx("init"), Tx("amqp_header"), Tx("open"),
                 Tx("begin"), Tx("attach_sender")}
           A == << Tx("attach_sender"), Rx, Rx >>
           LO == Login \o Open
           LOB == LO \o Begin
<1>1. New = LOB \o A
  BY DEF New, Attach
<1>2. /\ Rx \in S /\ Tx("sasl_header") \in S /\ Tx("init") \in S
      /\ Tx("amqp_header") \in S /\ Tx("open") \in S /\ Tx("begin") \in S
      /\ Tx("attach_sender") \in S
  OBVIOUS
<1> HIDE DEF S
<1>3. Login \in Seq(S) /\ Open \in Seq(S) /\ Begin \in Seq(S) /\ A \in Seq(S)
  <2>1. Login \in Seq(S)  BY <1>2, SMT DEF Login
  <2>2. Open \in Seq(S)   BY <1>2, SMT DEF Open
  <2>3. Begin \in Seq(S)  BY <1>2, SMT DEF Begin
  <2>4. A \in Seq(S)      BY <1>2, SMT
  <2> QED  BY <2>1, <2>2, <2>3, <2>4
<1> HIDE DEF A
<1>4. /\ LO \in Seq(S) /\ Len(LO) = 9 /\ LO[8] = Tx("open") /\ LO[9] = Rx
      /\ \A i \in 1..7 : LO[i] = Login[i]
  <2>1. /\ LO \in Seq(S) /\ Len(LO) = Len(Login) + Len(Open)
        /\ \A i \in 1..Len(Login) : LO[i] = Login[i]
        /\ \A i \in 1..Len(Open) : LO[Len(Login) + i] = Open[i]
    BY <1>3, ConcatParts, SMT
  <2> HIDE DEF LO
  <2>2. LO[7 + 1] = Tx("open") /\ LO[7 + 2] = Rx
    BY <2>1, SMT DEF Login, Open
  <2> QED  BY <2>1, <2>2, SMT DEF Login, Open
<1> HIDE DEF LO
<1>5. /\ LOB \in Seq(S) /\ Len(LOB) = 11 /\ LOB[10] = Tx("begin") /\ LOB[11] = Rx
      /\ \A i \in 1..9 : LOB[i] = LO[i]
  <2>0. LO \in Seq(S) /\ Begin \in Seq(S)
    BY <1>3, <1>4
  <2>1. /\ LOB \in Seq(S) /\ Len(LOB) = Len(LO) + Len(Begin)
        /\ \A i \in 1..Len(LO) : LOB[i] = LO[i]
        /\ \A i \in 1..Len(Begin) : LOB[Len(LO) + i] = Begin[i]
    BY <2>0, ConcatParts, SMT
  <2> HIDE DEF LOB
  <2>2. LOB[9 + 1] = Tx("begin") /\ LOB[9 + 2] = Rx
    BY <1>4, <2>1, SMT DEF Begin
  <2> QED  BY <1>4, <2>1, <2>2, SMT DEF Begin
<1> HIDE DEF LOB
<1>6. /\ Len(New) = 14
      /\ New[12] = Tx("attach_sender") /\ New[13] = Rx /\ New[14] = Rx
      /\ \A i \in 1..11 : New[i] = LOB[i]
  <2>0. LOB \in Seq(S) /\ A \in Seq(S)
    BY <1>3, <1>5
  <2>1. /\ Len(New) = Len(LOB) + Len(A)
        /\ \A i \in 1..Len(LOB) : New[i] = LOB[i]
        /\ \A i \in 1..Len(A) : New[Len(LOB) + i] = A[i]
    BY <1>1, <2>0, ConcatParts, SMT
  <2>2. New[11 + 1] = Tx("attach_sender") /\ New[11 + 2] = Rx /\ New[11 + 3] = Rx
    BY <1>5, <2>1, SMT DEF A
  <2> QED  BY <1>5, <2>1, <2>2, SMT DEF A
<1> QED  BY <1>4, <1>5, <1>6, SMT DEF Login

LEMMA CallScript ==
  /\ Len(Call) = 6
  /\ Call[1] = Tx("attach_receiver") /\ Call[2] = Rx /\ Call[3] = Tx("flow")
  /\ Call[4] = Unwrapped(Tx("transfer")) /\ Call[5] = Unwrapped(Rx)
  /\ Call[6] = PollNext[1]
<1> DEFINE U == Unwrapped(Tx("transfer"))
           V == Unwrapped(Rx)
           P == PollNext[1]
           S == {Rx, Tx("attach_receiver"), Tx("flow"), U, V, P}
           A == << Tx("attach_receiver"), Rx >>
           T == << U, V >>
           AF == A \o Flow
           AFT == AF \o T
<1>1. Unwrap(Transfer) = T
  <2> HIDE DEF S
  <2> QED  BY SMT DEF Unwrap, Transfer
<1>2. Call = AFT \o PollNext
  BY <1>1 DEF Call, Attach
<1>3. PollNext = << P >>
  BY DEF PollNext
<1>4. /\ Rx \in S /\ Tx("attach_receiver") \in S /\ Tx("flow") \in S
      /\ U \in S /\ V \in S /\ P \in S
  OBVIOUS
<1> HIDE DEF S, U, V, P
<1>5. A \in Seq(S) /\ Flow \in Seq(S) /\ T \in Seq(S) /\ PollNext \in Seq(S)
  <2>1. A \in Seq(S)         BY <1>4, SMT
  <2>2. Flow \in Seq(S)      BY <1>4, SMT DEF Flow
  <2>3. T \in Seq(S)         BY <1>4, SMT
  <2>4. << P >> \in Seq(S)   BY <1>4, SMT
  <2> QED  BY <1>3, <2>1, <2>2, <2>3, <2>4
<1> HIDE DEF A, T
<1>6. /\ AF \in Seq(S) /\ Len(AF) = 3
      /\ AF[1] = Tx("attach_receiver") /\ AF[2] = Rx /\ AF[3] = Tx("flow")
  <2>1. /\ AF \in Seq(S) /\ Len(AF) = Len(A) + Len(Flow)
        /\ \A i \in 1..Len(A) : AF[i] = A[i]
        /\ \A i \in 1..Len(Flow) : AF[Len(A) + i] = Flow[i]
    BY <1>5, ConcatParts, SMT
  <2> HIDE DEF AF
  <2>2. AF[2 + 1] = Tx("flow")
    BY <2>1, SMT DEF A, Flow
  <2> QED  BY <2>1, <2>2, SMT DEF A, Flow
<1> HIDE DEF AF
<1>7. /\ AFT \in Seq(S) /\ Len(AFT) = 5 /\ AFT[4] = U /\ AFT[5] = V
      /\ \A i \in 1..3 : AFT[i] = AF[i]
  <2>0. AF \in Seq(S) /\ T \in Seq(S)
    BY <1>5, <1>6
  <2>1. /\ AFT \in Seq(S) /\ Len(AFT) = Len(AF) + Len(T)
        /\ \A i \in 1..Len(AF) : AFT[i] = AF[i]
        /\ \A i \in 1..Len(T) : AFT[Len(AF) + i] = T[i]
    BY <2>0, ConcatParts, SMT
  <2> HIDE DEF AFT
  <2>2. AFT[3 + 1] = U /\ AFT[3 + 2] = V
    BY <1>6, <2>1, SMT DEF T
  <2> QED  BY <1>6, <2>1, <2>2, SMT DEF T
<1> HIDE DEF AFT
<1>8. /\ Len(Call) = 6 /\ Call[6] = P
      /\ \A i \in 1..5 : Call[i] = AFT[i]
  <2>0. AFT \in Seq(S) /\ PollNext \in Seq(S)
    BY <1>5, <1>7
  <2>1. /\ Len(Call) = Len(AFT) + Len(PollNext)
        /\ \A i \in 1..Len(AFT) : Call[i] = AFT[i]
        /\ \A i \in 1..Len(PollNext) : Call[Len(AFT) + i] = PollNext[i]
    BY <1>2, <2>0, ConcatParts, SMT
  <2>2. Len(PollNext) = 1 /\ PollNext[1] = P
    BY <1>3 DEF P
  <2>3. Call[5 + 1] = P
    BY <1>7, <2>1, <2>2, SMT
  <2> QED  BY <1>7, <2>1, <2>2, <2>3, SMT
<1>9. Call[1] = Tx("attach_receiver") /\ Call[2] = Rx /\ Call[3] = Tx("flow")
  BY <1>6, <1>8, <1>7, SMT
<1> QED  BY <1>7, <1>8, <1>9, SMT DEF U, V, P

\* Of new(): which positions send what, which receive; none is unwrapped.
LEMMA NewSteps ==
  ASSUME pc = "new", step \in 1..14
  PROVE  /\ Script = New
         /\ Running("send") <=> step \in SendSteps
         /\ Running("send") => Script[step].kind \in HandshakeKinds
         /\ Running("recv") <=> step \notin SendSteps
         /\ ~Running("next")
         /\ ~Script[step].unwrapped
<1>1. Script = New
  BY DEF Script
<1> QED  BY <1>1, NewScript, SMT DEF Running, Tx, Rx, SendSteps, HandshakeKinds

LEMMA CallSteps ==
  ASSUME pc = "call", step \in 1..6
  PROVE  /\ Script = Call
         /\ Running("send") => Script[step].kind \in {"attach_receiver", "flow", "transfer"}
         /\ Running("next") => step = 6
<1>1. Script = Call
  BY DEF Script
<1> QED  BY <1>1, CallScript, SMT DEF Running, Tx, Rx, Unwrapped, PollNext

-----------------------------------------------------------------------------
\* What the operations of the wire do to its types.
LEMMA WireTypes ==
  ASSUME WireTypeOK
  PROVE  /\ \A f \in ToBrokerFrames : SendOk(f) => WireTypeOK'
         /\ SendErr => WireTypeOK'
         /\ PollFrame => WireTypeOK' /\ Head(toClient) \in ToClientFrames
         /\ PollErr => WireTypeOK'
         /\ PollNone => WireTypeOK'
<1> USE DEF WireTypeOK, LinkStates
<1>1. ASSUME NEW f \in ToBrokerFrames, SendOk(f) PROVE WireTypeOK'
  BY <1>1 DEF SendOk
<1>2. ASSUME SendErr PROVE WireTypeOK'
  BY <1>2 DEF SendErr
<1>3. ASSUME toClient # <<>>
      PROVE  Head(toClient) \in ToClientFrames /\ Tail(toClient) \in Seq(ToClientFrames)
  BY <1>3, HeadTailProperties
<1>4. PollFrame => WireTypeOK' /\ Head(toClient) \in ToClientFrames
  BY <1>3 DEF PollFrame
<1>5. PollErr => WireTypeOK'
  <2>1. <<>> \in Seq(ToClientFrames)
    BY EmptySeq
  <2> QED  BY <1>3, <2>1 DEF PollErr
<1>6. PollNone => WireTypeOK'
  BY DEF PollNone
<1> QED  BY <1>1, <1>2, <1>4, <1>5, <1>6

\* A script step leaves step, pc and result in their types.
LEMMA ScriptTypes ==
  ASSUME ClientTypeOK, StepsOK, pc \in {"new", "call"}
  PROVE  /\ Advance => ClientTypeOK' /\ StepsOK'
         /\ Abort => ClientTypeOK' /\ StepsOK'
         /\ \A r \in ToClientFrames \cup {ErrResult} :
              pc = "call" /\ Return(r) => ClientTypeOK' /\ StepsOK'
<1>1. Len(New) = 14 /\ Len(Call) = 6
  BY NewScript, CallScript
<1>2. Len(Script) = IF pc = "new" THEN 14 ELSE 6
  BY <1>1 DEF Script
<1>3. step \in 1..Len(Script) /\ step \in 1..14 /\ (pc = "call" => step \in 1..6)
  BY <1>1, <1>2 DEF ClientTypeOK
<1>4. Advance => ClientTypeOK' /\ StepsOK'
  BY <1>1, <1>2, <1>3, SMT DEF Advance, ClientTypeOK, StepsOK
<1>5. ASSUME NEW r \in ToClientFrames \cup {ErrResult}, pc = "call", Return(r)
      PROVE  ClientTypeOK' /\ StepsOK'
  <2>1. calls \in Calls
    BY <1>5, MaxCallsAssumption, SMT DEF ClientTypeOK, Calls
  <2>2. result' \in [Calls -> ToClientFrames \cup {NoResult, ErrResult}]
    BY <1>5, <2>1 DEF Return, ClientTypeOK
  <2>3. pc' = "ready" /\ step' = 1 /\ calls' = calls
    BY <1>5 DEF Return
  <2> QED  BY <1>1, <2>2, <2>3, SMT DEF ClientTypeOK, StepsOK
<1>6. Abort => ClientTypeOK' /\ StepsOK'
  <2>1. CASE Script[step].unwrapped
    <3>1. pc = "call"
      BY <1>3, <2>1, NewSteps
    <3>2. Abort => pc' = "panicked" /\ UNCHANGED <<step, calls, result>>
      BY <2>1 DEF Abort
    <3> QED  BY <1>1, <3>1, <3>2, SMT DEF ClientTypeOK, StepsOK
  <2>2. CASE ~Script[step].unwrapped /\ pc = "call"
    BY <1>5, <2>2 DEF Abort
  <2>3. CASE ~Script[step].unwrapped /\ pc # "call"
    <3>1. Abort => pc' = "failed" /\ UNCHANGED <<step, calls, result>>
      BY <2>3 DEF Abort
    <3> QED  BY <1>1, <3>1, SMT DEF ClientTypeOK, StepsOK
  <2> QED  BY <2>1, <2>2, <2>3
<1> QED  BY <1>4, <1>5, <1>6

LEMMA ClientTypes ==
  ASSUME TypeOK, StepsOK,
         Connect \/ Transmit \/ Receive \/ TakeReply \/ Cancel \/ StartCall
  PROVE  WireTypeOK' /\ ClientTypeOK' /\ StepsOK'
<1> USE DEF TypeOK
<1>1. Len(New) = 14 /\ Len(Call) = 6
  BY NewScript, CallScript
<1>2. CASE Connect
  BY <1>1, <1>2, SMT DEF Connect, StepsOK, ClientTypeOK, WireTypeOK, wire
<1>3. CASE Transmit
  <2>1. pc \in {"new", "call"} /\ Running("send")
    BY <1>3 DEF Transmit, Running
  <2> DEFINE f == Frame(Script[step].kind, IF pc = "call" THEN calls ELSE 0)
  <2>2. f \in ToBrokerFrames
    <3>1. CASE pc = "new"
      <4>1. Script[step].kind \in HandshakeKinds
        BY <1>1, <2>1, <3>1, NewSteps DEF ClientTypeOK
      <4> QED  BY <3>1, <4>1, SMT DEF Frame, ToBrokerFrames
    <3>2. CASE pc = "call"
      <4>1. Script[step].kind \in {"attach_receiver", "flow", "transfer"}
        BY <1>1, <2>1, <3>2, CallSteps DEF ClientTypeOK
      <4>2. calls \in Calls
        BY <3>2, MaxCallsAssumption, SMT DEF ClientTypeOK, Calls
      <4> QED  BY <3>2, <4>1, <4>2, SMT DEF Frame, ToBrokerFrames
    <3> QED  BY <2>1, <3>1, <3>2
  <2>3. (SendOk(f) /\ Advance) \/ (SendErr /\ Abort)
    BY <1>3 DEF Transmit
  <2> HIDE DEF f
  <2> QED  BY <2>1, <2>2, <2>3, WireTypes, ScriptTypes
<1>4. CASE Receive
  <2>1. pc \in {"new", "call"}
    BY <1>4 DEF Receive, Running
  <2> QED  BY <1>4, <2>1, WireTypes, ScriptTypes DEF Receive
<1>5. CASE TakeReply
  <2>1. pc = "call"
    BY <1>1, <1>5, NewSteps DEF TakeReply, Running, ClientTypeOK
  <2> QED  BY <1>5, <2>1, WireTypes, ScriptTypes DEF TakeReply
<1>6. CASE Cancel
  BY <1>1, <1>6, SMT DEF Cancel, StepsOK, ClientTypeOK, WireTypeOK, wire
<1>7. CASE StartCall
  BY <1>1, <1>7, MaxCallsAssumption, SMT
     DEF StartCall, StepsOK, ClientTypeOK, WireTypeOK, wire
<1> QED  BY <1>2, <1>3, <1>4, <1>5, <1>6, <1>7

\* The frames the broker sends, appended to those under way.
LEMMA BrokerSends ==
  ASSUME WireTypeOK, toBroker # <<>>, NEW fs \in Seq(ToClientFrames), Sends(fs)
  PROVE  WireTypeOK'
<1>1. Tail(toBroker) \in Seq(ToBrokerFrames)
  BY HeadTailProperties DEF WireTypeOK
<1>2. toClient \o fs \in Seq(ToClientFrames)
  BY ConcatProperties DEF WireTypeOK
<1> QED  BY <1>1, <1>2 DEF Sends, WireTypeOK

LEMMA BrokerPushes ==
  ASSUME WireTypeOK, NEW f \in ToClientFrames, Push(f)
  PROVE  WireTypeOK'
BY DEF Push, WireTypeOK

\* One frame, or two, of a kind the broker sends unasked for a call.
ControlKinds ==
  {"sasl_header", "mechanisms", "outcome", "amqp_header", "open", "begin",
   "attach", "flow", "detach", "close", "end"}

LEMMA ControlFrames ==
  /\ \A k \in ControlKinds : Frame(k, 0) \in ToClientFrames
  /\ \A k \in ControlKinds : <<Frame(k, 0)>> \in Seq(ToClientFrames)
  /\ \A k, l \in ControlKinds : <<Frame(k, 0), Frame(l, 0)>> \in Seq(ToClientFrames)
  /\ <<>> \in Seq(ToClientFrames)
<1>1. \A k \in ControlKinds : Frame(k, 0) \in ToClientFrames
  BY DEF ControlKinds, Frame, ToClientFrames
<1> QED  BY <1>1, SMT

LEMMA BrokerTypes ==
  ASSUME TypeOK, BrokerNext
  PROVE  WireTypeOK' /\ BrokerTypeOK'
<1> USE DEF TypeOK
<1> DEFINE K(k) == k \in ControlKinds
<1>k. /\ K("sasl_header") /\ K("mechanisms") /\ K("outcome") /\ K("amqp_header")
      /\ K("open") /\ K("begin") /\ K("attach") /\ K("flow") /\ K("detach")
      /\ K("close") /\ K("end")
  BY DEF ControlKinds
<1>r. \A k : Reads(k) => toBroker # <<>> /\ Head(toBroker) \in ToBrokerFrames
                         /\ Head(toBroker).kind = k /\ link = "up"
  BY HeadTailProperties DEF Reads, WireTypeOK
<1>id. \A f \in ToBrokerFrames :
         f.kind \in {"attach_receiver", "flow", "transfer"} => f.id \in Calls
  BY DEF ToBrokerFrames, HandshakeKinds
<1>e. <<>> \in Seq(ToBrokerFrames) /\ <<>> \in Seq(ToClientFrames)
  BY EmptySeq
<1>b. LowCredit \in Nat /\ Credit \in Nat /\ LowCredit < Credit /\ EagerHeader \in BOOLEAN
  BY BrokerAssumption
<1>1. CASE OnSaslHeader
  <2>1. WireTypeOK'
    BY <1>1, <1>k, <1>r, BrokerSends, ControlFrames DEF OnSaslHeader
  <2> QED  BY <1>1, <2>1 DEF OnSaslHeader, BrokerTypeOK, Stages, links, work
<1>2. CASE OnInit
  <2>1. WireTypeOK'
    <3>1. CASE EagerHeader
      BY <1>2, <1>k, <1>r, <3>1, BrokerSends, ControlFrames DEF OnInit
    <3>2. CASE ~EagerHeader
      BY <1>2, <1>k, <1>r, <3>2, BrokerSends, ControlFrames DEF OnInit
    <3> QED  BY <3>1, <3>2
  <2> QED  BY <1>2, <2>1 DEF OnInit, BrokerTypeOK, Stages, links, work
<1>3. CASE OnInitRefuse
  <2>1. Append(toClient, Frame("outcome", 0)) \in Seq(ToClientFrames)
    BY <1>k, ControlFrames, AppendProperties DEF WireTypeOK
  <2>2. WireTypeOK'
    BY <1>3, <1>e, <2>1 DEF OnInitRefuse, WireTypeOK, LinkStates
  <2> QED  BY <1>3, <2>2 DEF OnInitRefuse, BrokerTypeOK, Stages, links, work
<1>4. CASE OnAmqpHeader
  <2>1. WireTypeOK'
    <3>1. CASE EagerHeader
      BY <1>4, <1>k, <1>r, <3>1, BrokerSends, ControlFrames DEF OnAmqpHeader
    <3>2. CASE ~EagerHeader
      BY <1>4, <1>k, <1>r, <3>2, BrokerSends, ControlFrames DEF OnAmqpHeader
    <3> QED  BY <3>1, <3>2
  <2> QED  BY <1>4, <2>1 DEF OnAmqpHeader, BrokerTypeOK, Stages, links, work
<1>5. CASE OnOpen
  <2>1. WireTypeOK'
    BY <1>5, <1>k, <1>r, BrokerSends, ControlFrames DEF OnOpen
  <2> QED  BY <1>5, <2>1 DEF OnOpen, BrokerTypeOK, Stages, links, work
<1>6. CASE OnBegin
  <2>1. WireTypeOK'
    BY <1>6, <1>k, <1>r, BrokerSends, ControlFrames DEF OnBegin
  <2> QED  BY <1>6, <2>1 DEF OnBegin, BrokerTypeOK, Stages, links, work
<1>7. CASE OnAttachSender
  <2>1. WireTypeOK'
    BY <1>7, <1>k, <1>r, BrokerSends, ControlFrames DEF OnAttachSender
  <2>2. \/ senderLink' = TRUE /\ senderCredit' = Credit
        \/ senderLink' = senderLink /\ senderCredit' = senderCredit
    BY <1>7 DEF OnAttachSender
  <2>3. Credit \in 0..Credit
    BY <1>b, SMT
  <2> QED  BY <1>7, <2>1, <2>2, <2>3 DEF OnAttachSender, BrokerTypeOK, work
<1>8. CASE OnAttachReceiver
  <2>1. WireTypeOK'
    BY <1>8, <1>k, <1>r, BrokerSends, ControlFrames DEF OnAttachReceiver
  <2>2. Head(toBroker).id \in 0..MaxCalls
    BY <1>8, <1>r, <1>id, MaxCallsAssumption, SMT DEF OnAttachReceiver, Calls
  <2>3. stage' \in Stages /\ queue' \in 0..MaxCalls /\ credited' \in BOOLEAN
    BY <1>8, <2>2 DEF OnAttachReceiver, BrokerTypeOK, Stages
  <2> QED  BY <1>8, <2>1, <2>3 DEF OnAttachReceiver, BrokerTypeOK, work
<1>9. CASE OnFlow
  <2>1. WireTypeOK'
    BY <1>9, <1>r, BrokerSends, ControlFrames DEF OnFlow
  <2> QED  BY <1>9, <2>1 DEF OnFlow, BrokerTypeOK, work
<1>10. CASE OnTransfer
  <2>1. WireTypeOK'
    BY <1>10, <1>r, BrokerSends, ControlFrames DEF OnTransfer
  <2>2. Head(toBroker).id \in Calls
    BY <1>10, <1>r, <1>id DEF OnTransfer
  <2>3. senderCredit' \in 0..Credit
    BY <1>10, <1>b, SMT DEF OnTransfer, BrokerTypeOK
  <2> QED  BY <1>10, <2>1, <2>2, <2>3 DEF OnTransfer, BrokerTypeOK
<1>11. CASE Discard
  <2>1. WireTypeOK'
    BY <1>11, BrokerSends, ControlFrames DEF Discard
  <2> QED  BY <1>11, <2>1 DEF Discard, BrokerTypeOK, broker
<1>12. CASE Reject
  <2>1. Append(toClient, Frame("close", 0)) \in Seq(ToClientFrames)
    BY <1>k, ControlFrames, AppendProperties DEF WireTypeOK
  <2>2. WireTypeOK'
    BY <1>12, <1>e, <2>1 DEF Reject, WireTypeOK, LinkStates
  <2> QED  BY <1>12, <2>2 DEF Reject, BrokerTypeOK, Stages, links, work
<1>13. ASSUME NEW c \in Calls, Settle(c) \/ Execute(c) \/ Deliver(c)
       PROVE  WireTypeOK' /\ BrokerTypeOK'
  <2>1. Frame("disposition", c) \in ToClientFrames /\ Frame("transfer", c) \in ToClientFrames
    BY DEF Frame, ToClientFrames
  <2>2. CASE Settle(c)
    <3>1. WireTypeOK'
      BY <2>1, <2>2, BrokerPushes DEF Settle
    <3> QED  BY <2>2, <3>1 DEF Settle, BrokerTypeOK, links
  <2>3. CASE Execute(c)
    BY <2>3 DEF Execute, BrokerTypeOK, WireTypeOK, links, wire
  <2>4. CASE Deliver(c)
    <3>1. WireTypeOK'
      BY <2>1, <2>4, BrokerPushes DEF Deliver
    <3> QED  BY <2>4, <3>1 DEF Deliver, BrokerTypeOK, links
  <2> QED  BY <1>13, <2>2, <2>3, <2>4
<1>14. CASE Replenish
  <2>1. WireTypeOK'
    BY <1>14, <1>k, ControlFrames, BrokerPushes DEF Replenish
  <2>2. senderCredit' \in 0..Credit
    BY <1>14, <1>b, SMT DEF Replenish
  <2> QED  BY <1>14, <2>1, <2>2 DEF Replenish, BrokerTypeOK, work
<1>15. CASE Disconnect
  <2>1. PICK n \in 0..Len(toClient) : toClient' = SubSeq(toClient, 1, n)
    BY <1>15 DEF Disconnect
  <2>2. toClient' \in Seq(ToClientFrames)
    BY <2>1, SMT DEF WireTypeOK
  <2>3. WireTypeOK'
    BY <1>15, <1>e, <2>2 DEF Disconnect, WireTypeOK, LinkStates
  <2> QED  BY <1>15, <2>3 DEF Disconnect, BrokerTypeOK, broker
<1> QED
  BY <1>1, <1>2, <1>3, <1>4, <1>5, <1>6, <1>7, <1>8, <1>9, <1>10, <1>11, <1>12,
     <1>13, <1>14, <1>15 DEF BrokerNext, BrokerReads, BrokerWorks

LEMMA TypeInit == Init => TypeOK /\ StepsOK
<1> SUFFICES ASSUME Init PROVE TypeOK /\ StepsOK
  OBVIOUS
<1> USE DEF Init
<1>1. WireTypeOK
  BY EmptySeq DEF WireInit, WireTypeOK, LinkStates
<1>2. ClientTypeOK /\ StepsOK
  <2>1. 1 \in 1..Len(New) /\ 0 \in 0..MaxCalls
    BY NewScript, MaxCallsAssumption, SMT
  <2> QED  BY <2>1 DEF ClientInit, ClientTypeOK, StepsOK
<1>3. BrokerTypeOK
  <2>1. 0 \in 0..MaxCalls /\ 0 \in 0..Credit
    BY MaxCallsAssumption, BrokerAssumption, SMT
  <2> QED  BY <2>1 DEF BrokerInit, BrokerTypeOK, Stages
<1> QED  BY <1>1, <1>2, <1>3 DEF TypeOK

LEMMA TypeNext ==
  ASSUME TypeOK, StepsOK, [Next]_vars
  PROVE  TypeOK' /\ StepsOK'
<1>1. ASSUME Connect \/ Transmit \/ Receive \/ TakeReply \/ Cancel,
             UNCHANGED <<broker, quiet>>
      PROVE  TypeOK' /\ StepsOK'
  <2>1. BrokerTypeOK' /\ quiet' \subseteq Calls
    BY <1>1 DEF TypeOK, BrokerTypeOK, broker
  <2> QED  BY <1>1, <2>1, ClientTypes DEF TypeOK
<1>2. ASSUME StartCall, UNCHANGED broker,
             quiet' = IF Quiescent THEN quiet \cup {calls + 1} ELSE quiet
      PROVE  TypeOK' /\ StepsOK'
  <2>1. BrokerTypeOK'
    BY <1>2 DEF TypeOK, BrokerTypeOK, broker
  <2>2. calls + 1 \in Calls
    BY <1>2, MaxCallsAssumption, SMT DEF StartCall, TypeOK, ClientTypeOK, Calls
  <2>3. quiet' \subseteq Calls
    BY <1>2, <2>2 DEF TypeOK
  <2> QED  BY <1>2, <2>1, <2>3, ClientTypes DEF TypeOK
<1>3. ASSUME BrokerNext, UNCHANGED <<client, quiet>>
      PROVE  TypeOK' /\ StepsOK'
  <2>1. ClientTypeOK' /\ StepsOK' /\ quiet' \subseteq Calls
    BY <1>3 DEF TypeOK, ClientTypeOK, StepsOK, client
  <2> QED  BY <1>3, <2>1, BrokerTypes DEF TypeOK
<1>4. ASSUME UNCHANGED vars
      PROVE  TypeOK' /\ StepsOK'
  BY <1>4 DEF TypeOK, WireTypeOK, ClientTypeOK, BrokerTypeOK, StepsOK,
              vars, wire, client, broker
<1> QED
  BY <1>1, <1>2, <1>3, <1>4 DEF Next, Stopped

\* The types of all variables, whatever the broker does.
THEOREM TypeCorrect == Spec => []TypeOK
<1>1. TypeOK /\ StepsOK /\ [Next]_vars => (TypeOK /\ StepsOK)'
  BY TypeNext
<1> QED  BY <1>1, TypeInit, PTL DEF Spec

-----------------------------------------------------------------------------
\* The client's half of LockInv: the steps of new().

LEMMA Counting ==
  ASSUME step \in 1..14
  PROVE  /\ Received(step) \in 0..7
         /\ step \in SendSteps => Received(step + 1) = Received(step)
         /\ step \notin SendSteps /\ step < 14 => Received(step + 1) = Received(step) + 1
         /\ step = 14 => Received(step) = 7
BY SMT DEF Received, SendSteps

LEMMA SentNumber == Sent \in {0, 2, 3, 4, 5, 6, 8}
BY DEF Sent

\* Connecting: the script begins with both sides at its first position.
LEMMA ConnectLock ==
  ASSUME IInv, Connect, UNCHANGED broker
  PROVE  LockInv'
<1>1. pc = "start" /\ Fresh /\ stage = "sasl_header" /\ ~errored /\ Empty
      /\ toClient = <<>> /\ step = 1
  BY DEF IInv, LockInv, StartInv, StepsOK, Connect
<1>2. /\ step' = 1 /\ toClient' = <<>> /\ toBroker' = toBroker /\ ~errored'
      /\ Fresh' /\ stage' = "sasl_header" /\ pc' \in {"new", "failed"}
  BY <1>1 DEF Connect, wire, broker, Fresh
<1>3. Owed' = 0 /\ Sent' = 0
  BY <1>2, EmptySeq, SMT DEF Owed, Received, Sent
<1>4. Lockstep'
  BY <1>1, <1>2, <1>3 DEF Lockstep, Empty
<1>5. \A i \in 1..Len(toClient') : Decodable(toClient'[i])
  BY <1>2, EmptySeq, SMT
<1> QED
  BY <1>2, <1>3, <1>4, <1>5, SMT
     DEF LockInv, StartInv, NewFresh, NewLockstep, NewBound, AfterNew

\* Sending moves the client past a frame that is now under way.
LEMMA TransmitLock ==
  ASSUME IInv, pc = "new", Transmit, UNCHANGED broker
  PROVE  LockInv'
<1>1. /\ WireTypeOK /\ step \in 1..14
  BY NewScript DEF IInv, TypeOK, ClientTypeOK
<1>2. /\ step \in SendSteps /\ ~Script[step].unwrapped /\ Script = New
  BY <1>1, NewSteps DEF Transmit
<1> DEFINE f == Frame(Script[step].kind, IF pc = "call" THEN calls ELSE 0)
<1>3. f.kind = New[step].kind
  BY <1>2 DEF Frame
<1>4. CASE SendErr /\ Abort
  <2>1. pc' = "failed"
    BY <1>2, <1>4 DEF Abort
  <2> QED  BY <2>1 DEF LockInv, StartInv, NewFresh, NewLockstep, NewBound, AfterNew
<1>5. CASE SendOk(f) /\ Advance
  <2>1. /\ step' = step + 1 /\ pc' = "new" /\ calls' = calls
    BY <1>1, <1>2, <1>5, NewScript, SMT DEF Advance, SendSteps
  <2>2. /\ toClient' = toClient /\ errored' = errored
        /\ link' = "up" => link = "up" /\ toBroker' = Append(toBroker, f)
    BY <1>5 DEF SendOk
  <2>3. Owed' = Owed /\ Sent' = Sent
    BY <1>1, <1>2, <2>1, <2>2, Counting DEF Owed, Sent, Answered, broker
  <2>4. NewFresh'
    BY <2>1 DEF IInv, LockInv, NewFresh, Fresh, broker
  <2>5. NewBound'
    BY <2>1, <2>2, <2>3 DEF IInv, LockInv, NewBound
  <2>6. ASSUME link' = "up" PROVE Lockstep'
    <3>1. Lockstep /\ link = "up" /\ toBroker' = Append(toBroker, f)
      BY <2>2, <2>6 DEF IInv, LockInv, NewLockstep
    <3>2. /\ Len(toBroker) \in Nat /\ Len(toBroker') = Len(toBroker) + 1
          /\ toBroker'[Len(toBroker) + 1] = f
          /\ \A i \in 1..Len(toBroker) : toBroker'[i] = toBroker[i]
      <4> HIDE DEF f
      <4> QED  BY <1>1, <3>1, SMT DEF WireTypeOK
    <3>3. /\ step = 1 => f.kind = "sasl_header"
          /\ step = 4 => f.kind = "init"
          /\ step = 7 => f.kind = "amqp_header"
          /\ step = 8 => f.kind = "open"
          /\ step = 10 => f.kind = "begin"
          /\ step = 12 => f.kind = "attach_sender"
      BY <1>3, NewScript DEF Tx
    <3>4. stage' = stage /\ senderLink' = senderLink /\ Answered' = Answered
      BY DEF broker, Answered
    <3> HIDE DEF f
    <3>6. CASE stage = "sasl_header"
      BY <1>2, <2>1, <2>3, <3>1, <3>2, <3>3, <3>4, <3>6, SMT
         DEF Lockstep, Empty, One, SendSteps
    <3>7. CASE stage = "init"
      <4>1. step = 4 /\ Empty /\ Owed = 2 /\ f.kind = "init"
        BY <1>2, <3>1, <3>3, <3>7, SMT DEF Lockstep, SendSteps
      <4>2. step' = 5 /\ One("init")'
        BY <2>1, <3>2, <4>1, SMT DEF Empty, One
      <4> QED  BY <2>3, <3>4, <3>7, <4>1, <4>2 DEF Lockstep
    <3>8. CASE stage = "amqp_header"
      <4>1. /\ Owed = Sent
            /\ \/ step = 7 /\ Empty /\ f.kind = "amqp_header"
               \/ step = 8 /\ One("amqp_header") /\ f.kind = "open"
        BY <1>2, <3>1, <3>3, <3>8, SMT DEF Lockstep, SendSteps
      <4>2. \/ step' = 8 /\ One("amqp_header")'
            \/ step' = 9 /\ Two("amqp_header", "open")'
        BY <2>1, <3>2, <4>1, SMT DEF Empty, One, Two
      <4> QED  BY <2>3, <3>4, <3>8, <4>1, <4>2 DEF Lockstep
    <3>9. CASE stage = "open"
      BY <1>2, <2>1, <2>3, <3>1, <3>2, <3>3, <3>4, <3>9, SMT
         DEF Lockstep, Empty, One, SendSteps
    <3>10. CASE stage = "begin"
      BY <1>2, <2>1, <2>3, <3>1, <3>2, <3>3, <3>4, <3>10, SMT
         DEF Lockstep, Empty, One, SendSteps
    <3>11. CASE stage = "links"
      BY <1>2, <2>1, <2>3, <3>1, <3>2, <3>3, <3>4, <3>11, SMT
         DEF Lockstep, Empty, One, SendSteps
    <3> QED  BY <3>1, <3>6, <3>7, <3>8, <3>9, <3>10, <3>11 DEF Lockstep
  <2>7. NewLockstep'
    BY <2>2, <2>6 DEF IInv, LockInv, NewLockstep
  <2> QED  BY <2>1, <2>4, <2>5, <2>7 DEF LockInv, StartInv, AfterNew
<1> QED  BY <1>4, <1>5 DEF Transmit

\* Receiving takes one frame from those owed to the client.  An error is
\* taken for a frame, but only once, and only when none is left.
LEMMA ReceiveLock ==
  ASSUME IInv, pc = "new", Receive, UNCHANGED broker
  PROVE  LockInv'
<1>1. WireTypeOK /\ step \in 1..14 /\ stage \in Stages
  BY NewScript DEF IInv, TypeOK, ClientTypeOK, BrokerTypeOK
<1>2. step \notin SendSteps /\ ~Script[step].unwrapped /\ Script = New
  BY <1>1, NewSteps DEF Receive
<1>3. CASE PollNone /\ Abort
  <2>1. pc' = "failed"
    BY <1>2, <1>3 DEF Abort
  <2> QED  BY <2>1 DEF LockInv, StartInv, NewFresh, NewLockstep, NewBound, AfterNew
<1>4. CASE (PollFrame \/ PollErr) /\ Advance
  <2>1. /\ step < 14 => step' = step + 1 /\ pc' = "new"
        /\ step = 14 => pc' = "ready"
        /\ calls' = calls
    BY <1>1, <1>2, <1>4, NewScript, SMT DEF Advance
  <2>2. ~errored /\ toBroker' = toBroker
    BY <1>4 DEF PollFrame, PollErr
  <2>3. Owed <= Sent /\ Owed \in Nat /\ Len(toClient) \in Nat
    BY <1>1, <2>2, Counting, SentNumber, SMT DEF IInv, LockInv, NewBound, Owed, WireTypeOK
  <2>4. Fresh /\ stage \notin {"ended", "rejected"} /\ Sent' = Sent /\ Answered' = Answered
    BY DEF IInv, LockInv, NewFresh, Sent, Answered, broker
  <2>5. CASE step = 14
    <3>1. Sent >= 7
      BY <2>3, <2>5, Counting, SentNumber, SMT DEF Owed
    <3>2. stage = "links" /\ Answered
      BY <1>1, <2>4, <3>1, SMT DEF Sent, Stages
    <3> QED  BY <2>1, <2>4, <2>5, <3>2, SMT
             DEF LockInv, StartInv, NewFresh, NewLockstep, NewBound, AfterNew, broker
  <2>6. CASE step < 14
    <3>1. Received(step') = Received(step) + 1 /\ Received(step) \in Nat
      BY <1>1, <1>2, <2>1, <2>6, Counting, SMT
    <3>2. NewFresh'
      BY <2>1, <2>4, <2>6 DEF NewFresh, Fresh, broker
    <3>3. CASE PollFrame
      <4>1. /\ errored' = errored /\ link' = link
            /\ toClient # <<>> /\ toClient' = Tail(toClient)
        BY <3>3 DEF PollFrame
      <4>2. /\ Len(toClient') = Len(toClient) - 1
            /\ \A i \in 1..Len(toClient') : toClient'[i] = toClient[i + 1]
        BY <1>1, <4>1, HeadTailProperties DEF WireTypeOK
      <4>3. Owed' = Owed
        BY <2>3, <3>1, <4>2, SMT DEF Owed
      <4>4. NewBound'
        BY <2>2, <2>3, <2>4, <4>1, <4>3, SentNumber, SMT DEF NewBound
      <4>5. ASSUME link' = "up"
            PROVE  /\ Lockstep'
                   /\ \A i \in 1..Len(toClient') : Decodable(toClient'[i])
        <5>1. Lockstep /\ \A i \in 1..Len(toClient) : Decodable(toClient[i])
          BY <4>1, <4>5 DEF IInv, LockInv, NewLockstep
        <5>2. \A i \in 1..Len(toClient') : Decodable(toClient'[i])
          BY <2>3, <4>2, <5>1, SMT
        <5>3. Owed > Received(step)
          BY <1>1, <2>3, <3>1, <4>1, EmptySeq, SMT DEF Owed, WireTypeOK
        <5>4. stage' = stage /\ senderLink' = senderLink
          BY DEF broker
        <5>5. Lockstep'
          BY <1>1, <1>2, <2>1, <2>2, <2>4, <2>6, <4>3, <5>1, <5>3, <5>4, SMT
             DEF Lockstep, Empty, One, Two, SendSteps, Received, Sent
        <5> QED  BY <5>2, <5>5
      <4>6. NewLockstep'
        BY <2>2, <4>1, <4>5 DEF NewLockstep
      <4> QED  BY <2>1, <2>6, <3>2, <4>4, <4>6 DEF LockInv, StartInv, AfterNew
    <3>4. CASE PollErr
      <4>1. link' # "up"
        <5>1. ASSUME link = "up" PROVE FALSE
          <6>1. toClient # <<>> /\ ~Decodable(Head(toClient))
            BY <3>4, <5>1 DEF PollErr
          <6>2. Head(toClient) = toClient[1] /\ 1 \in 1..Len(toClient)
            BY <1>1, <6>1, SMT DEF WireTypeOK
          <6> QED  BY <5>1, <6>1, <6>2 DEF IInv, LockInv, NewLockstep
        <5> QED  BY <3>4, <5>1 DEF PollErr
      <4>2. Len(toClient') <= Len(toClient) /\ Len(toClient') \in Nat
        <5>1. CASE toClient = <<>> /\ toClient' = <<>>
          BY <2>3, <5>1
        <5>2. CASE toClient # <<>> /\ toClient' = Tail(toClient)
          BY <1>1, <2>3, <5>2, HeadTailProperties, SMT DEF WireTypeOK
        <5> QED  BY <3>4, <5>1, <5>2 DEF PollErr
      <4>3. Owed' <= Owed + 1
        BY <2>3, <3>1, <4>2, SMT DEF Owed
      <4>4. errored' = TRUE
        BY <3>4 DEF PollErr
      <4>5. NewBound'
        BY <2>3, <2>4, <3>1, <4>2, <4>3, <4>4, SentNumber, SMT DEF NewBound, Owed
      <4> QED  BY <2>1, <2>6, <3>2, <4>1, <4>5
               DEF LockInv, StartInv, NewLockstep, AfterNew
    <3> QED  BY <1>4, <3>3, <3>4
  <2> QED  BY <1>1, <2>5, <2>6, SMT
<1> QED  BY <1>3, <1>4 DEF Receive

\* After new() the client only comes and goes between ready and call.
LEMMA CallLock ==
  ASSUME IInv, pc \in {"ready", "call"}, UNCHANGED broker,
         Transmit \/ Receive \/ TakeReply \/ Cancel \/ StartCall
  PROVE  LockInv'
<1>1. pc' \in {"ready", "call", "panicked"}
  <2>1. CASE Transmit
    BY <2>1 DEF Transmit, Advance, Abort, Return, Running
  <2>2. CASE Receive
    BY <2>2 DEF Receive, Advance, Abort, Return, Running
  <2> QED  BY <2>1, <2>2 DEF TakeReply, Return, Cancel, StartCall
<1>2. stage' = stage /\ Answered' = Answered
  BY DEF broker, Answered
<1> QED
  BY <1>1, <1>2
     DEF IInv, LockInv, StartInv, NewFresh, NewLockstep, NewBound, AfterNew

LEMMA ClientLock ==
  ASSUME IInv, UNCHANGED broker,
         Connect \/ Transmit \/ Receive \/ TakeReply \/ Cancel \/ StartCall
  PROVE  LockInv'
<1>1. pc = "new" => ~TakeReply
  BY NewSteps, NewScript DEF IInv, TypeOK, ClientTypeOK, TakeReply
<1>2. pc \in {"ready", "call"} \/ pc = "new" \/ Connect
  BY DEF Transmit, Receive, TakeReply, Cancel, StartCall, Running
<1>3. pc = "new" => ~Cancel /\ ~StartCall
  BY DEF Cancel, StartCall
<1>4. pc # "start" => ~Connect
  BY DEF Connect
<1> QED
  BY <1>1, <1>2, <1>3, <1>4, ConnectLock, TransmitLock, ReceiveLock, CallLock

-----------------------------------------------------------------------------
\* The broker's half of LockInv.

\* Reading takes the first frame under way.
LEMMA Reading ==
  ASSUME WireTypeOK, toBroker # <<>>
  PROVE  /\ Len(toBroker) \in Nat /\ Len(toBroker) > 0
         /\ Head(toBroker) = toBroker[1]
         /\ Len(Tail(toBroker)) = Len(toBroker) - 1
         /\ \A i \in 1..Len(toBroker) - 1 : Tail(toBroker)[i] = toBroker[i + 1]
BY SMT DEF WireTypeOK

\* While the client is in new(), the connection up and the broker not done
\* with the handshake, there is nothing to do but to read the next frame.
LEMMA HandshakeOnly ==
  ASSUME IInv, pc = "new", BrokerNext
  PROVE  /\ link = "up" /\ Lockstep
         /\ \/ OnSaslHeader \/ OnInit \/ OnInitRefuse \/ OnAmqpHeader \/ OnOpen
            \/ OnBegin \/ OnAttachSender \/ Disconnect
<1>1. Fresh /\ stage \notin {"ended", "rejected"} /\ WireTypeOK
  BY DEF IInv, LockInv, NewFresh, TypeOK
<1>2. ~Replenish
  BY <1>1, BrokerAssumption, SMT DEF Replenish, Fresh, IInv, TypeOK, BrokerTypeOK
<1>3. ~BrokerWorks
  BY <1>1, <1>2 DEF BrokerWorks, Settle, Execute, Deliver, Fresh
<1>4. link = "up"
  BY <1>3 DEF BrokerNext, BrokerReads, Disconnect, Reads, OnSaslHeader, OnInit,
     OnInitRefuse, OnAmqpHeader, OnOpen, OnBegin, OnAttachSender, OnAttachReceiver,
     OnFlow, OnTransfer, Discard, Reject
<1>5. Lockstep
  BY <1>4 DEF IInv, LockInv, NewLockstep
<1>6. \A k : Reads(k) => ~Empty /\ toBroker[1].kind = k
  BY <1>1, Reading, SMT DEF Reads, Empty
<1>7. toBroker # <<>> =>
        \/ stage \notin {"links", "ended"} /\ Reads(stage)
        \/ stage = "links" /\ ~senderLink /\ Reads("attach_sender")
  BY <1>1, <1>4, <1>5, Reading DEF Lockstep, Empty, One, Two, Reads
<1>8. ~Reject
  BY <1>7 DEF Reject, Legal
<1>9. ~OnAttachReceiver /\ ~OnFlow /\ ~OnTransfer
  BY <1>5, <1>6 DEF OnAttachReceiver, OnFlow, OnTransfer, Lockstep, One
<1>10. ~Discard
  BY <1>1 DEF Discard
<1> QED  BY <1>3, <1>4, <1>5, <1>8, <1>9, <1>10 DEF BrokerNext, BrokerReads

\* Answering the next frame: what Sends does to the count and to the frames.
LEMMA Answering ==
  ASSUME IInv, pc = "new", link = "up", Lockstep, toBroker # <<>>, UNCHANGED client,
         NEW fs \in Seq(ToClientFrames), \A i \in 1..Len(fs) : Decodable(fs[i]),
         Sends(fs)
  PROVE  /\ pc' = "new" /\ step' = step /\ calls' = calls /\ link' = "up" /\ ~errored'
         /\ Owed' = Owed + Len(fs)
         /\ Len(toBroker) \in Nat /\ Len(toBroker) > 0
         /\ Head(toBroker) = toBroker[1]
         /\ Len(toBroker') = Len(toBroker) - 1
         /\ \A i \in 1..Len(toBroker) - 1 : toBroker'[i] = toBroker[i + 1]
         /\ \A i \in 1..Len(toClient') : Decodable(toClient'[i])
<1>1. WireTypeOK /\ step \in 1..14
  BY NewScript DEF IInv, TypeOK, ClientTypeOK
<1>2. ~errored /\ \A i \in 1..Len(toClient) : Decodable(toClient[i])
  BY DEF IInv, LockInv, NewLockstep
<1>3. pc' = "new" /\ step' = step /\ calls' = calls /\ link' = "up" /\ ~errored'
  BY <1>2 DEF client, Sends
<1>4. toBroker' = Tail(toBroker) /\ toClient' = toClient \o fs
  BY DEF Sends
<1>5. /\ Len(toClient') = Len(toClient) + Len(fs)
      /\ \A i \in 1 .. Len(toClient) + Len(fs) :
           toClient'[i] = IF i <= Len(toClient) THEN toClient[i]
                                                ELSE fs[i - Len(toClient)]
  BY <1>1, <1>4, ConcatProperties DEF WireTypeOK
<1>6. Len(toClient) \in Nat /\ Len(fs) \in Nat
  BY <1>1, LenProperties DEF WireTypeOK
<1>7. Owed' = Owed + Len(fs)
  <2>1. Owed' = Received(step) + Len(toClient')
    BY <1>3 DEF Owed
  <2>2. Received(step) \in Nat
    BY <1>1, Counting
  <2> QED  BY <1>5, <1>6, <2>1, <2>2, SMT DEF Owed
<1>8. \A i \in 1..Len(toClient') : Decodable(toClient'[i])
  <2> SUFFICES ASSUME NEW i \in 1..Len(toClient') PROVE Decodable(toClient'[i])
    OBVIOUS
  <2>1. i \in 1 .. Len(toClient) + Len(fs)
    BY <1>5
  <2>2. CASE i <= Len(toClient)
    <3>1. i \in 1..Len(toClient)
      BY <1>6, <2>1, <2>2, SMT
    <3> QED  BY <1>2, <1>5, <2>1, <2>2, <3>1
  <2>3. CASE ~(i <= Len(toClient))
    <3>1. i - Len(toClient) \in 1..Len(fs)
      BY <1>6, <2>1, <2>3, SMT
    <3> QED  BY <1>5, <2>1, <2>3, <3>1
  <2> QED  BY <2>2, <2>3
<1> QED  BY <1>1, <1>3, <1>4, <1>7, <1>8, Reading

\* The frames of the handshake are of kinds the client can decode.
LEMMA DecodableFrames ==
  \A k \in ControlKinds \ {"end"} :
    /\ <<Frame(k, 0)>> \in Seq(ToClientFrames) /\ Len(<<Frame(k, 0)>>) = 1
    /\ \A i \in 1..1 : Decodable(<<Frame(k, 0)>>[i])
    /\ \A l \in ControlKinds \ {"end"} :
         /\ <<Frame(k, 0), Frame(l, 0)>> \in Seq(ToClientFrames)
         /\ Len(<<Frame(k, 0), Frame(l, 0)>>) = 2
         /\ \A i \in 1..2 : Decodable(<<Frame(k, 0), Frame(l, 0)>>[i])
<1>1. \A k \in ControlKinds \ {"end"} : Decodable(Frame(k, 0))
  BY DEF Decodable, Frame
<1>2. \A x, y : /\ Len(<<x>>) = 1 /\ <<x>>[1] = x
                /\ Len(<<x, y>>) = 2 /\ <<x, y>>[1] = x /\ <<x, y>>[2] = y
  OBVIOUS
<1>3. 1..1 = {1} /\ 1..2 = {1, 2}
  BY SMT
<1> TAKE k \in ControlKinds \ {"end"}
<1>4. \A i \in 1..1 : Decodable(<<Frame(k, 0)>>[i])
  BY <1>1, <1>2, <1>3
<1>5. ASSUME NEW l \in ControlKinds \ {"end"}
      PROVE  \A i \in 1..2 : Decodable(<<Frame(k, 0), Frame(l, 0)>>[i])
  BY <1>1, <1>2, <1>3
<1>6. ASSUME NEW l \in ControlKinds
      PROVE  /\ <<Frame(k, 0), Frame(l, 0)>> \in Seq(ToClientFrames)
             /\ Len(<<Frame(k, 0), Frame(l, 0)>>) = 2
  BY <1>2, ControlFrames
<1>7. <<Frame(k, 0)>> \in Seq(ToClientFrames) /\ Len(<<Frame(k, 0)>>) = 1
  BY <1>2, ControlFrames
<1> QED  BY <1>4, <1>5, <1>6, <1>7

\* In lockstep the bound holds by itself, so LockInv needs only that much.
LEMMA StillNew ==
  ASSUME pc' = "new", link' = "up", ~errored', Fresh',
         stage' \notin {"ended", "rejected"}, Lockstep',
         \A i \in 1..Len(toClient') : Decodable(toClient'[i])
  PROVE  LockInv'
<1>1. Owed' <= Sent'
  BY SMT DEF Lockstep, Sent
<1>2. NewBound'
  BY <1>1, SentNumber, SMT DEF NewBound, Lockstep, Sent
<1> QED  BY <1>2 DEF LockInv, StartInv, NewFresh, NewLockstep, AfterNew

\* The broker answers the handshake: every step keeps client and broker in
\* lockstep, or the connection is lost with the frames counted so far.
LEMMA AnswerLock ==
  ASSUME IInv, pc = "new", UNCHANGED client,
         OnSaslHeader \/ OnInit \/ OnAmqpHeader \/ OnOpen \/ OnBegin \/ OnAttachSender
  PROVE  LockInv'
<1>1. /\ Fresh /\ link = "up" /\ Lockstep
  BY HandshakeOnly DEF IInv, LockInv, NewFresh, NewLockstep, OnSaslHeader, OnInit,
     OnAmqpHeader, OnOpen, OnBegin, OnAttachSender, Reads
<1>2. Owed \in Int /\ step \in 1..14
  <2>1. WireTypeOK /\ step \in 1..14
    BY NewScript DEF IInv, TypeOK, ClientTypeOK
  <2>2. Len(toClient) \in Nat
    BY <2>1 DEF WireTypeOK
  <2> QED  BY <2>1, <2>2, Counting, SMT DEF Owed
<1> DEFINE Goes(n) ==
      /\ pc' = "new" /\ step' = step /\ calls' = calls /\ link' = "up" /\ ~errored'
      /\ Owed' = Owed + n
      /\ Len(toBroker) \in Nat /\ Len(toBroker) > 0
      /\ Head(toBroker) = toBroker[1]
      /\ Len(toBroker') = Len(toBroker) - 1
      /\ \A i \in 1..Len(toBroker) - 1 : toBroker'[i] = toBroker[i + 1]
      /\ \A i \in 1..Len(toClient') : Decodable(toClient'[i])
<1>3. ASSUME NEW fs \in Seq(ToClientFrames), \A i \in 1..Len(fs) : Decodable(fs[i]),
             toBroker # <<>>, Sends(fs)
      PROVE  Goes(Len(fs))
  BY <1>1, <1>3, Answering
<1>4. ASSUME NEW k \in ControlKinds \ {"end"}, toBroker # <<>>, Sends(<<Frame(k, 0)>>)
      PROVE  Goes(1)
  BY <1>3, <1>4, DecodableFrames
<1>5. ASSUME NEW k \in ControlKinds \ {"end"}, NEW l \in ControlKinds \ {"end"},
             toBroker # <<>>, Sends(<<Frame(k, 0), Frame(l, 0)>>)
      PROVE  Goes(2)
  BY <1>3, <1>5, DecodableFrames
<1>6. ASSUME toBroker # <<>>, Sends(<<>>)
      PROVE  Goes(0)
  <2>1. <<>> \in Seq(ToClientFrames) /\ Len(<<>>) = 0
    BY EmptySeq
  <2>2. \A i \in 1..0 : Decodable(<<>>[i])
    BY SMT
  <2> QED  BY <1>3, <1>6, <2>1, <2>2
<1>7. ASSUME UNCHANGED <<links, work>>, NEW n, Goes(n), stage' # "links" => ~senderLink
      PROVE  Fresh'
  BY <1>1, <1>7 DEF Fresh, links, work
<1>8. ~senderLink \/ stage = "links"
  BY <1>1 DEF Fresh
<1>9. CASE OnSaslHeader
  <2>1. Goes(2)
    BY <1>5, <1>9 DEF OnSaslHeader, Reads, ControlKinds
  <2>2. stage = "sasl_header" /\ stage' = "init" /\ UNCHANGED <<links, work>>
    BY <1>9 DEF OnSaslHeader
  <2>3. Fresh'
    BY <1>7, <1>8, <2>1, <2>2
  <2>4. Lockstep'
    BY <1>1, <1>2, <2>1, <2>2, SMT DEF Lockstep, Empty, One
  <2> QED  BY <2>1, <2>2, <2>3, <2>4, StillNew
<1>10. CASE OnInit
  <2>1. /\ EagerHeader => Goes(2)
        /\ ~EagerHeader => Goes(1)
    BY <1>4, <1>5, <1>10 DEF OnInit, Reads, ControlKinds
  <2>2. stage = "init" /\ stage' = "amqp_header" /\ UNCHANGED <<links, work>>
    BY <1>10 DEF OnInit
  <2>3. Fresh'
    BY <1>7, <1>8, <2>1, <2>2, BrokerAssumption
  <2>4. Owed' = Sent'
    BY <1>1, <1>2, <2>1, <2>2, BrokerAssumption, SMT DEF Lockstep, Sent
  <2>5. Lockstep'
    BY <1>1, <1>2, <2>1, <2>2, <2>4, SMT DEF Lockstep, Empty, One
  <2> QED  BY <2>1, <2>2, <2>3, <2>5, StillNew
<1>11. CASE OnAmqpHeader
  <2>1. /\ EagerHeader => Goes(0)
        /\ ~EagerHeader => Goes(1)
    BY <1>4, <1>6, <1>11 DEF OnAmqpHeader, Reads, ControlKinds
  <2>2. /\ stage = "amqp_header" /\ stage' = "open" /\ UNCHANGED <<links, work>>
        /\ toBroker[1].kind = "amqp_header" /\ Len(toBroker) > 0
    BY <1>11, <2>1 DEF OnAmqpHeader, Reads
  <2>3. Fresh'
    BY <1>7, <1>8, <2>1, <2>2
  <2>4. Owed' = 4
    BY <1>1, <1>2, <2>1, <2>2, BrokerAssumption, SMT DEF Lockstep, Sent
  <2>5. \E n \in {0, 1} : Goes(n)
    BY <2>1
  <2>6. (step = 8 /\ One("amqp_header")) \/ (step = 9 /\ Two("amqp_header", "open"))
    BY <1>1, <2>2, SMT DEF Lockstep, Empty
  <2>7. (step' = 8 /\ Empty') \/ (step' = 9 /\ One("open")')
    BY <2>5, <2>6, SMT DEF Empty, One, Two
  <2>8. Lockstep'
    BY <2>2, <2>4, <2>7 DEF Lockstep
  <2> QED  BY <2>1, <2>2, <2>3, <2>8, StillNew
<1>12. CASE OnOpen
  <2>1. Goes(1)
    BY <1>4, <1>12 DEF OnOpen, Reads, ControlKinds
  <2>2. stage = "open" /\ stage' = "begin" /\ UNCHANGED <<links, work>>
    BY <1>12 DEF OnOpen
  <2>3. Fresh'
    BY <1>7, <1>8, <2>1, <2>2
  <2>4. Lockstep'
    BY <1>1, <1>2, <2>1, <2>2, SMT DEF Lockstep, Empty, One
  <2> QED  BY <2>1, <2>2, <2>3, <2>4, StillNew
<1>13. CASE OnBegin
  <2>1. Goes(1)
    BY <1>4, <1>13 DEF OnBegin, Reads, ControlKinds
  <2>2. /\ stage = "begin" /\ stage' = "links" /\ UNCHANGED <<links, work>>
        /\ ~senderLink
    BY <1>8, <1>13 DEF OnBegin
  <2>3. Fresh'
    BY <1>7, <2>1, <2>2
  <2>4. Lockstep'
    BY <1>1, <1>2, <2>1, <2>2, SMT DEF Lockstep, Empty, One, links
  <2> QED  BY <2>1, <2>2, <2>3, <2>4, StillNew
<1>14. CASE OnAttachSender
  <2>1. Goes(2)
    BY <1>5, <1>14 DEF OnAttachSender, Reads, ControlKinds
  <2>2. /\ stage = "links" /\ stage' = "links"
        /\ \/ senderLink' = TRUE /\ senderCredit' = Credit
           \/ "refuse_link" \in Faults /\ UNCHANGED <<senderLink, senderCredit>>
        /\ queue' = queue /\ UNCHANGED work
    BY <1>14 DEF OnAttachSender
  <2>3. Fresh'
    BY <1>1, <2>1, <2>2, BrokerAssumption DEF Fresh, work
  <2>4. Answered'
    BY <2>2 DEF Answered
  <2>5. Lockstep'
    BY <1>1, <1>2, <2>1, <2>2, <2>4, SMT DEF Lockstep, Empty, One
  <2> QED  BY <2>1, <2>2, <2>3, <2>5, StillNew
<1> QED  BY <1>9, <1>10, <1>11, <1>12, <1>13, <1>14

\* A loss of the connection, or a refused login that ends it, leaves no more
\* frames than were under way.
LEMMA LossLock ==
  ASSUME IInv, pc = "new", UNCHANGED client, OnInitRefuse \/ Disconnect
  PROVE  LockInv'
<1>1. /\ Fresh /\ link = "up" /\ ~errored /\ Lockstep /\ WireTypeOK
      /\ stage \notin {"ended", "rejected"} /\ Owed <= Sent
  <2>1. link = "up" /\ Lockstep
    BY HandshakeOnly DEF BrokerNext, BrokerReads
  <2>2. Fresh /\ ~errored /\ WireTypeOK /\ stage \notin {"ended", "rejected"}
    BY <2>1 DEF IInv, LockInv, NewFresh, NewLockstep, TypeOK
  <2>3. Owed <= Sent
    BY <2>1, SMT DEF Lockstep, Sent
  <2> QED  BY <2>1, <2>2, <2>3
<1>2. /\ Len(toClient) \in Nat /\ step \in 1..14 /\ Received(step) \in Nat
      /\ Received(step') = Received(step)
  <2>1. Len(toClient) \in Nat /\ step \in 1..14 /\ step' = step
    BY <1>1, LenProperties, NewScript DEF WireTypeOK, IInv, TypeOK, ClientTypeOK, client
  <2> QED  BY <2>1, Counting DEF Received
<1>3. pc' = "new" /\ calls' = calls /\ errored' = errored
  BY DEF client, OnInitRefuse, Disconnect
<1>4. CASE OnInitRefuse
  <2>1. /\ stage = "init" /\ stage' = "refused" /\ link' # "up"
        /\ toClient' = Append(toClient, Frame("outcome", 0))
        /\ UNCHANGED <<links, work>>
    BY <1>4 DEF OnInitRefuse
  <2>2. Len(toClient') = Len(toClient) + 1
    BY <1>1, <2>1, SMT DEF WireTypeOK
  <2>3. Owed = 2
    BY <1>1, <2>1 DEF Lockstep
  <2>4. Owed' = 3 /\ Sent' = 3
    BY <1>2, <2>1, <2>2, <2>3, SMT DEF Owed, Sent
  <2>5. Fresh'
    BY <1>1, <1>3, <2>1 DEF Fresh, links, work
  <2>6. NewBound'
    BY <1>1, <1>3, <2>4, SMT DEF NewBound
  <2> QED  BY <1>3, <2>1, <2>5, <2>6
           DEF LockInv, StartInv, NewFresh, NewLockstep, AfterNew
<1>5. CASE Disconnect
  <2>1. link' # "up" /\ UNCHANGED broker
    BY <1>5 DEF Disconnect
  <2>2. Len(toClient') <= Len(toClient) /\ Len(toClient') \in Nat
    BY <1>1, <1>5, SMT DEF Disconnect, WireTypeOK
  <2>3. Owed' <= Owed /\ Owed \in Nat /\ Owed' \in Nat
    BY <1>2, <2>2, SMT DEF Owed
  <2>4. Sent' = Sent
    BY <2>1 DEF Sent, Answered, broker
  <2>5. Fresh' /\ stage' = stage
    BY <1>1, <1>3, <2>1 DEF Fresh, broker
  <2>6. NewBound'
    BY <1>1, <1>3, <2>3, <2>4, SentNumber, SMT DEF NewBound
  <2> QED  BY <1>1, <1>3, <2>1, <2>5, <2>6
           DEF LockInv, StartInv, NewFresh, NewLockstep, AfterNew
<1> QED  BY <1>4, <1>5

\* Before the client's first frame the broker can only lose the connection.
LEMMA StartLock ==
  ASSUME IInv, pc = "start", UNCHANGED client, BrokerNext
  PROVE  LockInv'
<1>1. /\ Fresh /\ stage = "sasl_header" /\ ~errored /\ Empty /\ toClient = <<>>
      /\ WireTypeOK
  BY DEF IInv, LockInv, StartInv, TypeOK
<1>2. toBroker = <<>>
  BY <1>1, EmptySeq DEF Empty, WireTypeOK
<1>3. Disconnect
  BY <1>1, <1>2 DEF BrokerNext, BrokerReads, BrokerWorks, Settle, Execute, Deliver,
     Replenish, Push, Fresh, OnSaslHeader, OnInit, OnInitRefuse, OnAmqpHeader, OnOpen,
     OnBegin, OnAttachSender, OnAttachReceiver, OnFlow, OnTransfer, Discard, Reject, Reads
<1>4. /\ toBroker' = <<>> /\ errored' = errored /\ UNCHANGED broker /\ pc' = "start"
      /\ calls' = calls
  BY <1>3 DEF Disconnect, client
<1>5. toClient' = <<>>
  BY <1>1, <1>3, SMT DEF Disconnect
<1>6. Empty' /\ Fresh'
  BY <1>1, <1>4, EmptySeq DEF Empty, Fresh, broker
<1> QED
  BY <1>1, <1>4, <1>5, <1>6
     DEF LockInv, StartInv, NewFresh, NewLockstep, NewBound, AfterNew, broker

\* Once the links are up the broker never goes back to an earlier stage, nor
\* takes the sender link away.
LEMMA LaterLock ==
  ASSUME IInv, pc \notin {"start", "new"}, UNCHANGED client, BrokerNext
  PROVE  LockInv'
<1>1. ASSUME stage \in {"links", "ended", "rejected"}, Answered
      PROVE  stage' \in {"links", "ended", "rejected"} /\ Answered'
  BY <1>1 DEF Answered, BrokerNext, BrokerReads, BrokerWorks, Settle, Execute, Deliver,
     Replenish, Disconnect, OnSaslHeader, OnInit, OnInitRefuse, OnAmqpHeader, OnOpen,
     OnBegin, OnAttachSender, OnAttachReceiver, OnFlow, OnTransfer, Discard, Reject,
     links, broker
<1>2. pc' = pc
  BY DEF client
<1> QED
  BY <1>1, <1>2
     DEF IInv, LockInv, StartInv, NewFresh, NewLockstep, NewBound, AfterNew

LEMMA BrokerLock ==
  ASSUME IInv, UNCHANGED client, BrokerNext
  PROVE  LockInv'
BY HandshakeOnly, AnswerLock, LossLock, StartLock, LaterLock

-----------------------------------------------------------------------------
LEMMA LockInit == Init => LockInv
<1> SUFFICES ASSUME Init PROVE LockInv
  OBVIOUS
<1>1. Empty /\ toClient = <<>> /\ ~errored
  BY EmptySeq DEF Init, WireInit, Empty
<1>2. pc = "start" /\ stage = "sasl_header" /\ Fresh
  BY DEF Init, ClientInit, BrokerInit, Fresh
<1> QED  BY <1>1, <1>2 DEF LockInv, StartInv, NewFresh, NewLockstep, NewBound, AfterNew

LEMMA Inductive ==
  ASSUME IInv, [Next]_vars
  PROVE  IInv'
<1>1. TypeOK' /\ StepsOK'
  BY TypeNext DEF IInv
<1>2. CASE UNCHANGED vars
  <2>1. LockInv'
    BY <1>2 DEF IInv, LockInv, StartInv, NewFresh, NewLockstep, NewBound, AfterNew, Fresh,
       Lockstep, Owed, Sent, Answered, Empty, One, Two, vars, wire, client, broker
  <2> QED  BY <1>1, <2>1 DEF IInv
<1>3. CASE Next
  <2>1. ASSUME Connect \/ Transmit \/ Receive \/ TakeReply \/ Cancel,
               UNCHANGED <<broker, quiet>>
        PROVE  IInv'
    <3>1. LockInv'
      BY <2>1, ClientLock
    <3> QED  BY <1>1, <3>1 DEF IInv
  <2>2. ASSUME StartCall, UNCHANGED broker PROVE IInv'
    <3>1. LockInv'
      BY <2>2, ClientLock
    <3> QED  BY <1>1, <3>1 DEF IInv
  <2>3. ASSUME BrokerNext, UNCHANGED <<client, quiet>> PROVE IInv'
    <3>1. LockInv'
      BY <2>3, BrokerLock
    <3> QED  BY <1>1, <3>1 DEF IInv
  <2> QED  BY <1>2, <1>3, <2>1, <2>2, <2>3 DEF Next, Stopped
<1> QED  BY <1>2, <1>3

LEMMA Invariant == Spec => []IInv
<1>1. Init => IInv
  BY TypeInit, LockInit DEF IInv
<1>2. IInv /\ [Next]_vars => IInv'
  BY Inductive
<1> QED  BY <1>1, <1>2, PTL DEF Spec

\* A client that new() returned has a session, though it looked at none of
\* the answers: whatever the broker refuses, whenever the connection is lost.
THEOREM SessionReady == Spec => []ReadyMeansSession
<1>1. IInv => ReadyMeansSession
  BY DEF IInv, LockInv, AfterNew, ReadyMeansSession
<1> QED  BY <1>1, Invariant, PTL

\* With a broker that does not refuse the link, it has its sender link too.
THEOREM LinkReady ==
  ASSUME "refuse_link" \notin Faults
  PROVE  Spec => []ReadyMeansAttached
<1>1. IInv => ReadyMeansAttached
  BY DEF IInv, LockInv, AfterNew, Answered, ReadyMeansAttached
<1> QED  BY <1>1, Invariant, PTL

-----------------------------------------------------------------------------
\* Frames that were under way before the step.
Old(i) == i \in 1..Len(toClient) /\ toClient'[i] = toClient[i]

-----------------------------------------------------------------------------
\* What a step of the broker adds to the frames under way to the client.

LEMMA Appended ==
  ASSUME WireTypeOK, NEW f \in ToClientFrames, toClient' = Append(toClient, f)
  PROVE  /\ Len(toClient') = Len(toClient) + 1
         /\ \A i \in 1..Len(toClient') : Old(i) \/ (i = Len(toClient) + 1 /\ toClient'[i] = f)
BY SMT DEF WireTypeOK, Old

LEMMA Concatenated ==
  ASSUME WireTypeOK, NEW fs \in Seq(ToClientFrames), toClient' = toClient \o fs
  PROVE  \A i \in 1..Len(toClient') : Old(i) \/ \E j \in 1..Len(fs) : toClient'[i] = fs[j]
<1>1. /\ Len(toClient') = Len(toClient) + Len(fs)
      /\ \A i \in 1 .. Len(toClient) + Len(fs) :
           toClient'[i] = IF i <= Len(toClient) THEN toClient[i]
                                                ELSE fs[i - Len(toClient)]
  BY ConcatProperties DEF WireTypeOK
<1>2. Len(toClient) \in Nat /\ Len(fs) \in Nat
  BY LenProperties DEF WireTypeOK
<1> SUFFICES ASSUME NEW i \in 1..Len(toClient')
             PROVE  Old(i) \/ \E j \in 1..Len(fs) : toClient'[i] = fs[j]
  OBVIOUS
<1>3. i \in 1 .. Len(toClient) + Len(fs)
  BY <1>1
<1>4. CASE i <= Len(toClient)
  <2>1. i \in 1..Len(toClient)
    BY <1>2, <1>3, <1>4, SMT
  <2> QED  BY <1>1, <1>3, <1>4, <2>1 DEF Old
<1>5. CASE ~(i <= Len(toClient))
  <2>1. i - Len(toClient) \in 1..Len(fs)
    BY <1>2, <1>3, <1>5, SMT
  <2> QED  BY <1>1, <1>3, <1>5, <2>1
<1> QED  BY <1>4, <1>5

LEMMA Answered1 ==
  ASSUME WireTypeOK, NEW k \in ControlKinds, Sends(<<Frame(k, 0)>>)
  PROVE  \A i \in 1..Len(toClient') : Old(i) \/ toClient'[i].kind = k
<1> DEFINE fs == <<Frame(k, 0)>>
<1>1. fs \in Seq(ToClientFrames) /\ Len(fs) = 1 /\ fs[1].kind = k
  BY ControlFrames DEF Frame
<1>2. toClient' = toClient \o fs
  BY DEF Sends
<1> HIDE DEF fs
<1>3. \A j \in 1..Len(fs) : fs[j].kind = k
  BY <1>1, SMT
<1> QED  BY <1>1, <1>2, <1>3, Concatenated

LEMMA Answered2 ==
  ASSUME WireTypeOK, NEW k \in ControlKinds, NEW l \in ControlKinds,
         Sends(<<Frame(k, 0), Frame(l, 0)>>)
  PROVE  \A i \in 1..Len(toClient') : Old(i) \/ toClient'[i].kind \in {k, l}
<1> DEFINE fs == <<Frame(k, 0), Frame(l, 0)>>
<1>1. fs \in Seq(ToClientFrames) /\ Len(fs) = 2 /\ fs[1].kind = k /\ fs[2].kind = l
  BY ControlFrames DEF Frame
<1>2. toClient' = toClient \o fs
  BY DEF Sends
<1> HIDE DEF fs
<1>3. \A j \in 1..Len(fs) : fs[j].kind \in {k, l}
  BY <1>1, SMT
<1> QED  BY <1>1, <1>2, <1>3, Concatenated

LEMMA Answered0 ==
  ASSUME WireTypeOK, Sends(<<>>)
  PROVE  \A i \in 1..Len(toClient') : Old(i)
<1>1. <<>> \in Seq(ToClientFrames) /\ Len(<<>>) = 0
  BY EmptySeq
<1>2. toClient' = toClient \o <<>>
  BY DEF Sends
<1>3. \A j : ~(j \in 1..0)
  BY SMT
<1> QED  BY <1>1, <1>2, <1>3, Concatenated

\* Only Deliver sends a reply, and only the end of the session an end.
BrokerFrame(i) ==
  \/ Old(i)
  \/ toClient'[i].kind \notin {"transfer", "end"}
  \/ toClient'[i].kind = "end" /\ stage' = "ended"
  \/ \E c \in Calls : /\ Deliver(c) /\ i = Len(toClient) + 1
                      /\ toClient'[i] = Frame("transfer", c)

LEMMA BrokerFrames ==
  ASSUME WireTypeOK, BrokerNext
  PROVE  \A i \in 1..Len(toClient') : BrokerFrame(i)
<1> DEFINE Plain == \A i \in 1..Len(toClient') :
                      Old(i) \/ toClient'[i].kind \notin {"transfer", "end"}
<1>p. Plain => \A i \in 1..Len(toClient') : BrokerFrame(i)
  BY DEF BrokerFrame
<1> DEFINE K(k) == k \in ControlKinds /\ k \notin {"transfer", "end"}
<1>k. /\ K("sasl_header") /\ K("mechanisms") /\ K("outcome") /\ K("amqp_header")
      /\ K("open") /\ K("begin") /\ K("attach") /\ K("flow") /\ K("detach")
      /\ K("close") /\ "end" \in ControlKinds
  BY DEF ControlKinds
<1>1. ASSUME NEW k, K(k), Sends(<<Frame(k, 0)>>) PROVE Plain
  BY <1>1, Answered1
<1>2. ASSUME NEW k, NEW l, K(k), K(l), Sends(<<Frame(k, 0), Frame(l, 0)>>) PROVE Plain
  <2>1. \A i \in 1..Len(toClient') : Old(i) \/ toClient'[i].kind \in {k, l}
    BY <1>2, Answered2
  <2> QED  BY <1>2, <2>1
<1>3. ASSUME Sends(<<>>) PROVE Plain
  BY <1>3, Answered0
<1>4. ASSUME NEW f \in ToClientFrames, f.kind \notin {"transfer", "end"},
             toClient' = Append(toClient, f)
      PROVE  Plain
  BY <1>4, Appended
<1>5. ASSUME NEW k, K(k), toClient' = Append(toClient, Frame(k, 0)) PROVE Plain
  <2>1. Frame(k, 0) \in ToClientFrames /\ Frame(k, 0).kind = k
    BY <1>5, ControlFrames DEF Frame
  <2> QED  BY <1>4, <1>5, <2>1
<1>6. ASSUME OnSaslHeader \/ OnInit \/ OnInitRefuse \/ OnAmqpHeader \/ OnOpen \/ OnBegin
             \/ OnAttachSender \/ OnFlow \/ OnTransfer \/ Discard \/ Reject
      PROVE  Plain
  <2> HIDE DEF Plain, K
  <2>1. CASE OnSaslHeader    BY <1>k, <1>2, <2>1 DEF OnSaslHeader
  <2>2. CASE OnInit          BY <1>k, <1>1, <1>2, <2>2 DEF OnInit
  <2>3. CASE OnInitRefuse    BY <1>k, <1>5, <2>3 DEF OnInitRefuse
  <2>4. CASE OnAmqpHeader    BY <1>k, <1>1, <1>3, <2>4 DEF OnAmqpHeader
  <2>5. CASE OnOpen          BY <1>k, <1>1, <2>5 DEF OnOpen
  <2>6. CASE OnBegin         BY <1>k, <1>1, <2>6 DEF OnBegin
  <2>7. CASE OnAttachSender  BY <1>k, <1>2, <2>7 DEF OnAttachSender
  <2>8. CASE OnFlow          BY <1>3, <2>8 DEF OnFlow
  <2>9. CASE OnTransfer      BY <1>3, <2>9 DEF OnTransfer
  <2>10. CASE Discard        BY <1>3, <2>10 DEF Discard
  <2>11. CASE Reject         BY <1>k, <1>5, <2>11 DEF Reject
  <2> QED  BY <1>6, <2>1, <2>2, <2>3, <2>4, <2>5, <2>6, <2>7, <2>8, <2>9, <2>10, <2>11
<1>7. ASSUME OnAttachReceiver PROVE \A i \in 1..Len(toClient') : BrokerFrame(i)
  <2>1. CASE Sends(<<Frame("attach", 0)>>) \/ Sends(<<>>)
    <3> HIDE DEF Plain, K
    <3> QED  BY <1>p, <1>k, <1>1, <1>3, <2>1
  <2>2. CASE Sends(<<Frame("end", 0)>>) /\ stage' = "ended"
    <3>1. \A i \in 1..Len(toClient') : Old(i) \/ toClient'[i].kind = "end"
      BY <1>k, <2>2, Answered1
    <3> QED  BY <2>2, <3>1 DEF BrokerFrame
  <2> QED  BY <1>7, <2>1, <2>2 DEF OnAttachReceiver
<1>8. ASSUME NEW c \in Calls, Settle(c) \/ Execute(c) \/ Deliver(c)
      PROVE  \A i \in 1..Len(toClient') : BrokerFrame(i)
  <2>1. /\ Frame("disposition", c) \in ToClientFrames
        /\ Frame("disposition", c).kind = "disposition"
        /\ Frame("transfer", c) \in ToClientFrames
    BY DEF Frame, ToClientFrames
  <2>2. CASE Settle(c)
    <3>1. Plain
      BY <1>4, <2>1, <2>2 DEF Settle, Push
    <3> QED  BY <1>p, <3>1
  <2>3. CASE Execute(c)
    BY <2>3 DEF Execute, wire, BrokerFrame, Old
  <2>4. CASE Deliver(c)
    <3>1. \A i \in 1..Len(toClient') :
            Old(i) \/ (i = Len(toClient) + 1 /\ toClient'[i] = Frame("transfer", c))
      BY <2>1, <2>4, Appended DEF Deliver, Push
    <3> QED  BY <2>4, <3>1 DEF BrokerFrame
  <2> QED  BY <1>8, <2>2, <2>3, <2>4
<1>9. ASSUME Replenish PROVE Plain
  <2> HIDE DEF Plain, K
  <2> QED  BY <1>k, <1>5, <1>9 DEF Replenish, Push
<1>10. ASSUME Disconnect PROVE Plain
  <2>1. PICK n \in 0..Len(toClient) : toClient' = SubSeq(toClient, 1, n)
    BY <1>10 DEF Disconnect
  <2> QED  BY <2>1, SMT DEF WireTypeOK, Old
<1> HIDE DEF Plain
<1> QED
  BY <1>p, <1>6, <1>7, <1>8, <1>9, <1>10 DEF BrokerNext, BrokerReads, BrokerWorks

\* What a step of the broker does to the connection.
LEMMA BrokerLink ==
  ASSUME BrokerNext
  PROVE  /\ errored' = errored
         /\ link' = link \/ (link = "up" /\ link' # "up")
         /\ stage = "ended" => stage' = "ended"
BY DEF BrokerNext, BrokerReads, BrokerWorks, Settle, Execute, Deliver, Replenish,
       Push, Sends, Disconnect, OnSaslHeader, OnInit, OnInitRefuse, OnAmqpHeader,
       OnOpen, OnBegin, OnAttachSender, OnAttachReceiver, OnFlow, OnTransfer,
       Discard, Reject, Legal, Reads, links, broker, wire

-----------------------------------------------------------------------------
\* Why a call panics.

\* While the connection stands, only an end frame is a frame that cannot be
\* decoded, and only one makes the decoder err.
EndPending == \E i \in 1..Len(toClient) : toClient[i].kind = "end"
LossInv ==
  /\ link = "up" /\ (errored \/ EndPending) => stage = "ended"
  /\ pc = "panicked" => link # "up" \/ stage = "ended"

LEMMA LossInit == Init => LossInv
<1> SUFFICES ASSUME Init PROVE LossInv
  OBVIOUS
<1>1. ~errored /\ toClient = <<>> /\ pc = "start"
  BY DEF Init, WireInit, ClientInit
<1>2. ~EndPending
  <2>1. \A i : ~(i \in 1..0)
    BY SMT
  <2> QED  BY <1>1, <2>1, EmptySeq DEF EndPending
<1> QED  BY <1>1, <1>2 DEF LossInv

LEMMA Polling ==
  ASSUME WireTypeOK, toClient # <<>>, toClient' = Tail(toClient)
  PROVE  /\ 1 \in 1..Len(toClient) /\ Head(toClient) = toClient[1]
         /\ Len(toClient') = Len(toClient) - 1 /\ Len(toClient) \in Nat
         /\ \A i \in 1..Len(toClient') :
              i + 1 \in 1..Len(toClient) /\ toClient'[i] = toClient[i + 1]
BY SMT DEF WireTypeOK

\* The steps of the scripts that poll, or that send.
LEMMA LossClient ==
  ASSUME TypeOK, LossInv, UNCHANGED broker,
         Connect \/ Transmit \/ Receive \/ TakeReply \/ Cancel \/ StartCall
  PROVE  LossInv'
<1>1. WireTypeOK /\ stage' = stage
  BY DEF TypeOK, broker
<1>2. CASE Connect \/ Cancel \/ StartCall
  BY <1>1, <1>2 DEF Connect, Cancel, StartCall, LossInv, EndPending, wire
<1>3. CASE Transmit
  <2> DEFINE f == Frame(Script[step].kind, IF pc = "call" THEN calls ELSE 0)
  <2>1. CASE SendOk(f) /\ Advance
    <3>1. toClient' = toClient /\ errored' = errored /\ (link' = "up" => link = "up")
      BY <2>1 DEF SendOk
    <3>2. pc' # "panicked" \/ pc' = pc
      BY <2>1 DEF Advance
    <3>3. pc \in {"new", "call"}
      BY <1>3 DEF Transmit, Running
    <3> QED  BY <1>1, <3>1, <3>2, <3>3 DEF LossInv, EndPending
  <2>2. CASE SendErr
    BY <2>2 DEF SendErr, LossInv
  <2> QED  BY <1>3, <2>1, <2>2 DEF Transmit
<1>4. ASSUME PollFrame, pc' # "panicked" PROVE LossInv'
  <2>1. toClient # <<>> /\ toClient' = Tail(toClient) /\ UNCHANGED <<link, errored>>
    BY <1>4 DEF PollFrame
  <2>2. EndPending' => EndPending
    BY <1>1, <2>1, Polling DEF EndPending
  <2> QED  BY <1>1, <1>4, <2>1, <2>2 DEF LossInv
<1>5. ASSUME PollErr, pc' # "panicked" PROVE LossInv'
  <2>1. ASSUME link' = "up" PROVE stage = "ended"
    <3>1. link = "up" /\ toClient # <<>> /\ ~Decodable(Head(toClient))
      BY <1>5, <2>1 DEF PollErr
    <3>2. 1 \in 1..Len(toClient) /\ Head(toClient) = toClient[1]
      BY <1>1, <3>1, SMT DEF WireTypeOK
    <3> QED  BY <3>1, <3>2 DEF LossInv, EndPending, Decodable
  <2> QED  BY <1>1, <1>5, <2>1 DEF LossInv
<1>6. ASSUME PollNone PROVE LossInv'
  <2>1. /\ UNCHANGED <<toClient, link>> /\ ~errored'
        /\ errored \/ link # "up"
    BY <1>6 DEF PollNone
  <2> QED  BY <1>1, <2>1 DEF LossInv, EndPending
<1>7. CASE Receive
  <2>1. pc \in {"new", "call"}
    BY <1>7 DEF Receive, Running
  <2>2. Advance => pc' # "panicked"
    BY <2>1 DEF Advance
  <2> QED  BY <1>4, <1>5, <1>6, <1>7, <2>2 DEF Receive
<1>8. CASE TakeReply
  BY <1>4, <1>5, <1>6, <1>8 DEF TakeReply, Return
<1> QED  BY <1>2, <1>3, <1>7, <1>8

LEMMA LossBroker ==
  ASSUME TypeOK, LossInv, UNCHANGED client, BrokerNext
  PROVE  LossInv'
<1>1. \A i \in 1..Len(toClient') : BrokerFrame(i)
  BY BrokerFrames DEF TypeOK
<1>2. EndPending' => EndPending \/ stage' = "ended"
  <2> SUFFICES ASSUME NEW i \in 1..Len(toClient'), toClient'[i].kind = "end"
               PROVE  EndPending \/ stage' = "ended"
    BY DEF EndPending
  <2>1. \A c : Frame("transfer", c).kind = "transfer"
    BY DEF Frame
  <2> QED  BY <1>1, <2>1 DEF BrokerFrame, Old, EndPending
<1>3. pc' = pc
  BY DEF client
<1> QED  BY <1>2, <1>3, BrokerLink DEF LossInv

LEMMA LossNext ==
  ASSUME TypeOK, LossInv, [Next]_vars
  PROVE  LossInv'
<1>1. CASE UNCHANGED vars
  BY <1>1 DEF LossInv, EndPending, vars, wire, client, broker
<1>2. CASE Next
  BY <1>1, <1>2, LossClient, LossBroker DEF Next, Stopped
<1> QED  BY <1>1, <1>2

\* A call panics only when the connection is lost or the session ended,
\* whatever else the broker does and the application drops.
THEOREM PanicIsLoss == Spec => []PanicMeansSessionLost
<1>1. TypeOK /\ LossInv /\ [Next]_vars => LossInv'
  BY LossNext
<1>2. LossInv => PanicMeansSessionLost
  BY DEF LossInv, PanicMeansSessionLost
<1> QED  BY <1>1, <1>2, LossInit, TypeCorrect, PTL DEF Spec

-----------------------------------------------------------------------------
\* Which calls' requests, and which replies, are where.

\* The latest call whose transfer may have been sent.
LastSent == IF pc = "call" /\ step <= 4 THEN calls - 1 ELSE calls

\* A request is on its way to the broker, waiting, or run: in one place only.
Requested ==
  /\ \A i \in 1..Len(toBroker) :
       toBroker[i].kind = "transfer" =>
         /\ toBroker[i].id <= LastSent
         /\ toBroker[i].id \notin requests \cup executed
  /\ \A i, j \in 1..Len(toBroker) :
       toBroker[i].kind = "transfer" /\ toBroker[j].kind = "transfer" /\ i < j =>
         toBroker[i].id < toBroker[j].id
  /\ \A c \in requests \cup executed : c <= LastSent
  /\ requests \cap executed = {} /\ replies \subseteq executed

\* A reply is in its queue, on its way to the client, or returned by a call.
Replied ==
  /\ \A i \in 1..Len(toClient) :
       toClient[i].kind = "transfer" =>
         /\ toClient[i].id \in executed \ replies
         /\ \A j \in 1..Len(toClient) :
              toClient[j].kind = "transfer" /\ toClient[j].id = toClient[i].id => j = i
         /\ \A c \in Calls : result[c].kind = "transfer" => result[c].id # toClient[i].id
  /\ \A c \in Calls :
       result[c].kind = "transfer" =>
         /\ result[c].id \in executed \ replies /\ result[c].id <= c
         /\ \A d \in Calls : result[d].kind = "transfer" /\ result[d].id = result[c].id => d = c

RealInv == Requested /\ Replied

LEMMA RealInit == Init => RealInv
<1> SUFFICES ASSUME Init PROVE RealInv
  OBVIOUS
<1>1. /\ toBroker = <<>> /\ toClient = <<>> /\ Len(toBroker) = 0 /\ Len(toClient) = 0
      /\ requests = {} /\ executed = {} /\ replies = {}
  BY EmptySeq DEF Init, WireInit, BrokerInit
<1>2. \A c \in Calls : result[c].kind # "transfer"
  BY DEF Init, ClientInit, NoResult, Frame
<1>3. \A i : ~(i \in 1..0)
  BY SMT
<1>4. Requested
  BY <1>1, <1>3 DEF Requested
<1>5. Replied
  BY <1>1, <1>2, <1>3 DEF Replied
<1> QED  BY <1>4, <1>5 DEF RealInv

\* The client's steps.  LastSent never decreases, and a transfer is the one
\* of the call that it then counts.
LEMMA Counted ==
  ASSUME TypeOK, StepsOK, NEW n, n = LastSent',
         Connect \/ Transmit \/ Receive \/ TakeReply \/ Cancel \/ StartCall
  PROVE  /\ n \in Int /\ LastSent \in Int /\ LastSent <= n
         /\ Transmit /\ pc = "call" /\ Script[step].kind = "transfer" =>
              LastSent = calls - 1 /\ n = calls
<1>1. /\ calls \in Nat /\ step \in Nat
      /\ pc \in {"start", "new", "ready", "call", "failed", "panicked"}
      /\ (pc = "call" => step \in 1..6)
  BY NewScript, CallScript, MaxCallsAssumption, SMT DEF TypeOK, ClientTypeOK
<1>2. LastSent \in Int /\ (pc # "call" => LastSent = calls)
  BY <1>1, SMT DEF LastSent
<1> DEFINE Counts(p, s, k) == IF p = "call" /\ s <= 4 THEN k - 1 ELSE k
<1>3. n = Counts(pc', step', calls')
  BY DEF LastSent
<1>4. ASSUME NEW p, NEW s \in Int, n = Counts(p, s, calls), p = "call" => pc = "call" /\ s >= step
      PROVE  n \in Int /\ LastSent <= n
  BY <1>1, <1>4, SMT DEF LastSent
<1> HIDE DEF Counts
<1>5. ASSUME Advance, pc \in {"new", "call"} PROVE n \in Int /\ LastSent <= n
  <2>1. CASE step < Len(Script)
    <3>1. step + 1 \in Int /\ step + 1 >= step
      BY <1>1
    <3>2. pc' = pc /\ step' = step + 1 /\ calls' = calls
      BY <1>5, <2>1 DEF Advance
    <3>3. n = Counts(pc, step + 1, calls)
      BY <1>3, <3>2
    <3> QED  BY <1>4, <3>1, <3>3
  <2>2. CASE ~(step < Len(Script))
    <3>1. n = Counts("ready", 1, calls)
      BY <1>3, <1>5, <2>2 DEF Advance
    <3> QED  BY <1>4, <3>1
  <2> QED  BY <2>1, <2>2
<1>6. ASSUME pc' # "call", calls' = calls PROVE n \in Int /\ LastSent <= n
  <2>1. n = calls
    BY <1>3, <1>6 DEF Counts
  <2> QED  BY <1>1, <2>1, SMT DEF LastSent
<1>7. ASSUME Connect PROVE n \in Int /\ LastSent <= n
  BY <1>6, <1>7 DEF Connect
<1>8. ASSUME Abort PROVE n \in Int /\ LastSent <= n
  BY <1>6, <1>8 DEF Abort, Return
<1>9. ASSUME Transmit PROVE n \in Int /\ LastSent <= n
  BY <1>5, <1>8, <1>9 DEF Transmit, Running
<1>10. ASSUME Receive PROVE n \in Int /\ LastSent <= n
  BY <1>5, <1>8, <1>10 DEF Receive, Running
<1>11. ASSUME TakeReply PROVE n \in Int /\ LastSent <= n
  BY <1>6, <1>11 DEF TakeReply, Return
<1>12. ASSUME Cancel PROVE n \in Int /\ LastSent <= n
  BY <1>6, <1>12 DEF Cancel
<1>13. ASSUME StartCall PROVE n \in Int /\ LastSent <= n
  <2>1. pc = "ready" /\ step = 1 /\ pc' = "call" /\ calls' = calls + 1 /\ step' = step
    BY <1>13 DEF StartCall, StepsOK
  <2>2. n = Counts("call", 1, calls + 1)
    BY <1>3, <2>1
  <2>3. n = calls
    BY <1>1, <2>2, SMT DEF Counts
  <2> QED  BY <1>1, <1>2, <2>1, <2>3
<1>14. ASSUME Transmit, pc = "call", Script[step].kind = "transfer"
       PROVE  LastSent = calls - 1 /\ n = calls
  <2>1. step = 4 /\ Len(Script) = 6 /\ Script[step].unwrapped
    BY <1>1, <1>14, CallScript, SMT DEF Script, Tx, Rx, Unwrapped, PollNext
  <2>2. LastSent = calls - 1
    BY <1>14, <2>1 DEF LastSent
  <2>3. CASE Advance
    <3>1. pc' = "call" /\ step' = 5 /\ calls' = calls
      BY <1>14, <2>1, <2>3, SMT DEF Advance
    <3>2. n = Counts("call", 5, calls)
      BY <1>3, <3>1
    <3> QED  BY <2>2, <3>2, SMT DEF Counts
  <2>4. CASE Abort
    <3>1. pc' = "panicked" /\ calls' = calls
      BY <2>1, <2>4 DEF Abort
    <3> QED  BY <1>3, <2>2, <3>1 DEF Counts
  <2> QED  BY <1>14, <2>3, <2>4 DEF Transmit
<1> QED  BY <1>2, <1>7, <1>9, <1>10, <1>11, <1>12, <1>13, <1>14

\* Every number in Requested is one.
LEMMA Identities ==
  ASSUME TypeOK
  PROVE  /\ \A i \in 1..Len(toBroker) : toBroker[i].id \in Int
         /\ \A c \in requests \cup executed : c \in Int
<1>1. Calls \subseteq Int
  BY MaxCallsAssumption, SMT DEF Calls
<1>2. \A f \in ToBrokerFrames : f.id \in Int
  <2>1. \A f \in ToBrokerFrames : f.id \in {0} \/ f.id \in Calls
    BY DEF ToBrokerFrames
  <2>2. 0 \in Int
    OBVIOUS
  <2> QED  BY <1>1, <2>1, <2>2
<1>3. \A i \in 1..Len(toBroker) : toBroker[i] \in ToBrokerFrames
  BY SMT DEF TypeOK, WireTypeOK
<1> QED  BY <1>1, <1>2, <1>3, SMT DEF TypeOK, BrokerTypeOK

LEMMA RequestedClient ==
  ASSUME TypeOK, StepsOK, Requested, UNCHANGED broker,
         Connect \/ Transmit \/ Receive \/ TakeReply \/ Cancel \/ StartCall
  PROVE  Requested'
<1> PICK n : n = LastSent'
  OBVIOUS
<1>1. /\ n \in Int /\ LastSent \in Int /\ LastSent <= n
      /\ Transmit /\ pc = "call" /\ Script[step].kind = "transfer" =>
           LastSent = calls - 1 /\ n = calls
  BY Counted
<1>2. UNCHANGED <<requests, executed, replies>>
  BY DEF broker
<1>3. \A c \in requests \cup executed : c <= n
  BY <1>1, Identities, SMT DEF Requested
<1>4. CASE toBroker' = toBroker
  <2>1. \A i \in 1..Len(toBroker) : toBroker[i].kind = "transfer" => toBroker[i].id <= n
    BY <1>1, Identities, SMT DEF Requested
  <2> QED  BY <1>2, <1>3, <1>4, <2>1 DEF Requested
<1>5. CASE Transmit /\ toBroker' # toBroker
  <2> DEFINE f == Frame(Script[step].kind, IF pc = "call" THEN calls ELSE 0)
             m == Len(toBroker)
  <2>1. SendOk(f) /\ toBroker' = Append(toBroker, f) /\ pc \in {"new", "call"}
    BY <1>5 DEF Transmit, Running, SendOk, SendErr
  <2>2. f.kind = "transfer" => pc = "call" /\ Script[step].kind = "transfer" /\ f.id = calls
    <3>1. pc = "new" => Script[step].kind \in HandshakeKinds
      BY <1>5, NewScript, NewSteps DEF Transmit, TypeOK, ClientTypeOK
    <3> QED  BY <2>1, <3>1 DEF Frame, HandshakeKinds
  <2>3. f.kind = "transfer" => f.id = n /\ LastSent = n - 1
    BY <1>1, <1>5, <2>2
  <2> HIDE DEF f
  <2>4. /\ m \in Nat /\ Len(toBroker') = m + 1 /\ toBroker'[m + 1] = f
        /\ \A i \in 1..m : toBroker'[i] = toBroker[i]
        /\ \A i \in 1..m+1 : i \in 1..m \/ i = m + 1
    BY <2>1, SMT DEF TypeOK, WireTypeOK
  <2> HIDE DEF m
  <2>5. \A i \in 1..m : toBroker[i].kind = "transfer" =>
          toBroker[i].id <= LastSent /\ toBroker[i].id \in Int
    BY Identities DEF Requested, m
  <2>6. \A i \in 1..m+1 : toBroker'[i].kind = "transfer" => toBroker'[i].id <= n
    <3>1. \A k \in Int : k <= LastSent => k <= n
      BY <1>1, SMT
    <3>2. n <= n
      BY <1>1, SMT
    <3> QED  BY <2>3, <2>4, <2>5, <3>1, <3>2
  <2>7. \A i \in 1..m+1 : toBroker'[i].kind = "transfer" =>
          toBroker'[i].id \notin requests \cup executed
    <3>1. f.kind = "transfer" => f.id \notin requests \cup executed
      <4>1. \A c \in requests \cup executed : c <= LastSent /\ c \in Int
        BY Identities DEF Requested
      <4> QED  BY <1>1, <2>3, <4>1, SMT
    <3>2. \A i \in 1..m : toBroker[i].kind = "transfer" => toBroker[i].id \notin requests \cup executed
      BY DEF Requested, m
    <3> QED  BY <2>4, <3>1, <3>2
  <2>8. \A i, j \in 1..m+1 :
          toBroker'[i].kind = "transfer" /\ toBroker'[j].kind = "transfer" /\ i < j =>
            toBroker'[i].id < toBroker'[j].id
    <3> SUFFICES ASSUME NEW i \in 1..m+1, NEW j \in 1..m+1,
                        toBroker'[i].kind = "transfer", toBroker'[j].kind = "transfer", i < j
                 PROVE  toBroker'[i].id < toBroker'[j].id
      OBVIOUS
    <3>1. i \in 1..m /\ toBroker'[i] = toBroker[i]
      BY <2>4, SMT
    <3>2. CASE j = m + 1
      <4>1. toBroker'[j] = f /\ f.id = n /\ LastSent = n - 1
        BY <2>3, <2>4, <3>2
      <4>2. n \in Int
        BY <1>1
      <4>3. \A k \in Int : k <= n - 1 => k < n
        BY <4>2, SMT
      <4> QED  BY <2>5, <3>1, <4>1, <4>3
    <3>3. CASE j \in 1..m
      BY <2>4, <3>1, <3>3 DEF Requested, m
    <3> QED  BY <2>4, <3>2, <3>3
  <2> QED  BY <1>2, <1>3, <2>4, <2>6, <2>7, <2>8 DEF Requested
<1>6. Transmit \/ toBroker' = toBroker
  BY DEF Connect, Receive, TakeReply, Cancel, StartCall, PollFrame, PollErr, PollNone, wire
<1> QED  BY <1>4, <1>5, <1>6

\* What Replied says of the replies under way still holds of those that remain.
LEMMA OnesLess ==
  ASSUME WireTypeOK, RealInv, UNCHANGED <<executed, replies>>,
         toClient # <<>>, toClient' = Tail(toClient)
  PROVE  \A i \in 1..Len(toClient') :
           toClient'[i].kind = "transfer" =>
             /\ toClient'[i].id \in executed \ replies
             /\ \A j \in 1..Len(toClient') :
                  toClient'[j].kind = "transfer" /\ toClient'[j].id = toClient'[i].id => j = i
             /\ \A c \in Calls : result[c].kind = "transfer" => result[c].id # toClient'[i].id
<1>1. /\ Len(toClient') = Len(toClient) - 1 /\ Len(toClient) \in Nat
      /\ \A i \in 1..Len(toClient') :
           i + 1 \in 1..Len(toClient) /\ toClient'[i] = toClient[i + 1]
  BY Polling
<1>2. \A i, j \in 1..Len(toClient') : i + 1 = j + 1 => i = j
  BY <1>1, SMT
<1> SUFFICES ASSUME NEW i \in 1..Len(toClient'), toClient'[i].kind = "transfer"
             PROVE  /\ toClient'[i].id \in executed \ replies
                    /\ \A j \in 1..Len(toClient') :
                         toClient'[j].kind = "transfer" /\ toClient'[j].id = toClient'[i].id => j = i
                    /\ \A c \in Calls : result[c].kind = "transfer" => result[c].id # toClient'[i].id
  OBVIOUS
<1> DEFINE k == i + 1
<1>3. k \in 1..Len(toClient) /\ toClient'[i] = toClient[k]
  BY <1>1
<1> HIDE DEF k
<1>4. /\ toClient[k].id \in executed \ replies
      /\ \A j \in 1..Len(toClient) :
           toClient[j].kind = "transfer" /\ toClient[j].id = toClient[k].id => j = k
      /\ \A c \in Calls : result[c].kind = "transfer" => result[c].id # toClient[k].id
  BY <1>3 DEF RealInv, Replied
<1>5. ASSUME NEW j \in 1..Len(toClient'), toClient'[j].kind = "transfer",
             toClient'[j].id = toClient'[i].id
      PROVE  j = i
  <2>1. j + 1 = k
    BY <1>1, <1>3, <1>4, <1>5
  <2> QED  BY <1>2, <2>1 DEF k
<1> QED  BY <1>3, <1>4, <1>5

LEMMA RepliedClient ==
  ASSUME TypeOK, RealInv, UNCHANGED broker,
         Connect \/ Transmit \/ Receive \/ TakeReply \/ Cancel \/ StartCall
  PROVE  Replied'
<1>1. UNCHANGED <<requests, executed, replies>>
  BY DEF broker
<1>2. ASSUME toClient' = toClient, result' = result PROVE Replied'
  BY <1>1, <1>2 DEF RealInv, Replied
<1>3. ASSUME toClient # <<>>, toClient' = Tail(toClient), result' = result PROVE Replied'
  BY <1>1, <1>3, OnesLess DEF TypeOK, RealInv, Replied
<1>4. ASSUME NEW r, r.kind # "transfer", calls \in Calls,
             result' = [result EXCEPT ![calls] = r]
      PROVE  \A c \in Calls : result'[c].kind = "transfer" => result'[c] = result[c]
  BY <1>4 DEF TypeOK, ClientTypeOK
<1>5. pc = "call" => calls \in Calls /\ step \in 1..6
  BY CallScript, MaxCallsAssumption, SMT DEF TypeOK, ClientTypeOK, Calls
<1>6. ASSUME PollFrame, pc = "call", step = 6, Return(Head(toClient)) PROVE Replied'
  <2> DEFINE h == toClient[1]
  <2>1. toClient # <<>> /\ toClient' = Tail(toClient)
    BY <1>6 DEF PollFrame
  <2>2. /\ 1 \in 1..Len(toClient) /\ Head(toClient) = h
        /\ \A i \in 1..Len(toClient') :
             i + 1 \in 1..Len(toClient) /\ toClient'[i] = toClient[i + 1]
    BY <2>1, Polling DEF TypeOK
  <2>3. \A i, j \in 1..Len(toClient') : i + 1 # 1 /\ (i + 1 = j + 1 => i = j)
    <3>1. Len(toClient') \in Nat
      BY <2>1, Polling, SMT DEF TypeOK, WireTypeOK
    <3> QED  BY <3>1, SMT
  <2>4. result'[calls] = h /\ \A c \in Calls \ {calls} : result'[c] = result[c]
    BY <1>5, <1>6, <2>2 DEF Return, TypeOK, ClientTypeOK
  <2>5. h.kind = "transfer" => h.id <= calls /\ h.id \in executed \ replies
    <3>1. LastSent = calls
      BY <1>6, SMT DEF LastSent
    <3> QED  BY <2>2, <3>1 DEF RealInv, Requested, Replied
  <2>6. \A i \in 1..Len(toClient') : toClient'[i].kind = "transfer" =>
          \A c \in Calls : result'[c].kind = "transfer" => result'[c].id # toClient'[i].id
    BY <2>2, <2>3, <2>4 DEF RealInv, Replied
  <2>7. \A c, d \in Calls :
          result'[c].kind = "transfer" /\ result'[d].kind = "transfer"
            /\ result'[d].id = result'[c].id => d = c
    BY <2>2, <2>4 DEF RealInv, Replied
  <2>8. \A c \in Calls : result'[c].kind = "transfer" =>
          result'[c].id \in executed \ replies /\ result'[c].id <= c
    BY <2>4, <2>5 DEF RealInv, Replied
  <2>9. \A i \in 1..Len(toClient') : toClient'[i].kind = "transfer" =>
          /\ toClient'[i].id \in executed \ replies
          /\ \A j \in 1..Len(toClient') :
               toClient'[j].kind = "transfer" /\ toClient'[j].id = toClient'[i].id => j = i
    BY <1>1, <2>1, OnesLess DEF TypeOK
  <2> QED  BY <1>1, <2>6, <2>7, <2>8, <2>9 DEF Replied
<1>7. ASSUME pc = "call", Return(ErrResult),
             toClient' = toClient \/ (toClient # <<>> /\ toClient' = Tail(toClient))
      PROVE  Replied'
  <2>1. \A c \in Calls : result'[c].kind = "transfer" => result'[c] = result[c]
    <3>1. ErrResult.kind # "transfer"
      BY DEF ErrResult, Frame
    <3> QED  BY <1>4, <1>5, <1>7, <3>1 DEF Return
  <2>2. CASE toClient' = toClient
    <3>1. \A i \in 1..Len(toClient') : toClient'[i].kind = "transfer" =>
            /\ toClient'[i].id \in executed \ replies
            /\ \A j \in 1..Len(toClient') :
                 toClient'[j].kind = "transfer" /\ toClient'[j].id = toClient'[i].id => j = i
      BY <2>2 DEF RealInv, Replied
    <3>2. \A i \in 1..Len(toClient') : toClient'[i].kind = "transfer" =>
            \A c \in Calls : result'[c].kind = "transfer" => result'[c].id # toClient'[i].id
      BY <2>1, <2>2 DEF RealInv, Replied
    <3>3. \A c \in Calls : result'[c].kind = "transfer" =>
            /\ result'[c].id \in executed \ replies /\ result'[c].id <= c
            /\ \A d \in Calls :
                 result'[d].kind = "transfer" /\ result'[d].id = result'[c].id => d = c
      BY <2>1 DEF RealInv, Replied
    <3> QED  BY <1>1, <3>1, <3>2, <3>3 DEF Replied
  <2>3. CASE toClient # <<>> /\ toClient' = Tail(toClient)
    <3>1. \A i \in 1..Len(toClient') : toClient'[i].kind = "transfer" =>
            /\ toClient'[i].id \in executed \ replies
            /\ \A j \in 1..Len(toClient') :
                 toClient'[j].kind = "transfer" /\ toClient'[j].id = toClient'[i].id => j = i
            /\ \A c \in Calls : result'[c].kind = "transfer" => result'[c].id # toClient'[i].id
      <4>1. \A i \in 1..Len(toClient') : toClient'[i].kind = "transfer" =>
              /\ toClient'[i].id \in executed \ replies
              /\ \A j \in 1..Len(toClient') :
                   toClient'[j].kind = "transfer" /\ toClient'[j].id = toClient'[i].id => j = i
              /\ \A c \in Calls : result[c].kind = "transfer" => result[c].id # toClient'[i].id
        BY <1>1, <2>3, OnesLess DEF TypeOK
      <4> QED  BY <2>1, <4>1
    <3>2. \A c \in Calls : result'[c].kind = "transfer" =>
            /\ result'[c].id \in executed \ replies /\ result'[c].id <= c
            /\ \A d \in Calls :
                 result'[d].kind = "transfer" /\ result'[d].id = result'[c].id => d = c
      BY <2>1 DEF RealInv, Replied
    <3> QED  BY <1>1, <3>1, <3>2 DEF Replied
  <2> QED  BY <1>7, <2>2, <2>3
<1>8. CASE Connect \/ Cancel \/ StartCall
  BY <1>2, <1>8 DEF Connect, Cancel, StartCall, wire
<1>9. Abort /\ pc # "call" => result' = result
  BY DEF Abort
<1>10. Abort /\ pc = "call" => result' = result \/ Return(ErrResult)
  BY DEF Abort
<1>11. Advance => result' = result
  BY DEF Advance
<1>12. CASE Transmit
  <2>1. toClient' = toClient
    BY <1>12 DEF Transmit, SendOk, SendErr
  <2> QED  BY <1>2, <1>7, <1>9, <1>10, <1>11, <1>12, <2>1 DEF Transmit
<1>13. CASE Receive
  <2>1. PollFrame => toClient # <<>> /\ toClient' = Tail(toClient)
    BY DEF PollFrame
  <2>2. PollErr => toClient' = toClient \/ (toClient # <<>> /\ toClient' = Tail(toClient))
    BY DEF PollErr
  <2>3. PollNone => toClient' = toClient
    BY DEF PollNone
  <2> QED  BY <1>2, <1>3, <1>7, <1>9, <1>10, <1>11, <1>13, <2>1, <2>2, <2>3 DEF Receive
<1>14. CASE TakeReply
  <2>1. pc = "call" /\ step = 6
    <3>1. pc \in {"new", "call"}
      BY <1>14 DEF TakeReply, Running
    <3>2. pc = "new" => step \in 1..14 /\ ~Running("next")
      BY NewScript, NewSteps DEF TypeOK, ClientTypeOK
    <3>3. pc = "call" => step = 6
      BY <1>5, <1>14, CallSteps DEF TakeReply
    <3> QED  BY <1>14, <3>1, <3>2, <3>3 DEF TakeReply
  <2>2. PollErr \/ PollNone =>
          toClient' = toClient \/ (toClient # <<>> /\ toClient' = Tail(toClient))
    BY DEF PollErr, PollNone
  <2> QED  BY <1>6, <1>7, <1>14, <2>1, <2>2 DEF TakeReply
<1> QED  BY <1>8, <1>12, <1>13, <1>14

\* The broker's steps: a frame read is gone, and only OnTransfer, Execute and
\* Deliver move a request or a reply.
LEMMA BrokerMoves ==
  ASSUME TypeOK, BrokerNext
  PROVE  /\ toBroker' \in {toBroker, <<>>} \/ (toBroker # <<>> /\ toBroker' = Tail(toBroker))
         /\ \/ UNCHANGED <<requests, executed, replies>>
            \/ OnTransfer
            \/ \E c \in Calls : Execute(c) \/ Deliver(c)
<1> USE DEF Reads, Sends, Push, work, links, broker, wire
<1>1. CASE OnSaslHeader       BY <1>1 DEF OnSaslHeader
<1>2. CASE OnInit             BY <1>2 DEF OnInit
<1>3. CASE OnInitRefuse       BY <1>3 DEF OnInitRefuse
<1>4. CASE OnAmqpHeader       BY <1>4 DEF OnAmqpHeader
<1>5. CASE OnOpen             BY <1>5 DEF OnOpen
<1>6. CASE OnBegin            BY <1>6 DEF OnBegin
<1>7. CASE OnAttachSender     BY <1>7 DEF OnAttachSender
<1>8. CASE OnAttachReceiver   BY <1>8 DEF OnAttachReceiver
<1>9. CASE OnFlow             BY <1>9 DEF OnFlow
<1>10. CASE OnTransfer        BY <1>10 DEF OnTransfer
<1>11. CASE Discard           BY <1>11 DEF Discard
<1>12. CASE Reject            BY <1>12 DEF Reject
<1>13. ASSUME NEW c \in Calls, Settle(c) \/ Execute(c) \/ Deliver(c)
       PROVE  /\ toBroker' = toBroker
              /\ UNCHANGED <<requests, executed, replies>> \/ Execute(c) \/ Deliver(c)
  BY <1>13 DEF Settle, Execute, Deliver
<1>14. CASE Replenish         BY <1>14 DEF Replenish
<1>15. CASE Disconnect        BY <1>15 DEF Disconnect
<1> QED
  BY <1>1, <1>2, <1>3, <1>4, <1>5, <1>6, <1>7, <1>8, <1>9, <1>10, <1>11, <1>12,
     <1>13, <1>14, <1>15 DEF BrokerNext, BrokerReads, BrokerWorks

LEMMA RequestedBroker ==
  ASSUME TypeOK, Requested, UNCHANGED client, BrokerNext
  PROVE  Requested'
<1> PICK n : n = LastSent
  OBVIOUS
<1>0. LastSent' = n
  BY DEF LastSent, client
<1>1. \A i \in 1..Len(toBroker') :
        \E k \in 1..Len(toBroker) :
          /\ toBroker'[i] = toBroker[k]
          /\ \A j \in 1..Len(toBroker') :
               i < j => \E l \in 1..Len(toBroker) : toBroker'[j] = toBroker[l] /\ k < l
  <2>1. CASE toBroker' = toBroker
    BY <2>1
  <2>2. CASE toBroker' = <<>>
    BY <2>2, SMT
  <2>3. CASE toBroker # <<>> /\ toBroker' = Tail(toBroker)
    <3>1. /\ Len(toBroker) \in Nat
          /\ \A i \in 1..Len(toBroker') :
               i + 1 \in 1..Len(toBroker) /\ toBroker'[i] = toBroker[i + 1]
      BY <2>3, SMT DEF TypeOK, WireTypeOK
    <3>2. \A i, j \in 1..Len(toBroker') : i < j => i + 1 < j + 1
      BY <2>3, SMT DEF TypeOK, WireTypeOK
    <3> QED  BY <3>1, <3>2
  <2> QED  BY <2>1, <2>2, <2>3, BrokerMoves
<1> DEFINE Ascending ==
             \A i, j \in 1..Len(toBroker') :
               toBroker'[i].kind = "transfer" /\ toBroker'[j].kind = "transfer" /\ i < j =>
                 toBroker'[i].id < toBroker'[j].id
           Fewer(R, E) ==
             /\ \A i \in 1..Len(toBroker') :
                  toBroker'[i].kind = "transfer" =>
                    toBroker'[i].id <= n /\ toBroker'[i].id \notin R \cup E
             /\ \A c \in R \cup E : c <= n
             /\ R \cap E = {}
<1>2. Ascending
  BY <1>1 DEF Requested
<1>3. ASSUME NEW R, NEW E, R \cup E = requests \cup executed, R \cap E = {} PROVE Fewer(R, E)
  BY <1>1, <1>3 DEF Requested
<1>4. Fewer(requests', executed') /\ replies' \subseteq executed' => Requested'
  BY <1>0, <1>2 DEF Requested
<1> HIDE DEF Fewer, Ascending
<1>5. CASE UNCHANGED <<requests, executed, replies>>
  BY <1>3, <1>4, <1>5 DEF Requested
<1>6. CASE OnTransfer
  <2> DEFINE h == toBroker[1]
  <2>1. /\ 1 \in 1..Len(toBroker) /\ h.kind = "transfer"
        /\ \A i \in 1..Len(toBroker') :
             i + 1 \in 1..Len(toBroker) /\ 1 < i + 1 /\ toBroker'[i] = toBroker[i + 1]
    BY <1>6, SMT DEF OnTransfer, Reads, Sends, TypeOK, WireTypeOK
  <2>2. requests' = requests \cup {h.id} /\ executed' = executed /\ replies' = replies
    BY <1>6, SMT DEF OnTransfer, Reads, Sends, TypeOK, WireTypeOK
  <2>3. h.id <= n /\ h.id \notin requests \cup executed
    BY <2>1 DEF Requested
  <2>4. \A i \in 1..Len(toBroker') : toBroker'[i].kind = "transfer" =>
          toBroker'[i].id <= n /\ toBroker'[i].id \notin requests \cup executed \cup {h.id}
    <3> SUFFICES ASSUME NEW i \in 1..Len(toBroker'), toBroker'[i].kind = "transfer"
                 PROVE  toBroker'[i].id <= n
                        /\ toBroker'[i].id \notin requests \cup executed \cup {h.id}
      OBVIOUS
    <3> DEFINE k == i + 1
    <3>1. k \in 1..Len(toBroker) /\ 1 < k /\ toBroker'[i] = toBroker[k]
      BY <2>1
    <3> HIDE DEF k
    <3>2. toBroker[k].id <= n /\ toBroker[k].id \notin requests \cup executed
      BY <3>1 DEF Requested
    <3>3. h.id < toBroker[k].id
      BY <2>1, <3>1 DEF Requested
    <3>4. h.id \in Int /\ toBroker[k].id \in Int
      BY <2>1, <3>1, Identities
    <3>5. h.id # toBroker[k].id
      BY <3>3, <3>4, SMT
    <3> QED  BY <3>1, <3>2, <3>5
  <2> HIDE DEF h
  <2>5. Fewer(requests', executed')
    BY <2>2, <2>3, <2>4 DEF Requested, Fewer
  <2> QED  BY <1>4, <2>2, <2>5 DEF Requested
<1>7. ASSUME NEW c \in Calls, Execute(c) PROVE Requested'
  BY <1>3, <1>4, <1>7 DEF Execute, Requested
<1>8. ASSUME NEW c \in Calls, Deliver(c) PROVE Requested'
  BY <1>3, <1>4, <1>8 DEF Deliver, Requested
<1> QED  BY <1>5, <1>6, <1>7, <1>8, BrokerMoves

LEMMA RepliedBroker ==
  ASSUME TypeOK, RealInv, UNCHANGED client, BrokerNext
  PROVE  Replied'
<1> DEFINE Gone == executed \ replies
<1>1. result' = result /\ \A i \in 1..Len(toClient') : BrokerFrame(i)
  BY BrokerFrames DEF TypeOK, client
<1>2. Gone \subseteq Gone'
  BY BrokerMoves DEF OnTransfer, Execute, Deliver, RealInv, Requested
<1>3. ASSUME NEW i \in 1..Len(toClient'), toClient'[i].kind = "transfer"
      PROVE  \/ Old(i)
             \/ \E c \in Calls : Deliver(c) /\ i = Len(toClient) + 1 /\ toClient'[i].id = c
  <2>1. \A c : Frame("transfer", c).id = c
    BY DEF Frame
  <2>2. \/ Old(i)
        \/ \E c \in Calls : /\ Deliver(c) /\ i = Len(toClient) + 1
                            /\ toClient'[i] = Frame("transfer", c)
    BY <1>1, <1>3 DEF BrokerFrame
  <2> QED  BY <2>1, <2>2
<1>4. ASSUME NEW i \in 1..Len(toClient'), toClient'[i].kind = "transfer", Old(i)
      PROVE  /\ toClient'[i].id \in Gone
             /\ \A j \in 1..Len(toClient') :
                  toClient'[j].kind = "transfer" /\ Old(j) /\ toClient'[j].id = toClient'[i].id => j = i
             /\ \A c \in Calls : result[c].kind = "transfer" => result[c].id # toClient'[i].id
  BY <1>4 DEF Old, RealInv, Replied
<1>5. ASSUME NEW c \in Calls, Deliver(c) PROVE c \in Gone' /\ c \notin Gone
  BY <1>5 DEF Deliver, RealInv, Requested
<1> HIDE DEF Gone
<1>6. ASSUME NEW i \in 1..Len(toClient'), toClient'[i].kind = "transfer"
      PROVE  /\ toClient'[i].id \in Gone'
             /\ \A j \in 1..Len(toClient') :
                  toClient'[j].kind = "transfer" /\ toClient'[j].id = toClient'[i].id => j = i
             /\ \A c \in Calls : result[c].kind = "transfer" => result[c].id # toClient'[i].id
  <2>1. CASE Old(i)
    BY <1>2, <1>3, <1>4, <1>5, <1>6, <2>1
  <2>2. ASSUME NEW c \in Calls, Deliver(c), i = Len(toClient) + 1, toClient'[i].id = c
        PROVE  /\ toClient'[i].id \in Gone'
               /\ \A j \in 1..Len(toClient') :
                    toClient'[j].kind = "transfer" /\ toClient'[j].id = toClient'[i].id => j = i
               /\ \A d \in Calls : result[d].kind = "transfer" => result[d].id # toClient'[i].id
    <3>1. \A d \in Calls : result[d].kind = "transfer" => result[d].id \in Gone
      BY DEF RealInv, Replied, Gone
    <3> QED  BY <1>3, <1>4, <1>5, <2>2, <3>1
  <2> QED  BY <1>3, <1>6, <2>1, <2>2
<1>7. \A c \in Calls : result[c].kind = "transfer" =>
        /\ result[c].id \in Gone' /\ result[c].id <= c
        /\ \A d \in Calls : result[d].kind = "transfer" /\ result[d].id = result[c].id => d = c
  BY <1>2 DEF RealInv, Replied, Gone
<1> QED  BY <1>1, <1>6, <1>7 DEF Replied, Gone

LEMMA RealNext ==
  ASSUME TypeOK, StepsOK, RealInv, [Next]_vars
  PROVE  RealInv'
<1>1. CASE UNCHANGED vars
  BY <1>1 DEF RealInv, Requested, Replied, LastSent, vars, wire, client, broker
<1>2. CASE Next
  BY <1>1, <1>2, RequestedClient, RequestedBroker, RepliedClient, RepliedBroker
     DEF Next, Stopped, RealInv
<1> QED  BY <1>1, <1>2

\* What a call returns as a reply is a reply the node sent, to that call or to
\* an earlier one, and no two calls return the same, whatever the broker does,
\* the network loses and the application drops.
THEOREM RealReplies == Spec => []RepliesAreReal
<1>1. TypeOK /\ StepsOK /\ RealInv /\ [Next]_vars => (TypeOK /\ StepsOK /\ RealInv)'
  BY TypeNext, RealNext
<1>2. RealInv => RepliesAreReal
  BY DEF RealInv, Replied, RepliesAreReal
<1> QED  BY <1>1, <1>2, TypeInit, RealInit, PTL DEF Spec

-----------------------------------------------------------------------------
\* The client keeps no protocol state, and may be dropped at every await; yet it
\* never sends a frame the broker's state does not allow.

\* An attach of a receiver link is under way, before position p.
AttachAhead(p) ==
  \E j \in 1..Len(toBroker) : j < p /\ toBroker[j].kind = "attach_receiver"

AttachUnderWay ==
  \E j \in 1..Len(toBroker) : toBroker[j].kind = "attach_receiver"

\* Every frame under way to the broker will find it in a state that allows it:
\* a flow its link, a transfer its credit.  And so will the next one sent.
Expected ==
  /\ \A i \in 1..Len(toBroker) :
       /\ toBroker[i].kind \in {"attach_receiver", "flow", "transfer"}
       /\ toBroker[i].kind = "flow" => queue # 0 \/ AttachAhead(i)
       /\ toBroker[i].kind = "transfer" => senderCredit > Credit - toBroker[i].id
  /\ pc = "call" /\ step >= 2 => queue # 0 \/ AttachUnderWay
  /\ senderCredit >= Credit - LastSent

LegalInv ==
  /\ stage # "rejected"
  /\ pc = "failed" => link # "up"
  /\ pc \in {"ready", "call"} /\ link = "up" /\ stage = "links" => Expected

-----------------------------------------------------------------------------
LEMMA LegalInit == Init => LegalInv
BY DEF Init, ClientInit, BrokerInit, LegalInv

\* The first frame under way, and what is left behind it.
LEMMA First ==
  ASSUME WireTypeOK, toBroker # <<>>
  PROVE  /\ 1 \in 1..Len(toBroker) /\ Head(toBroker) = toBroker[1] /\ Len(toBroker) \in Nat
         /\ toBroker' = Tail(toBroker) =>
              /\ Len(toBroker') = Len(toBroker) - 1
              /\ \A i \in 1..Len(toBroker') :
                   i + 1 \in 1..Len(toBroker) /\ 1 < i + 1 /\ toBroker'[i] = toBroker[i + 1]
BY SMT DEF WireTypeOK

\* What AttachAhead says survives the reading of another frame.
LEMMA StillAhead ==
  ASSUME WireTypeOK, toBroker # <<>>, toBroker' = Tail(toBroker),
         toBroker[1].kind # "attach_receiver"
  PROVE  /\ AttachUnderWay => AttachUnderWay'
         /\ \A p \in Int : AttachAhead(p + 1) => AttachAhead(p)'
<1>1. ASSUME NEW j \in 1..Len(toBroker), toBroker[j].kind = "attach_receiver"
      PROVE  /\ j - 1 \in 1..Len(toBroker')
             /\ toBroker'[j - 1].kind = "attach_receiver"
             /\ \A p \in Int : j < p + 1 => j - 1 < p
  <2>1. j # 1
    BY <1>1
  <2>2. j - 1 \in 1..Len(toBroker') /\ (j - 1) + 1 = j
    BY <2>1, First, SMT
  <2>3. toBroker'[j - 1] = toBroker[j]
    BY <2>2, First
  <2>4. \A p \in Int : j < p + 1 => j - 1 < p
    BY SMT
  <2> QED  BY <1>1, <2>2, <2>3, <2>4
<1>2. AttachUnderWay => AttachUnderWay'
  BY <1>1 DEF AttachUnderWay
<1>3. \A p \in Int : AttachAhead(p + 1) => AttachAhead(p)'
  BY <1>1 DEF AttachAhead
<1> QED  BY <1>2, <1>3

\* The frame the broker finds first is one its state allows.
LEMMA FirstIsLegal ==
  ASSUME IInv, Expected, stage = "links", link = "up", senderLink, toBroker # <<>>,
         MaxCalls <= Credit
  PROVE  Legal /\ ~Reads("attach_sender")
<1> DEFINE f == toBroker[1]
<1>1. 1 \in 1..Len(toBroker) /\ Head(toBroker) = f
  BY First DEF IInv, TypeOK
<1>2. /\ f.kind \in {"attach_receiver", "flow", "transfer"}
      /\ f.kind = "flow" => queue # 0 \/ AttachAhead(1)
      /\ f.kind = "transfer" => senderCredit > Credit - f.id
  BY <1>1 DEF Expected
<1>3. ~AttachAhead(1)
  <2>1. \A j \in 1..Len(toBroker) : ~(j < 1)
    BY SMT
  <2> QED  BY <2>1 DEF AttachAhead
<1>4. f.kind = "transfer" => senderCredit > 0
  <2>1. f \in ToBrokerFrames
    BY <1>1, SMT DEF IInv, TypeOK, WireTypeOK
  <2>2. f.kind = "transfer" => f.id \in Calls
    BY <2>1 DEF ToBrokerFrames, HandshakeKinds
  <2> HIDE DEF f
  <2>3. \A c \in Calls : c \in Int /\ c <= Credit
    BY MaxCallsAssumption, BrokerAssumption, SMT DEF Calls
  <2>4. senderCredit \in Int /\ Credit \in Int
    BY BrokerAssumption, SMT DEF IInv, TypeOK, BrokerTypeOK
  <2> QED  BY <1>2, <2>2, <2>3, <2>4, SMT
<1> QED  BY <1>1, <1>2, <1>3, <1>4 DEF Legal, Reads

-----------------------------------------------------------------------------
\* The broker's steps while the links are up.

\* Frames that remain are still expected when one that is no attach is read.
LEMMA ReadOne ==
  ASSUME IInv, Expected, UNCHANGED client, queue' = queue,
         toBroker # <<>>, toBroker' = Tail(toBroker), toBroker[1].kind # "attach_receiver",
         NEW n \in Int, n = senderCredit',
         \A i \in 1..Len(toBroker) :
           1 < i /\ toBroker[i].kind = "transfer" => n > Credit - toBroker[i].id,
         n >= Credit - LastSent
  PROVE  Expected'
<1>1. WireTypeOK
  BY DEF IInv, TypeOK
<1>2. \A i \in 1..Len(toBroker') :
        i + 1 \in 1..Len(toBroker) /\ 1 < i + 1 /\ toBroker'[i] = toBroker[i + 1]
  BY <1>1, First
<1>3. ASSUME NEW q \in Int, queue # 0 \/ AttachAhead(q + 1) PROVE queue' # 0 \/ AttachAhead(q)'
  BY <1>1, <1>2, <1>3, StillAhead
<1>4. ASSUME NEW i \in 1..Len(toBroker')
      PROVE  /\ toBroker'[i].kind \in {"attach_receiver", "flow", "transfer"}
             /\ toBroker'[i].kind = "flow" => queue' # 0 \/ AttachAhead(i)'
             /\ toBroker'[i].kind = "transfer" => n > Credit - toBroker'[i].id
  <2>1. i \in Int
    OBVIOUS
  <2>2. /\ toBroker[i + 1].kind \in {"attach_receiver", "flow", "transfer"}
        /\ toBroker[i + 1].kind = "flow" => queue # 0 \/ AttachAhead(i + 1)
    BY <1>2 DEF Expected
  <2>3. toBroker[i + 1].kind = "transfer" => n > Credit - toBroker[i + 1].id
    BY <1>2
  <2> QED  BY <1>2, <1>3, <2>1, <2>2, <2>3
<1>5. pc' = "call" /\ step' >= 2 => queue' # 0 \/ AttachUnderWay'
  BY <1>1, StillAhead DEF Expected, client
<1>6. LastSent' = LastSent
  BY DEF LastSent, client
<1> QED  BY <1>4, <1>5, <1>6 DEF Expected

\* The same when an attach is read, which leaves a link behind it.
LEMMA ReadAttach ==
  ASSUME IInv, Expected, UNCHANGED client, queue' # 0, senderCredit' = senderCredit,
         toBroker # <<>>, toBroker' = Tail(toBroker)
  PROVE  Expected'
<1>1. \A i \in 1..Len(toBroker') : i + 1 \in 1..Len(toBroker) /\ toBroker'[i] = toBroker[i + 1]
  BY First DEF IInv, TypeOK
<1>2. LastSent' = LastSent
  BY DEF LastSent, client
<1> QED  BY <1>1, <1>2 DEF Expected, client

\* And when none is read, and the credit is not used up.
LEMMA ReadNone ==
  ASSUME IInv, Expected, UNCHANGED client, UNCHANGED <<toBroker, queue>>,
         senderCredit' = senderCredit \/ senderCredit' = Credit
  PROVE  Expected'
<1>1. senderCredit \in Int /\ Credit \in Int /\ senderCredit <= Credit
  BY BrokerAssumption, SMT DEF IInv, TypeOK, BrokerTypeOK
<1>2. \A k \in Int : /\ senderCredit > k => Credit > k
                     /\ senderCredit >= k => Credit >= k
  BY <1>1, SMT
<1>3. LastSent \in Int
  BY NewScript, SMT DEF LastSent, IInv, TypeOK, ClientTypeOK
<1>4. Credit - LastSent \in Int /\ \A i \in 1..Len(toBroker) : Credit - toBroker[i].id \in Int
  BY <1>1, <1>3, Identities DEF IInv
<1>5. LastSent' = LastSent /\ (AttachUnderWay' <=> AttachUnderWay)
      /\ \A i \in 1..Len(toBroker) : AttachAhead(i)' <=> AttachAhead(i)
  BY DEF LastSent, client, AttachUnderWay, AttachAhead
<1> QED  BY <1>2, <1>4, <1>5 DEF Expected, client

\* A transfer uses up one credit: its own.
LEMMA ReadTransfer ==
  ASSUME IInv, Requested, Expected, UNCHANGED client, OnTransfer
  PROVE  Expected'
<1>1. /\ toBroker # <<>> /\ toBroker' = Tail(toBroker) /\ queue' = queue
      /\ Head(toBroker).kind = "transfer"
  BY DEF OnTransfer, Reads, Sends
<1>2. 1 \in 1..Len(toBroker) /\ toBroker[1].kind = "transfer"
  BY <1>1, First DEF IInv, TypeOK
<1>3. /\ senderCredit \in Int /\ Credit \in Int /\ LastSent \in Int
      /\ \A i \in 1..Len(toBroker) : toBroker[i].id \in Int
  <2>1. senderCredit \in Int /\ Credit \in Int
    BY BrokerAssumption, SMT DEF IInv, TypeOK, BrokerTypeOK
  <2>2. LastSent \in Int
    BY NewScript, SMT DEF LastSent, IInv, TypeOK, ClientTypeOK
  <2> QED  BY <2>1, <2>2, Identities DEF IInv
<1> DEFINE c == toBroker[1].id
           n == senderCredit - 1
<1>4. senderCredit > Credit - c /\ c <= LastSent /\ c \in Int
  BY <1>2, <1>3 DEF Expected, Requested
<1> HIDE DEF c
<1>5. n \in Int /\ n >= Credit - LastSent
  BY <1>3, <1>4, SMT
<1>6. ASSUME NEW i \in 1..Len(toBroker), 1 < i, toBroker[i].kind = "transfer"
      PROVE  n > Credit - toBroker[i].id
  <2>1. c < toBroker[i].id
    BY <1>2, <1>6 DEF Requested, c
  <2> DEFINE d == toBroker[i].id
  <2>2. d \in Int /\ c < d
    BY <1>3, <2>1
  <2> HIDE DEF d
  <2>3. n > Credit - d
    BY <1>3, <1>4, <2>2, SMT
  <2> QED  BY <2>3 DEF d
<1>7. n = senderCredit'
  BY DEF OnTransfer
<1> HIDE DEF n
<1> QED  BY <1>1, <1>2, <1>5, <1>6, <1>7, ReadOne

LEMMA LegalBroker ==
  ASSUME IInv, LossInv, Requested, LegalInv, UNCHANGED <<client, quiet>>, BrokerNext,
         "refuse_link" \notin Faults, MaxCalls <= Credit
  PROVE  LegalInv'
<1>1. WireTypeOK /\ pc' = pc /\ (link' = "up" => link = "up")
  BY BrokerLink DEF IInv, TypeOK, client
<1>2. pc \in {"ready", "call"} => stage \in {"links", "ended"} /\ senderLink
  BY DEF IInv, LockInv, AfterNew, Answered, LegalInv
<1>3. ~Reject
  <2> SUFFICES ASSUME Reject PROVE FALSE
    OBVIOUS
  <2>1. link = "up" /\ toBroker # <<>> /\ ~Legal /\ stage' = "rejected" /\ stage # "ended"
    BY DEF Reject, Legal
  <2>2. CASE pc = "start"
    BY <1>1, <2>1, <2>2, EmptySeq DEF IInv, LockInv, StartInv, Empty, WireTypeOK
  <2>3. CASE pc = "new"
    <3>1. IInv'
      BY Inductive DEF Next
    <3> QED  BY <1>1, <2>1, <2>3, <3>1 DEF IInv, LockInv, NewFresh
  <2>4. CASE pc \in {"ready", "call"}
    BY <1>2, <2>1, <2>4, FirstIsLegal DEF LegalInv
  <2>5. CASE pc = "failed"
    BY <2>1, <2>5 DEF LegalInv
  <2>6. CASE pc = "panicked"
    BY <2>1, <2>6 DEF LossInv
  <2> QED  BY <2>2, <2>3, <2>4, <2>5, <2>6 DEF IInv, TypeOK, ClientTypeOK
<1>4. stage' # "rejected"
  BY <1>3 DEF LegalInv, BrokerNext, BrokerReads, BrokerWorks, Settle, Execute, Deliver,
     Replenish, Disconnect, OnSaslHeader, OnInit, OnInitRefuse, OnAmqpHeader, OnOpen,
     OnBegin, OnAttachSender, OnAttachReceiver, OnFlow, OnTransfer, Discard, broker
<1>5. ASSUME pc \in {"ready", "call"}, link' = "up", stage' = "links" PROVE Expected'
  <2>1. link = "up" /\ stage = "links" /\ senderLink
    BY <1>1, <1>2, <1>5, BrokerLink
  <2>2. Expected
    BY <1>5, <2>1 DEF LegalInv
  <2>3. \/ OnAttachReceiver \/ OnFlow \/ OnTransfer \/ Replenish
        \/ \E c \in Calls : Settle(c) \/ Execute(c) \/ Deliver(c)
    <3>1. ~OnAttachSender
      BY <2>1, <2>2, FirstIsLegal DEF OnAttachSender, Reads
    <3>2. ~OnInitRefuse /\ ~Disconnect
      BY <1>5 DEF OnInitRefuse, Disconnect
    <3> QED  BY <1>3, <2>1, <3>1, <3>2
             DEF BrokerNext, BrokerReads, BrokerWorks, OnSaslHeader, OnInit,
                 OnAmqpHeader, OnOpen, OnBegin, Discard
  <2>4. CASE OnAttachReceiver
    <3>1. toBroker # <<>> /\ toBroker' = Tail(toBroker) /\ senderCredit' = senderCredit
      BY <2>4 DEF OnAttachReceiver, Reads, Sends
    <3>2. Head(toBroker).id # 0
      <4>1. Head(toBroker) \in ToBrokerFrames /\ Head(toBroker).kind = "attach_receiver"
        BY <1>1, <2>4, <3>1, HeadTailProperties DEF OnAttachReceiver, Reads, WireTypeOK
      <4>2. Head(toBroker).id \in Calls
        BY <4>1 DEF ToBrokerFrames, HandshakeKinds
      <4> QED  BY <4>2, MaxCallsAssumption, SMT DEF Calls
    <3>3. queue' # 0
      BY <1>5, <2>4, <3>2 DEF OnAttachReceiver
    <3> QED  BY <2>2, <3>1, <3>3, ReadAttach
  <2>5. CASE OnFlow
    <3>1. /\ toBroker # <<>> /\ toBroker' = Tail(toBroker)
          /\ queue' = queue /\ senderCredit' = senderCredit
          /\ Head(toBroker).kind = "flow"
      BY <2>5 DEF OnFlow, Reads, Sends
    <3>2. toBroker[1].kind = "flow"
      BY <1>1, <3>1, First
    <3>3. queue # 0
      BY <2>5 DEF OnFlow
    <3> QED  BY <2>2, <3>1, <3>3, ReadAttach
  <2>6. CASE OnTransfer
    BY <2>2, <2>6, ReadTransfer
  <2>7. CASE Replenish \/ \E c \in Calls : Settle(c) \/ Execute(c) \/ Deliver(c)
    <3>1. UNCHANGED <<toBroker, queue>> /\ (senderCredit' = senderCredit \/ senderCredit' = Credit)
      BY <2>7 DEF Replenish, Settle, Execute, Deliver, Push, links, wire
    <3> QED  BY <2>2, <3>1, ReadNone
  <2> QED  BY <2>3, <2>4, <2>5, <2>6, <2>7
<1> QED  BY <1>1, <1>4, <1>5 DEF LegalInv

-----------------------------------------------------------------------------
\* The client's steps.

\* new() returns with nothing under way to the broker and all of the credit.
LEMMA ExpectedFirst ==
  ASSUME IInv, pc = "new", link = "up", Receive, pc' = "ready",
         UNCHANGED broker, "refuse_link" \notin Faults
  PROVE  Expected'
<1>1. Lockstep /\ Fresh
  BY DEF IInv, LockInv, NewLockstep, NewFresh
<1>2. step = 14 /\ calls' = calls /\ step' = 1
  <2>1. Advance
    BY DEF Receive, Abort
  <2>2. Script = New
    BY DEF Script
  <2>3. step \in 1..14 /\ ~(step < 14)
    BY <2>1, <2>2, NewScript DEF Advance, IInv, TypeOK, ClientTypeOK
  <2> QED  BY <2>1, <2>2, <2>3, NewScript, SMT DEF Advance
<1>3. Answered /\ Empty
  BY <1>1, <1>2, SMT DEF Lockstep
<1>4. toBroker' = toBroker /\ UNCHANGED <<queue, senderCredit>> /\ calls = 0 /\ senderCredit = Credit
  BY <1>1, <1>3 DEF Receive, PollFrame, PollErr, PollNone, broker, Answered, Fresh
<1>5. \A i : ~(i \in 1..0)
  BY SMT
<1>6. LastSent' = 0
  BY <1>2, <1>4 DEF LastSent
<1>7. Credit >= Credit - 0
  BY BrokerAssumption, SMT
<1> QED  BY <1>3, <1>4, <1>5, <1>6, <1>7 DEF Expected, Empty

LEMMA ExpectedNext ==
  ASSUME IInv, Expected, pc \in {"ready", "call"}, pc' \in {"ready", "call"},
         link' = "up", UNCHANGED broker,
         Transmit \/ Receive \/ TakeReply \/ Cancel \/ StartCall
  PROVE  Expected'
<1>0. PICK n : n = LastSent'
  OBVIOUS
<1>1. /\ n \in Int /\ LastSent \in Int /\ LastSent <= n
      /\ Transmit /\ pc = "call" /\ Script[step].kind = "transfer" =>
           LastSent = calls - 1 /\ n = calls
  BY <1>0, Counted DEF IInv
<1>2. senderCredit \in Int /\ Credit \in Int
  BY BrokerAssumption, SMT DEF IInv, TypeOK, BrokerTypeOK
<1>3. senderCredit >= Credit - n
  <2>1. senderCredit >= Credit - LastSent
    BY DEF Expected
  <2>2. n \in Int /\ LastSent \in Int /\ LastSent <= n
    BY <1>1
  <2> QED  BY <1>2, <2>1, <2>2, SMT
<1>4. UNCHANGED <<queue, senderCredit>>
  BY DEF broker
<1>5. pc = "call" => step \in 1..6 /\ Script = Call
  BY CallScript DEF IInv, TypeOK, ClientTypeOK, Script
<1>6. CASE Transmit
  <2> DEFINE f == Frame(Script[step].kind, calls)
  <2>0. PICK m : m = Len(toBroker)
    OBVIOUS
  <2>1. pc = "call" /\ step \in {1, 3, 4} /\ Running("send")
    <3>1. pc = "call" /\ Running("send") /\ Script[step].op = "send"
      BY <1>6 DEF Transmit, Running
    <3> QED  BY <1>5, <3>1, CallScript, SMT DEF Tx, Rx, Unwrapped, PollNext
  <2>2. toBroker' = Append(toBroker, f)
    BY <1>6, <2>1 DEF Transmit, SendOk, SendErr
  <2>3. /\ step = 1 => Script[step].kind = "attach_receiver"
        /\ step = 3 => Script[step].kind = "flow"
        /\ step = 4 => Script[step].kind = "transfer"
    BY <1>5, <2>1, CallScript, SMT DEF Tx, Unwrapped
  <2>4. f.kind = "transfer" => senderCredit > Credit - f.id
    <3>1. ASSUME f.kind = "transfer" PROVE LastSent = calls - 1 /\ f.id = calls /\ calls \in Int
      BY <1>1, <1>6, <2>1, <3>1, CallScript, MaxCallsAssumption
         DEF Frame, IInv, TypeOK, ClientTypeOK
    <3>2. senderCredit >= Credit - LastSent
      BY DEF Expected
    <3> HIDE DEF f
    <3>3. LastSent \in Int
      BY <1>1
    <3> QED  BY <1>2, <3>1, <3>2, <3>3, SMT
  <2>5. f.kind = Script[step].kind
    BY DEF Frame
  <2> HIDE DEF f
  <2>6. /\ m \in Nat /\ Len(toBroker') = m + 1 /\ toBroker'[m + 1] = f
        /\ \A i \in 1..m : toBroker'[i] = toBroker[i] /\ i \in 1..m+1 /\ i < m + 1
        /\ \A i \in 1..m+1 : i \in 1..m \/ i = m + 1
        /\ m + 1 \in 1..m+1
    BY <2>0, <2>2, SMT DEF IInv, TypeOK, WireTypeOK
  <2>7. \A i \in 1..m : AttachAhead(i) => AttachAhead(i)'
    BY <2>0, <2>6 DEF AttachAhead
  <2>8. AttachUnderWay => AttachUnderWay' /\ AttachAhead(m + 1)'
    <3>1. ASSUME AttachUnderWay
          PROVE  \E j \in 1..m+1 : j < m + 1 /\ toBroker'[j].kind = "attach_receiver"
      BY <2>0, <2>6, <3>1 DEF AttachUnderWay
    <3> QED  BY <2>6, <3>1 DEF AttachUnderWay, AttachAhead
  <2>9. step >= 2 => queue # 0 \/ AttachUnderWay
    BY <2>1 DEF Expected
  <2>10. queue # 0 \/ AttachUnderWay'
    <3>1. CASE step = 1
      BY <2>3, <2>5, <2>6, <3>1 DEF AttachUnderWay
    <3>2. CASE step # 1
      <4>1. step >= 2
        BY <2>1, <3>2, SMT
      <4> QED  BY <2>8, <2>9, <4>1
    <3> QED  BY <3>1, <3>2
  <2>11. f.kind = "flow" => queue # 0 \/ AttachAhead(m + 1)'
    <3>1. ASSUME f.kind = "flow" PROVE step >= 2
      BY <2>1, <2>3, <2>5, <3>1, SMT
    <3> QED  BY <2>8, <2>9, <3>1
  <2>12. f.kind \in {"attach_receiver", "flow", "transfer"}
    BY <2>1, <2>3, <2>5
  <2>13. ASSUME NEW i \in 1..m+1
         PROVE  /\ toBroker'[i].kind \in {"attach_receiver", "flow", "transfer"}
                /\ toBroker'[i].kind = "flow" => queue # 0 \/ AttachAhead(i)'
                /\ toBroker'[i].kind = "transfer" => senderCredit > Credit - toBroker'[i].id
    <3>1. CASE i \in 1..m
      BY <2>0, <2>6, <2>7, <3>1 DEF Expected
    <3>2. CASE i = m + 1
      <4>1. toBroker'[i] = f
        BY <2>6, <3>2
      <4> QED  BY <2>4, <2>11, <2>12, <3>2, <4>1
    <3> QED  BY <2>6, <3>1, <3>2
  <2> QED  BY <1>0, <1>3, <1>4, <2>0, <2>6, <2>10, <2>13 DEF Expected
<1>7. CASE ~Transmit
  <2>1. toBroker' = toBroker
    BY <1>7 DEF Receive, TakeReply, Cancel, StartCall, PollFrame, PollErr, PollNone, wire
  <2>2. pc' = "call" /\ step' >= 2 => pc = "call" /\ step >= 2
    <3>1. CASE StartCall
      BY <3>1 DEF StartCall, IInv, StepsOK
    <3>2. CASE Receive
      <4>1. pc = "call" /\ step \in {2, 5}
        <5>1. pc = "call" /\ Script[step].op = "recv"
          BY <3>2 DEF Receive, Running
        <5> QED  BY <1>5, <5>1, CallScript, SMT DEF Tx, Rx, Unwrapped, PollNext
      <4>2. step >= 2
        BY <4>1, SMT
      <4> QED  BY <4>1, <4>2
    <3>3. CASE TakeReply \/ Cancel
      BY <3>3 DEF TakeReply, Return, Cancel
    <3> QED  BY <1>7, <3>1, <3>2, <3>3
  <2>3. (AttachUnderWay' <=> AttachUnderWay)
        /\ \A i \in 1..Len(toBroker) : AttachAhead(i)' <=> AttachAhead(i)
    BY <2>1 DEF AttachUnderWay, AttachAhead
  <2> QED  BY <1>0, <1>3, <1>4, <2>1, <2>2, <2>3 DEF Expected
<1> QED  BY <1>6, <1>7

LEMMA LegalClient ==
  ASSUME IInv, LegalInv, UNCHANGED broker, "refuse_link" \notin Faults,
         Connect \/ Transmit \/ Receive \/ TakeReply \/ Cancel \/ StartCall
  PROVE  LegalInv'
<1>1. stage' = stage
  BY DEF broker
<1>2. link' = "up" => link = "up"
  BY DEF Connect, Transmit, Receive, TakeReply, Cancel, StartCall, SendOk, SendErr,
         PollFrame, PollErr, PollNone, wire
<1>3. ASSUME pc' = "failed", link' = "up" PROVE FALSE
  <2>1. CASE Connect
    BY <1>3, <2>1 DEF Connect, wire
  <2>2. CASE Transmit
    <3>1. pc \in {"new", "call"} /\ ~SendErr
      BY <1>3, <2>2 DEF Transmit, Running, SendErr
    <3> QED  BY <1>3, <2>2, <3>1 DEF Transmit, Advance
  <2>3. CASE Receive
    <3>1. pc \in {"new", "call"} /\ PollNone /\ Abort
      BY <1>3, <2>3 DEF Receive, Running, Advance
    <3>2. pc = "new"
      BY <1>3, <3>1 DEF Abort, Return
    <3>3. errored
      BY <1>2, <1>3, <3>1 DEF PollNone
    <3> QED  BY <1>2, <1>3, <3>2, <3>3 DEF IInv, LockInv, NewLockstep
  <2>4. CASE TakeReply \/ Cancel \/ StartCall
    BY <1>3, <2>4 DEF TakeReply, Return, Cancel, StartCall
  <2> QED  BY <2>1, <2>2, <2>3, <2>4
<1>4. ASSUME pc' \in {"ready", "call"}, link' = "up", stage' = "links" PROVE Expected'
  <2>1. CASE pc = "new"
    <3>1. ~Connect /\ ~Cancel /\ ~StartCall /\ ~TakeReply
      <4>1. ~Running("next")
        BY <2>1, NewScript, NewSteps DEF IInv, TypeOK, ClientTypeOK
      <4> QED  BY <2>1, <4>1 DEF Connect, Cancel, StartCall, TakeReply
    <3>2. pc' = "ready"
      BY <1>4, <2>1, <3>1 DEF Transmit, Receive, Advance, Abort
    <3>3. Script = New /\ step \in 1..14
      BY <2>1, NewScript DEF Script, IInv, TypeOK, ClientTypeOK
    <3>4. ~Transmit
      <4> SUFFICES ASSUME Transmit PROVE FALSE
        OBVIOUS
      <4>1. step < 14
        BY <2>1, <3>3, NewSteps, SMT DEF Transmit, SendSteps
      <4> QED  BY <2>1, <3>2, <3>3, <4>1, NewScript DEF Transmit, Advance, Abort
    <3> QED  BY <1>2, <1>4, <2>1, <3>1, <3>2, <3>4, ExpectedFirst
  <2>2. CASE pc # "new"
    <3>1. ~Connect
      BY <1>4 DEF Connect
    <3>2. pc \in {"ready", "call"}
      BY <2>2, <3>1 DEF Transmit, Receive, TakeReply, Cancel, StartCall, Running
    <3>3. Expected
      BY <1>1, <1>2, <1>4, <3>2 DEF LegalInv
    <3> QED  BY <1>4, <3>1, <3>2, <3>3, ExpectedNext
  <2> QED  BY <2>1, <2>2
<1> QED  BY <1>1, <1>3, <1>4 DEF LegalInv

LEMMA LegalNext ==
  ASSUME IInv, LossInv, Requested, LegalInv, [Next]_vars,
         "refuse_link" \notin Faults, MaxCalls <= Credit
  PROVE  LegalInv'
<1>1. CASE UNCHANGED vars
  <2>1. UNCHANGED <<stage, pc, link, toBroker, queue, senderCredit, step, calls>>
    BY <1>1 DEF vars, wire, client, broker
  <2> QED  BY <2>1 DEF LegalInv, Expected, AttachAhead, AttachUnderWay, LastSent
<1>2. CASE Next
  BY <1>1, <1>2, LegalClient, LegalBroker DEF Next, Stopped
<1> QED  BY <1>1, <1>2

\* The client never sends a frame the broker's state does not allow, provided
\* that its sender link was not refused and that the credit first granted is
\* enough for the calls made: nothing in the client counts credit.
THEOREM LegalFrames ==
  ASSUME "refuse_link" \notin Faults, MaxCalls <= Credit
  PROVE  Spec => []NeverRejected
<1> DEFINE Inv == TypeOK /\ StepsOK /\ IInv /\ LossInv /\ RealInv /\ LegalInv
<1>1. Init => Inv
  BY TypeInit, LockInit, LossInit, RealInit, LegalInit DEF IInv
<1>2. Inv /\ [Next]_vars => Inv'
  BY Inductive, TypeNext, LossNext, RealNext, LegalNext DEF RealInv
<1>3. Inv => NeverRejected
  BY DEF LegalInv, NeverRejected
<1> HIDE DEF Inv
<1> QED  BY <1>1, <1>2, <1>3, PTL DEF Spec

-----------------------------------------------------------------------------
(* Calls get their own replies from a broker that settles before it replies  *)
(* and is not short of credit, whatever it does with a reused link, and       *)
(* although the connection may be lost at any moment.  All of them do when    *)
(* the application drops none, and then they leave nothing behind; when it     *)
(* may drop calls, those do that start with nothing of the past under way.     *)
(* It follows that a client none of whose calls is dropped behaves, with its   *)
(* broker, step by step as RpcService.                                        *)


Orderly ==
  /\ "reorder" \notin Faults /\ "refuse_link" \notin Faults
  /\ MaxCalls + LowCredit < Credit

\* The calls whose replies are told apart: every one, or the quiet ones.
Followed == pc \in {"ready", "call"} /\ (~MayCancel \/ (pc = "call" /\ calls \in quiet))

\* Nothing is owed to the call, nor to the one whose queue the link reads.  (In
\* other queues the replies to dropped calls may wait for ever.)
Quiet ==
  /\ unsettled = {} /\ requests = {}
  /\ queue \notin replies /\ calls \notin replies

\* The node has the request of the call, or the call's queue its reply.
Waiting ==
  \/ requests = {calls} /\ calls \notin replies
  \/ requests = {} /\ calls \in replies

\* What is under way at every position of call(), the broker's progress with
\* what it was sent included: one frame for each that the client will await.
Between ==
  toBroker = <<>> /\ toClient = <<>> /\ Quiet

\* (The last disjunct: the broker has ignored the attach, and the call waits.)
Attaching ==
  /\ Quiet
  /\ \/ toBroker = <<Frame("attach_receiver", calls)>> /\ toClient = <<>>
     \/ toBroker = <<>> /\ toClient = <<Frame("attach", 0)>> /\ queue = calls
     \/ toBroker = <<>> /\ toClient = <<>>

Granting ==
  /\ Quiet /\ queue = calls /\ toClient = <<>>
  /\ toBroker = <<Frame("flow", calls)>> \/ (toBroker = <<>> /\ credited)

Requesting ==
  /\ queue = calls
  /\ \/ /\ Quiet /\ toClient = <<>>
        /\ \/ toBroker = <<Frame("flow", calls), Frame("transfer", calls)>>
           \/ toBroker = <<Frame("transfer", calls)>> /\ credited
     \/ /\ toBroker = <<>> /\ credited
        /\ \/ unsettled = {calls} /\ Waiting /\ toClient = <<>>
           \/ unsettled = {} /\ Waiting /\ toClient = <<Frame("disposition", calls)>>
           \/ Quiet /\ toClient = <<Frame("disposition", calls), Reply(calls)>>

Settled ==
  /\ queue = calls /\ toBroker = <<>> /\ credited
  /\ \/ unsettled = {} /\ Waiting /\ toClient = <<>>
     \/ Quiet /\ toClient = <<Reply(calls)>>

\* (Between calls step is 1.)
CallTable ==
  /\ step = 1 => Between
  /\ step = 2 => Attaching
  /\ step = 3 => Between /\ queue = calls
  /\ step = 4 => Granting
  /\ step = 5 => Requesting
  /\ step = 6 => Settled

\* A call on a session the broker has ended: its end frame answers the attach,
\* as a decoding error, and the next receive, at position 5, finds no more.
Ending ==
  /\ pc = "call"
  /\ \/ step \in {1, 2} /\ toClient = <<>> /\ ~errored
     \/ step = 2 /\ toClient = <<Frame("end", 0)>> /\ ~errored
     \/ step \in {3, 4, 5} /\ toClient = <<>> /\ errored

CallLockstep ==
  Followed /\ link = "up" =>
    \/ stage = "links" /\ ~errored /\ CallTable
    \/ stage = "ended" /\ Ending

\* Whatever is lost, no frame is left that the call's script will not take
\* where it belongs.
Remaining ==
  Followed =>
    /\ step # 2 => \A i \in 1..Len(toClient) : Decodable(toClient[i])
    /\ errored => toClient = <<>>
    /\ step \in {1, 3, 4} => toClient = <<>>
    /\ step = 2 => Len(toClient) <= 1
    /\ step = 5 => Len(toClient) <= 2 /\ (Len(toClient) = 2 => toClient[2] = Reply(calls))
    /\ step = 6 => Len(toClient) <= 1 /\ (Len(toClient) = 1 => toClient[1] = Reply(calls))

OwnResults ==
  \A c \in Calls : ~MayCancel \/ c \in quiet => result[c] \in {NoResult, ErrResult, Reply(c)}

\* Of a call not yet started nothing is recorded.
NoneAhead ==
  /\ \A c \in quiet : c <= calls
  /\ \A c \in Calls : c > calls => result[c] = NoResult

OwnInv == CallLockstep /\ Remaining /\ OwnResults /\ NoneAhead

-----------------------------------------------------------------------------
LEMMA OwnInit == Init => OwnInv
BY DEF Init, ClientInit, NoResult, OwnInv, CallLockstep, Remaining, Followed, OwnResults,
       NoneAhead

\* Sequences of one frame and of two.
LEMMA Short ==
  ASSUME NEW f, NEW g
  PROVE  /\ Append(<<>>, f) = <<f>>
         /\ <<>> \o <<f>> = <<f>> /\ <<>> \o <<>> = <<>>
         /\ Head(<<f>>) = f /\ Head(<<f, g>>) = f
         /\ Tail(<<f>>) = <<>> /\ Tail(<<f, g>>) = <<g>>
         /\ <<f>> # <<>> /\ <<f, g>> # <<>>
         /\ Len(<<>>) = 0 /\ Len(<<f>>) = 1 /\ Len(<<f, g>>) = 2 /\ <<f, g>>[2] = g /\ <<f>>[1] = f
<1>1. /\ <<>> \in Seq({f, g}) /\ <<f>> \in Seq({f, g}) /\ <<f, g>> \in Seq({f, g})
  OBVIOUS
<1>2. Append(<<>>, f) = <<f>>
  OBVIOUS
<1>3. <<>> \o <<f>> = <<f>> /\ <<>> \o <<>> = <<>>
  OBVIOUS
<1>4. Head(<<f>>) = f /\ Head(<<f, g>>) = f /\ Tail(<<f>>) = <<>> /\ Tail(<<f, g>>) = <<g>>
  OBVIOUS
<1>5. /\ <<f>> # <<>> /\ <<f, g>> # <<>>
      /\ Len(<<>>) = 0 /\ Len(<<f>>) = 1 /\ Len(<<f, g>>) = 2 /\ <<f, g>>[2] = g /\ <<f>>[1] = f
  OBVIOUS
<1> QED  BY <1>2, <1>3, <1>4, <1>5

LEMMA Pair ==
  ASSUME NEW f, NEW g, NEW s, s = <<f>>
  PROVE  Append(s, g) = <<f, g>>
<1> DEFINE t == Append(s, g)
           u == <<f, g>>
<1>1. s \in Seq({f, g}) /\ Len(s) = 1 /\ s[1] = f
  OBVIOUS
<1>2. t \in Seq({f, g}) /\ u \in Seq({f, g}) /\ Len(t) = 2 /\ Len(u) = 2
  BY <1>1, SMT
<1>3. \A i \in 1..2 : t[i] = u[i]
  BY <1>1, SMT
<1> HIDE DEF t, u
<1>4. t = u
  BY <1>2, <1>3, SeqEqual
<1> QED  BY <1>4 DEF t, u

\* What each action of the broker finds.
LEMMA Rows ==
  ASSUME CallTable, step \in 1..6
  PROVE  /\ Reads("attach_receiver") =>
              /\ step = 2 /\ Quiet /\ toClient = <<>>
              /\ toBroker = <<Frame("attach_receiver", calls)>>
         /\ Reads("flow") =>
              /\ Quiet /\ queue = calls /\ toClient = <<>>
              /\ \/ step = 4 /\ toBroker = <<Frame("flow", calls)>>
                 \/ step = 5 /\ toBroker = <<Frame("flow", calls), Frame("transfer", calls)>>
         /\ Reads("transfer") =>
              /\ step = 5 /\ Quiet /\ queue = calls /\ credited /\ toClient = <<>>
              /\ toBroker = <<Frame("transfer", calls)>>
         /\ unsettled # {} =>
              /\ step = 5 /\ queue = calls /\ credited /\ toBroker = <<>>
              /\ unsettled = {calls} /\ Waiting /\ toClient = <<>>
         /\ (requests # {} \/ queue \in replies) /\ unsettled = {} =>
              /\ step \in {5, 6} /\ queue = calls /\ credited /\ toBroker = <<>> /\ Waiting
              /\ toClient = IF step = 5 THEN <<Frame("disposition", calls)>> ELSE <<>>
<1>1. step \in {1, 2, 3, 4, 5, 6}
  BY SMT
<1>2. /\ Frame("attach_receiver", calls).kind = "attach_receiver"
      /\ Frame("flow", calls).kind = "flow" /\ Frame("transfer", calls).kind = "transfer"
  BY DEF Frame
<1>3. CASE step \in {1, 3}
  BY <1>3 DEF CallTable, Between, Quiet, Reads
<1>4. CASE step = 2
  BY <1>2, <1>4, Short DEF CallTable, Attaching, Quiet, Reads
<1>5. CASE step = 4
  BY <1>2, <1>5, Short DEF CallTable, Granting, Quiet, Reads
<1>6. CASE step = 5
  BY <1>2, <1>6, Short DEF CallTable, Requesting, Quiet, Reads
<1>7. CASE step = 6
  BY <1>2, <1>7, Short DEF CallTable, Settled, Quiet, Reads
<1> QED  BY <1>1, <1>3, <1>4, <1>5, <1>6, <1>7

LEMMA TableRemaining ==
  CallTable /\ step \in 1..6 /\ ~errored =>
    Remaining /\ \A i \in 1..Len(toClient) : Decodable(toClient[i])
<1> SUFFICES ASSUME CallTable, step \in 1..6, ~errored
             PROVE  Remaining /\ \A i \in 1..Len(toClient) : Decodable(toClient[i])
  OBVIOUS
<1>1. step \in {1, 3, 4} => toClient = <<>>
  BY SMT DEF CallTable, Between, Granting
<1>2. step = 2 => Len(toClient) <= 1
  <2>1. 0 <= 1 /\ 1 <= 1
    OBVIOUS
  <2> QED  BY <2>1, Short DEF CallTable, Attaching
<1>3. step = 5 => Len(toClient) <= 2 /\ (Len(toClient) = 2 => toClient[2] = Reply(calls))
  <2> DEFINE D == Frame("disposition", calls)
             R == Reply(calls)
  <2>1. step = 5 => toClient = <<>> \/ toClient = <<D>> \/ toClient = <<D, R>>
    BY DEF CallTable, Requesting
  <2>2. 0 <= 2 /\ 1 <= 2 /\ 2 <= 2 /\ 0 # 2 /\ 1 # 2
    OBVIOUS
  <2> HIDE DEF D, R
  <2>3. Len(<<>>) = 0 /\ Len(<<D>>) = 1 /\ Len(<<D, R>>) = 2 /\ <<D, R>>[2] = R
    BY Short
  <2>4. step = 5 => Len(toClient) <= 2 /\ (Len(toClient) = 2 => toClient[2] = R)
    BY <2>1, <2>2, <2>3
  <2> QED  BY <2>4 DEF R
<1>4. step = 6 => Len(toClient) <= 1 /\ (Len(toClient) = 1 => toClient[1] = Reply(calls))
  <2>1. 0 <= 1 /\ 1 <= 1 /\ 0 # 1
    OBVIOUS
  <2> QED  BY <2>1, Short DEF CallTable, Settled
<1>5. \A i \in 1..Len(toClient) : Decodable(toClient[i])
  <2> DEFINE A == Frame("attach", 0)
             D == Frame("disposition", calls)
             R == Reply(calls)
  <2>1. /\ step \in {1, 2, 3, 4, 5, 6}
        /\ \/ toClient = <<>> \/ toClient = <<A>> \/ toClient = <<D>> \/ toClient = <<R>>
           \/ toClient = <<D, R>>
    <3>1. step \in {1, 2, 3, 4, 5, 6}
      BY SMT
    <3> QED  BY <3>1 DEF CallTable, Between, Attaching, Granting, Requesting, Settled
  <2>2. Decodable(A) /\ Decodable(D) /\ Decodable(R)
    BY DEF Decodable, Frame, Reply
  <2> HIDE DEF A, D, R
  <2>3. \A i \in 1..Len(toClient) : toClient[i] \in {A, D, R}
    <3>1. CASE toClient = <<>>
      BY <3>1, SMT
    <3>2. CASE toClient = <<A>>
      BY <3>2, SMT
    <3>3. CASE toClient = <<D>>
      BY <3>3, SMT
    <3>4. CASE toClient = <<R>>
      BY <3>4, SMT
    <3>5. CASE toClient = <<D, R>>
      BY <3>5, SMT
    <3> QED  BY <2>1, <3>1, <3>2, <3>3, <3>4, <3>5
  <2> QED  BY <2>2, <2>3
<1> QED  BY <1>1, <1>2, <1>3, <1>4, <1>5 DEF Remaining

-----------------------------------------------------------------------------
\* The broker's steps during a call on a session that lasts.
LEMMA TableBroker ==
  ASSUME CallTable, step \in 1..6, UNCHANGED client, stage' = "links", Orderly,
         OnAttachReceiver \/ OnFlow \/ OnTransfer
           \/ \E c \in Calls : Settle(c) \/ Execute(c) \/ Deliver(c)
  PROVE  CallTable'
<1>0. step' = step /\ calls' = calls
  BY DEF client
<1>a. \A k : Frame(k, calls)' = Frame(k, calls) /\ Frame(k, 0)' = Frame(k, 0)
             /\ Frame(k, calls).id = calls
  BY <1>0 DEF Frame
<1>b. step = 5 => step # 1 /\ step # 2 /\ step # 3 /\ step # 4 /\ step # 6
  OBVIOUS
<1>c. step = 6 => step # 1 /\ step # 2 /\ step # 3 /\ step # 4 /\ step # 5
  OBVIOUS
<1>1. CASE OnAttachReceiver
  <2>1. /\ step = 2 /\ Quiet /\ toClient = <<>>
        /\ toBroker = <<Frame("attach_receiver", calls)>>
    BY <1>1, Rows DEF OnAttachReceiver
  <2>2. \/ queue' = Head(toBroker).id /\ Sends(<<Frame("attach", 0)>>) /\ UNCHANGED work
        \/ queue' = queue /\ Sends(<<>>) /\ UNCHANGED work
    BY <1>1, <2>1 DEF OnAttachReceiver
  <2>3. \/ toBroker' = <<>> /\ toClient' = <<Frame("attach", 0)>> /\ queue' = calls
        \/ toBroker' = <<>> /\ toClient' = <<>> /\ queue' = queue
    BY <1>a, <2>1, <2>2, Short DEF Sends
  <2>4. Quiet'
    BY <1>0, <2>1, <2>2, <2>3 DEF Quiet, work
  <2>5. Attaching'
    BY <1>0, <2>3, <2>4 DEF Attaching, Frame
  <2> QED  BY <1>0, <2>1, <2>2, <2>5 DEF CallTable
<1>2. CASE OnFlow
  <2>1. /\ Quiet /\ queue = calls /\ toClient = <<>>
        /\ \/ step = 4 /\ toBroker = <<Frame("flow", calls)>>
           \/ step = 5 /\ toBroker = <<Frame("flow", calls), Frame("transfer", calls)>>
    BY <1>2, Rows DEF OnFlow
  <2>2. /\ credited' /\ stage' = stage /\ Sends(<<>>)
        /\ queue' = queue /\ UNCHANGED work
    BY <1>2 DEF OnFlow
  <2>3. /\ toClient' = <<>> /\ queue' = calls
        /\ \/ step = 4 /\ toBroker' = <<>>
           \/ step = 5 /\ toBroker' = <<Frame("transfer", calls)>>
    <3> DEFINE F == Frame("flow", calls)
               X == Frame("transfer", calls)
    <3>1. toClient' = <<>> \o <<>> /\ toBroker' = Tail(toBroker) /\ queue' = calls
      BY <2>1, <2>2 DEF Sends
    <3>2. \/ step = 4 /\ toBroker = <<F>>
          \/ step = 5 /\ toBroker = <<F, X>>
      BY <2>1
    <3> HIDE DEF F, X
    <3>3. Tail(<<F>>) = <<>> /\ Tail(<<F, X>>) = <<X>> /\ <<>> \o <<>> = <<>>
      BY Short
    <3>4. \/ step = 4 /\ toBroker' = <<>>
          \/ step = 5 /\ toBroker' = <<X>>
      BY <3>1, <3>2, <3>3
    <3> QED  BY <3>1, <3>3, <3>4 DEF X
  <2>4. Quiet'
    BY <1>0, <2>1, <2>2 DEF Quiet, work
  <2>5. CASE step = 4
    BY <1>0, <2>2, <2>3, <2>4, <2>5 DEF CallTable, Granting
  <2>6. CASE step = 5
    <3>1. Requesting'
      BY <1>0, <2>2, <2>3, <2>4, <2>6 DEF Requesting, Frame
    <3> QED  BY <1>0, <1>b, <2>2, <2>6, <3>1 DEF CallTable
  <2> QED  BY <2>1, <2>5, <2>6
<1>3. CASE OnTransfer
  <2>1. /\ step = 5 /\ Quiet /\ queue = calls /\ credited /\ toClient = <<>>
        /\ toBroker = <<Frame("transfer", calls)>>
    BY <1>3, Rows DEF OnTransfer
  <2>2. /\ stage' = stage /\ Sends(<<>>) /\ queue' = queue /\ credited' = credited
        /\ unsettled' = unsettled \cup {Head(toBroker).id}
        /\ requests' = requests \cup {Head(toBroker).id} /\ replies' = replies
    BY <1>3 DEF OnTransfer
  <2>3. toBroker' = <<>> /\ toClient' = <<>> /\ Head(toBroker).id = calls
    BY <1>a, <2>1, <2>2, Short DEF Sends
  <2>4. unsettled' = {calls} /\ requests' = {calls} /\ replies' = replies /\ calls \notin replies
    BY <2>1, <2>2, <2>3 DEF Quiet
  <2>5. Requesting'
    BY <1>0, <2>1, <2>2, <2>3, <2>4 DEF Requesting, Waiting
  <2> QED  BY <1>0, <1>b, <2>1, <2>2, <2>5 DEF CallTable
<1>4. ASSUME NEW c \in Calls, Settle(c) PROVE CallTable'
  <2>1. c \in unsettled
    BY <1>4 DEF Settle
  <2>2. /\ step = 5 /\ queue = calls /\ credited /\ toBroker = <<>>
        /\ unsettled = {calls} /\ Waiting /\ toClient = <<>>
    BY <2>1, Rows
  <2>3. c = calls
    BY <2>1, <2>2
  <2>4. /\ toBroker' = <<>> /\ toClient' = <<Frame("disposition", calls)>> /\ unsettled' = {}
        /\ stage' = stage /\ queue' = calls /\ credited' /\ requests' = requests /\ replies' = replies
    BY <1>4, <2>2, <2>3, Short DEF Settle, Push, links
  <2>5. Waiting'
    BY <1>0, <2>2, <2>4 DEF Waiting
  <2>6. Requesting'
    BY <1>0, <2>4, <2>5 DEF Requesting, Frame
  <2> QED  BY <1>0, <1>b, <2>2, <2>4, <2>6 DEF CallTable
<1>5. ASSUME NEW c \in Calls, Execute(c) PROVE CallTable'
  <2>1. c \in requests
    BY <1>5 DEF Execute
  <2>2. /\ step \in {5, 6} /\ queue = calls /\ credited /\ toBroker = <<>> /\ Waiting
        /\ unsettled # {} => step = 5 /\ unsettled = {calls} /\ toClient = <<>>
        /\ unsettled = {} =>
             toClient = IF step = 5 THEN <<Frame("disposition", calls)>> ELSE <<>>
    BY <2>1, Rows
  <2>3. requests = {calls} /\ c = calls
    BY <2>1, <2>2 DEF Waiting
  <2>4. requests' = {} /\ calls \in replies'
    BY <1>5, <2>3 DEF Execute
  <2>5. Waiting' /\ UNCHANGED <<toBroker, toClient, unsettled, stage, queue, credited>>
    BY <1>0, <1>5, <2>4 DEF Waiting, Execute, links, wire
  <2>6. CASE step = 5
    <3>1. Requesting'
      BY <1>0, <2>2, <2>5, <2>6 DEF Requesting, Frame
    <3> QED  BY <1>0, <1>b, <2>5, <2>6, <3>1 DEF CallTable
  <2>7. CASE step = 6
    <3>1. Settled'
      BY <1>c, <2>2, <2>5, <1>0, <2>7 DEF Settled
    <3> QED  BY <1>0, <1>c, <2>5, <2>7, <3>1 DEF CallTable
  <2> QED  BY <2>2, <2>6, <2>7
<1>6. ASSUME NEW c \in Calls, Deliver(c) PROVE CallTable'
  <2>1. queue \in replies /\ queue = c /\ c \notin unsettled
    BY <1>6 DEF Deliver, Orderly
  <2>2. unsettled = {} /\ Waiting
    BY <2>1, Rows
  <2>3. /\ step \in {5, 6} /\ queue = calls /\ credited /\ toBroker = <<>>
        /\ toClient = IF step = 5 THEN <<Frame("disposition", calls)>> ELSE <<>>
    BY <2>1, <2>2, Rows
  <2>4. requests = {} /\ c = calls
    BY <2>1, <2>2, <2>3 DEF Waiting
  <2>5. /\ toBroker' = <<>> /\ toClient' = Append(toClient, Reply(calls))
        /\ stage' = stage /\ queue' = calls /\ credited'
    BY <1>6, <2>3, <2>4 DEF Deliver, Push, links, Reply
  <2>6. Quiet'
    BY <1>0, <1>6, <2>2, <2>4, <2>5 DEF Deliver, Quiet
  <2>7. CASE step = 5
    <3>1. toClient' = <<Frame("disposition", calls), Reply(calls)>>
      <4> DEFINE D == Frame("disposition", calls)
                 R == Reply(calls)
      <4>1. toClient = <<D>> /\ toClient' = Append(toClient, R)
        BY <2>3, <2>5, <2>7
      <4> HIDE DEF D, R
      <4>2. toClient' = <<D, R>>
        BY <4>1, Pair
      <4> QED  BY <4>2 DEF D, R
    <3>2. Requesting'
      BY <1>0, <2>5, <2>6, <3>1 DEF Requesting, Frame, Reply
    <3> QED  BY <1>0, <1>b, <2>5, <2>7, <3>2 DEF CallTable
  <2>8. CASE step = 6
    <3>1. toClient' = <<Reply(calls)>>
      BY <1>c, <2>3, <2>5, <2>8, Short
    <3>2. Settled'
      BY <1>0, <2>5, <2>6, <3>1 DEF Settled, Frame, Reply
    <3> QED  BY <1>0, <1>c, <2>5, <2>8, <3>2 DEF CallTable
  <2> QED  BY <2>3, <2>7, <2>8
<1> QED  BY <1>1, <1>2, <1>3, <1>4, <1>5, <1>6

\* The credit first granted outlasts the calls: the broker never tops it up.
LEMMA EnoughCredit ==
  ASSUME IInv, Expected, Orderly
  PROVE  ~Replenish
<1>1. senderCredit \in Int /\ Credit \in Int /\ LowCredit \in Int /\ MaxCalls \in Int
  BY BrokerAssumption, MaxCallsAssumption, SMT DEF IInv, TypeOK, BrokerTypeOK
<1>2. LastSent \in Int /\ LastSent <= MaxCalls
  BY NewScript, MaxCallsAssumption, SMT DEF LastSent, IInv, TypeOK, ClientTypeOK
<1>3. senderCredit >= Credit - LastSent /\ MaxCalls + LowCredit < Credit
  BY DEF Expected, Orderly
<1>4. ~(senderCredit <= LowCredit)
  BY <1>1, <1>2, <1>3, SMT
<1> QED  BY <1>4 DEF Replenish

\* Losing the connection takes frames from the end.
LEMMA Cut ==
  ASSUME WireTypeOK, Remaining, UNCHANGED <<client, quiet, errored>>,
         NEW n \in 0..Len(toClient), toClient' = SubSeq(toClient, 1, n)
  PROVE  Remaining'
<1>1. Len(toClient) \in Nat /\ n \in Nat /\ n <= Len(toClient)
  BY SMT DEF WireTypeOK
<1>2. Len(toClient') = n /\ \A i \in 1..n : toClient'[i] = toClient[i]
  BY SMT DEF WireTypeOK
<1>3. toClient = <<>> => toClient' = <<>>
  BY SMT DEF WireTypeOK
<1>4. /\ \A k \in {1, 2} : Len(toClient) <= k => n <= k
      /\ \A k \in {1, 2} : n = k /\ Len(toClient) <= k => Len(toClient) = k /\ k \in 1..n
  <2>1. \A m, k, l \in Nat : /\ l <= m /\ m <= k => l <= k
                             /\ l <= m /\ m <= k /\ l = k => m = k
    BY SMT
  <2>2. 1 \in Nat /\ 2 \in Nat /\ (n = 1 => 1 \in 1..n) /\ (n = 2 => 2 \in 1..n)
    BY <1>1, SMT
  <2> QED  BY <1>1, <2>1, <2>2
<1>5. UNCHANGED <<step, errored>> /\ Reply(calls)' = Reply(calls) /\ Followed' = Followed
  BY DEF client, Reply, Frame, Followed
<1>6. \A i \in 1..n : i \in 1..Len(toClient)
  BY <1>1, SMT
<1> QED  BY <1>2, <1>3, <1>4, <1>5, <1>6 DEF Remaining, Decodable

LEMMA OwnBroker ==
  ASSUME IInv, LegalInv, LegalInv', OwnInv, UNCHANGED <<client, quiet>>, BrokerNext, Orderly
  PROVE  OwnInv'
<1>1. /\ WireTypeOK /\ UNCHANGED <<pc, step, calls, result, quiet>> /\ Followed' = Followed
      /\ Reply(calls)' = Reply(calls)
  BY DEF IInv, TypeOK, client, Followed, Reply, Frame
<1>2. OwnResults' /\ NoneAhead'
  BY <1>1 DEF OwnInv, OwnResults, NoneAhead, Reply, Frame
<1>3. CASE ~Followed
  BY <1>1, <1>2, <1>3 DEF OwnInv, CallLockstep, Remaining
<1>4. CASE Followed /\ link # "up"
  <2>1. \E c \in Calls : Execute(c)
    BY <1>4 DEF BrokerNext, BrokerReads, BrokerWorks, OnSaslHeader, OnInit, OnInitRefuse,
       OnAmqpHeader, OnOpen, OnBegin, OnAttachSender, OnAttachReceiver, OnFlow, OnTransfer,
       Discard, Reject, Reads, Settle, Deliver, Replenish, Push, Disconnect
  <2>2. UNCHANGED <<toClient, link, errored>>
    BY <2>1 DEF Execute, wire
  <2>3. Remaining'
    BY <1>1, <2>2 DEF OwnInv, Remaining, Decodable
  <2> QED  BY <1>2, <1>4, <2>2, <2>3 DEF OwnInv, CallLockstep
<1>5. CASE Followed /\ link = "up" /\ Disconnect
  <2>1. Remaining'
    BY <1>1, <1>5, Cut DEF OwnInv, Disconnect
  <2> QED  BY <1>2, <1>5, <2>1 DEF OwnInv, CallLockstep, Disconnect
<1>6. CASE Followed /\ link = "up" /\ ~Disconnect /\ stage = "ended"
  <2>1. Discard \/ \E c \in Calls : Execute(c)
    <3>1. ~Reject
      BY DEF LegalInv, Reject
    <3> QED  BY <1>6, <3>1
             DEF BrokerNext, BrokerReads, BrokerWorks, OnSaslHeader, OnInit, OnInitRefuse,
                 OnAmqpHeader, OnOpen, OnBegin, OnAttachSender, OnAttachReceiver, OnFlow,
                 OnTransfer, Settle, Deliver, Replenish, Push
  <2>2. UNCHANGED <<stage, link, errored>> /\ toClient' = toClient
    <3>1. Sends(<<>>) => toClient' = toClient
      BY <1>1, SMT DEF Sends, WireTypeOK
    <3> QED  BY <2>1, <3>1 DEF Discard, Sends, Execute, wire, broker
  <2>3. Ending /\ Ending'
    BY <1>1, <1>6, <2>2 DEF OwnInv, CallLockstep, Ending, Frame
  <2>4. Remaining'
    BY <1>1, <2>2 DEF OwnInv, Remaining, Decodable
  <2> QED  BY <1>2, <1>6, <2>2, <2>3, <2>4 DEF OwnInv, CallLockstep
<1>7. CASE Followed /\ link = "up" /\ ~Disconnect /\ stage # "ended"
  <2>1. /\ ~errored /\ stage = "links" /\ CallTable /\ senderLink /\ Expected
        /\ MaxCalls <= Credit
    <3>1. MaxCalls <= Credit
      BY BrokerAssumption, MaxCallsAssumption, SMT DEF Orderly
    <3> QED  BY <1>7, <3>1
             DEF OwnInv, CallLockstep, IInv, LockInv, AfterNew, Answered, LegalInv, Orderly, Followed
  <2>2. step \in 1..6
    <3>1. 1 \in 1..6
      BY SMT
    <3> QED  BY <1>7, <3>1, CallScript DEF IInv, StepsOK, TypeOK, ClientTypeOK, Followed
  <2>3. \/ OnAttachReceiver \/ OnFlow \/ OnTransfer
        \/ \E c \in Calls : Settle(c) \/ Execute(c) \/ Deliver(c)
    <3>1. ~Replenish
      BY <2>1, EnoughCredit
    <3>2. ~OnAttachSender
      BY <1>7, <2>1, FirstIsLegal DEF OnAttachSender, Reads
    <3>3. ~Reject
      BY DEF LegalInv, Reject
    <3> QED  BY <1>7, <2>1, <3>1, <3>2, <3>3
             DEF BrokerNext, BrokerReads, BrokerWorks, OnSaslHeader, OnInit,
                 OnAmqpHeader, OnOpen, OnBegin, Discard, OnInitRefuse
  <2>4. step' \in 1..6 /\ ~errored'
    BY <1>1, <2>1, <2>2, BrokerLink
  <2>5. CASE stage' = "links"
    <3>1. CallTable'
      BY <2>1, <2>2, <2>3, <2>5, TableBroker
    <3>2. (CallTable /\ step \in 1..6 /\ ~errored => Remaining)'
      BY TableRemaining, PTL
    <3>3. Remaining'
      BY <2>4, <3>1, <3>2
    <3> QED  BY <1>2, <2>4, <2>5, <3>1, <3>3 DEF OwnInv, CallLockstep
  <2>6. CASE stage' # "links"
    <3>1. OnAttachReceiver /\ stage' = "ended" /\ Sends(<<Frame("end", 0)>>)
      BY <2>1, <2>3, <2>6 DEF OnAttachReceiver, OnFlow, OnTransfer, Settle, Execute, Deliver
    <3>2. step = 2 /\ toClient = <<>> /\ pc = "call"
      <4>1. step = 2 /\ toClient = <<>>
        BY <2>1, <2>2, <3>1, Rows DEF OnAttachReceiver
      <4> QED  BY <1>7, <4>1 DEF IInv, StepsOK, Followed
    <3>3. toClient' = <<Frame("end", 0)>>
      BY <3>1, <3>2, Short DEF Sends
    <3>4. Ending'
      BY <1>1, <2>4, <3>2, <3>3 DEF Ending, Frame
    <3>5. Remaining'
      <4>1. 1 <= 1 /\ 2 \notin {1, 3, 4} /\ 2 # 5 /\ 2 # 6 /\ step' = 2
        BY <1>1, <3>2
      <4> QED  BY <2>4, <3>3, <4>1, Short DEF Remaining
    <3> QED  BY <1>2, <3>1, <3>4, <3>5 DEF OwnInv, CallLockstep
  <2> QED  BY <2>5, <2>6
<1> QED  BY <1>3, <1>4, <1>5, <1>6, <1>7

-----------------------------------------------------------------------------
\* The client's steps.

\* new() returns with everything received, and the broker at rest.
LEMMA OwnFirst ==
  ASSUME IInv, pc = "new", pc' = "ready", Receive, UNCHANGED broker, Orderly
  PROVE  CallLockstep' /\ Remaining' /\ result' = result
<1>1. (PollFrame \/ PollErr) /\ Advance /\ Script = New /\ step = 14
  <2>1. (PollFrame \/ PollErr) /\ Advance /\ Script = New
    BY DEF Receive, Abort, Script
  <2>2. step \in 1..14 /\ ~(step < 14)
    BY <2>1, NewScript DEF Advance, IInv, TypeOK, ClientTypeOK
  <2> QED  BY <2>1, <2>2, SMT
<1>2. step' = 1 /\ result' = result /\ calls' = calls
  BY <1>1, NewScript, SMT DEF Advance
<1>3. Owed = 7 + Len(toClient) /\ Owed <= Sent + (IF errored THEN 1 ELSE 0)
  <2>1. Received(step) = 7
    BY <1>1, Counting, SMT
  <2> QED  BY <2>1 DEF Owed, IInv, LockInv, NewBound
<1>4. WireTypeOK /\ Sent \in {0, 2, 3, 4, 5, 6, 8} /\ Len(toClient) \in Nat
  BY SentNumber DEF IInv, TypeOK, WireTypeOK
<1>5. ~errored => Len(toClient) <= 1
  <2> PICK o : o = Owed
    OBVIOUS
  <2> PICK q : q = Sent
    OBVIOUS
  <2> QED  BY <1>3, <1>4, SMT
<1>6. toClient # <<>> /\ toClient' = Tail(toClient) /\ ~errored => toClient' = <<>>
  <2> SUFFICES ASSUME toClient # <<>>, toClient' = Tail(toClient), ~errored
               PROVE  toClient' = <<>>
    OBVIOUS
  <2> QED  BY <1>4, <1>5, SMT DEF WireTypeOK
<1>7. toClient' = <<>>
  BY <1>1, <1>6 DEF PollFrame, PollErr
<1>8. Remaining'
  <2>1. \A i : ~(i \in 1..0)
    BY SMT
  <2>2. 1 \in {1, 3, 4} /\ 1 # 2 /\ 1 # 5 /\ 1 # 6
    OBVIOUS
  <2> QED  BY <1>2, <1>7, <2>1, <2>2, Short DEF Remaining
<1>9. ASSUME link' = "up" PROVE ~errored' /\ stage' = "links" /\ CallTable'
  <2>1. link = "up"
    BY <1>1, <1>9 DEF PollFrame, PollErr
  <2>2. Lockstep /\ Fresh /\ \A i \in 1..Len(toClient) : Decodable(toClient[i])
    BY <2>1 DEF IInv, LockInv, NewLockstep, NewFresh
  <2>3. toClient # <<>> => Decodable(Head(toClient))
    <3>1. toClient # <<>> => 1 \in 1..Len(toClient) /\ Head(toClient) = toClient[1]
      BY <1>4, SMT DEF WireTypeOK
    <3> QED  BY <2>2, <3>1
  <2>4. ~errored' /\ toBroker' = toBroker
    BY <1>1, <1>9, <2>1, <2>3 DEF PollFrame, PollErr
  <2>5. stage = "links" /\ Empty
    BY <1>1, <2>2, SMT DEF Lockstep
  <2>6. toBroker = <<>>
    BY <1>4, <2>5, EmptySeq DEF Empty, WireTypeOK
  <2>7. Between' /\ stage' = "links"
    BY <1>7, <2>2, <2>4, <2>5, <2>6 DEF Between, Quiet, Fresh, broker
  <2>8. 1 # 2 /\ 1 # 3 /\ 1 # 4 /\ 1 # 5 /\ 1 # 6
    OBVIOUS
  <2> QED  BY <1>2, <2>4, <2>7, <2>8 DEF CallTable
<1> QED  BY <1>2, <1>8, <1>9 DEF CallLockstep

\* One poll of the transport, at any position of call().
LEMMA Taken ==
  ASSUME WireTypeOK, Remaining, Followed, pc = "call", PollFrame \/ PollErr \/ PollNone
  PROVE  /\ \A i \in 1..Len(toClient') : Decodable(toClient'[i])
         /\ errored' => toClient' = <<>>
         /\ ~PollFrame => toClient' = <<>>
         /\ step \in {2, 6} => toClient' = <<>>
         /\ step = 5 => Len(toClient') <= 1 /\ (Len(toClient') = 1 => toClient'[1] = Reply(calls))
         /\ step = 6 /\ PollFrame => Head(toClient) = Reply(calls)
         /\ ~errored /\ link' = "up" /\ (\A i \in 1..Len(toClient) : Decodable(toClient[i])) =>
              PollFrame /\ link = "up"
<1>1. /\ step # 2 => \A i \in 1..Len(toClient) : Decodable(toClient[i])
      /\ errored => toClient = <<>>
      /\ step \in {2, 6} => Len(toClient) <= 1
      /\ step = 5 => Len(toClient) <= 2 /\ (Len(toClient) = 2 => toClient[2] = Reply(calls))
      /\ step = 6 => (Len(toClient) = 1 => toClient[1] = Reply(calls))
  BY DEF Remaining
<1>2. \A i : ~(i \in 1..0)
  BY SMT
<1>3. CASE PollFrame
  <2>1. toClient # <<>> /\ toClient' = Tail(toClient) /\ ~errored' /\ link' = link
    BY <1>3 DEF PollFrame
  <2>2. /\ 1 \in 1..Len(toClient) /\ Head(toClient) = toClient[1]
        /\ Len(toClient') = Len(toClient) - 1 /\ Len(toClient) \in Nat
        /\ \A i \in 1..Len(toClient') :
             i + 1 \in 1..Len(toClient) /\ toClient'[i] = toClient[i + 1]
    BY <2>1, Polling
  <2>3. /\ Len(toClient) <= 1 => Len(toClient) = 1 /\ Len(toClient') = 0
        /\ Len(toClient) <= 2 => Len(toClient') <= 1
        /\ Len(toClient') = 1 => Len(toClient) = 2 /\ 1 \in 1..Len(toClient') /\ 1 + 1 = 2
    <3>1. \A m, k \in Int : /\ 1 <= m /\ k = m - 1 /\ m <= 1 => m = 1 /\ k = 0
                            /\ k = m - 1 /\ m <= 2 => k <= 1
                            /\ k = m - 1 /\ k = 1 => m = 2 /\ 1 \in 1..k /\ 1 + 1 = 2
      BY SMT
    <3>2. Len(toClient) \in Int /\ Len(toClient) - 1 \in Int /\ 1 <= Len(toClient)
      BY <2>2, SMT
    <3> QED  BY <2>2, <3>1, <3>2
  <2>4. Len(toClient') = 0 => toClient' = <<>>
    BY <2>1, SMT DEF WireTypeOK
  <2>6. step \in {2, 6} => toClient' = <<>>
    BY <1>1, <2>3, <2>4
  <2>5. \A i \in 1..Len(toClient') : Decodable(toClient'[i])
    BY <1>1, <1>2, <2>2, <2>6, Short
  <2>7. step = 5 => Len(toClient') <= 1 /\ (Len(toClient') = 1 => toClient'[1] = Reply(calls))
    <3>1. Len(toClient') = 1 => toClient'[1] = toClient[2]
      BY <2>2, <2>3
    <3> QED  BY <1>1, <2>3, <3>1
  <2>8. step = 6 => Head(toClient) = Reply(calls)
    BY <1>1, <2>2, <2>3
  <2> QED  BY <1>3, <2>1, <2>5, <2>6, <2>7, <2>8
<1>4. CASE ~PollFrame
  <2>1. toClient # <<>> => 1 \in 1..Len(toClient) /\ Head(toClient) = toClient[1]
    BY SMT DEF WireTypeOK
  <2>2. step # 2 => toClient' = <<>>
    BY <1>1, <1>4, <2>1 DEF PollErr, PollNone
  <2>3. step = 2 => toClient' = <<>>
    <3>1. Len(toClient) <= 1 => Tail(toClient) = <<>> \/ toClient = <<>>
      BY SMT DEF WireTypeOK
    <3> QED  BY <1>1, <1>4, <3>1 DEF PollErr, PollNone
  <2>4. ~errored /\ (\A i \in 1..Len(toClient) : Decodable(toClient[i])) => link' # "up"
    BY <1>4, <2>1 DEF PollErr, PollNone
  <2>5. Len(<<>>) = 0 /\ 0 <= 1 /\ 0 # 1
    BY Short
  <2> QED  BY <1>2, <1>4, <2>2, <2>3, <2>4, <2>5
<1> QED  BY <1>3, <1>4

\* Where in call() which step is taken, and where it leads.
LEMMA CallMoves ==
  ASSUME IInv, pc = "call"
  PROVE  /\ Transmit => step \in {1, 3, 4}
         /\ Receive => step \in {2, 5}
         /\ TakeReply => step = 6
         /\ step = 1 => Script[step].kind = "attach_receiver"
         /\ step = 3 => Script[step].kind = "flow"
         /\ step = 4 => Script[step].kind = "transfer"
         /\ Advance /\ step < 6 => pc' = "call" /\ UNCHANGED <<calls, result>> /\ step' = step + 1
         /\ Abort => (pc' = "panicked" /\ UNCHANGED result) \/ Return(ErrResult)
         /\ Abort /\ step = 5 => pc' = "panicked"
<1>1. Script = Call /\ step \in 1..6
  BY CallScript DEF Script, IInv, TypeOK, ClientTypeOK
<1>2. Running("send") => step \in {1, 3, 4}
  BY <1>1, CallScript, SMT DEF Running, Tx, Rx, Unwrapped, PollNext
<1>3. Running("recv") => step \in {2, 5}
  BY <1>1, CallScript, SMT DEF Running, Tx, Rx, Unwrapped, PollNext
<1>4. Running("next") => step = 6
  BY <1>1, CallSteps
<1>5. /\ step = 1 => Script[step].kind = "attach_receiver"
      /\ step = 3 => Script[step].kind = "flow"
      /\ step = 4 => Script[step].kind = "transfer"
  BY <1>1, CallScript, SMT DEF Tx, Unwrapped
<1>6. Advance /\ step < 6 => pc' = "call" /\ UNCHANGED <<calls, result>> /\ step' = step + 1
  BY <1>1, CallScript DEF Advance
<1>7. Abort => (pc' = "panicked" /\ UNCHANGED result) \/ Return(ErrResult)
  BY DEF Abort
<1>8. Abort /\ step = 5 => pc' = "panicked"
  BY <1>1, CallScript DEF Abort, Unwrapped
<1> QED  BY <1>2, <1>3, <1>4, <1>5, <1>6, <1>7, <1>8 DEF Transmit, Receive, TakeReply

LEMMA EmptyRemains ==
  ASSUME toClient' = <<>>
  PROVE  Remaining'
<1>1. \A i : ~(i \in 1..0)
  BY SMT
<1>2. 0 <= 1 /\ 0 <= 2 /\ 0 # 1 /\ 0 # 2
  OBVIOUS
<1> QED  BY <1>1, <1>2, Short DEF Remaining

LEMMA OwnReturned ==
  ASSUME TypeOK, OwnResults, pc = "call", quiet' = quiet,
         NEW r \in {ErrResult, Reply(calls)}, Return(r)
  PROVE  OwnResults'
<1>1. \A c \in Calls : result'[c] = result[c] \/ (c = calls /\ result'[c] = r)
  BY DEF TypeOK, ClientTypeOK, Return
<1> QED  BY <1>1 DEF OwnResults, Reply, Frame, ErrResult, NoResult

LEMMA NoneAheadKept ==
  ASSUME TypeOK, NoneAhead, UNCHANGED <<quiet, calls>>,
         result' = result \/ \E r : result' = [result EXCEPT ![calls] = r]
  PROVE  NoneAhead'
<1>1. \A c \in Calls : c # calls => result'[c] = result[c]
  BY DEF TypeOK, ClientTypeOK
<1>2. \A c \in Calls : c > calls => c # calls
  BY MaxCallsAssumption, SMT DEF TypeOK, ClientTypeOK, Calls
<1> QED  BY <1>1, <1>2 DEF NoneAhead, NoResult, Frame

\* The steps of a call of which nothing is promised, its return included.
LEMMA Unfollowed ==
  ASSUME TypeOK, OwnInv, UNCHANGED quiet, pc = "call", ~Followed,
         Transmit \/ Receive \/ TakeReply \/ Cancel
  PROVE  OwnInv'
<1>1. MayCancel /\ calls \notin quiet
  BY DEF Followed
<1>2. calls' = calls /\ (result' = result \/ \E r : result' = [result EXCEPT ![calls] = r])
  BY DEF Transmit, Receive, TakeReply, Cancel, Advance, Abort, Return
<1>3. ~Followed'
  BY <1>1, <1>2 DEF Followed
<1>4. \A c \in Calls \ {calls} : result'[c] = result[c]
  BY <1>2 DEF TypeOK, ClientTypeOK
<1>5. OwnResults'
  BY <1>1, <1>4 DEF OwnInv, OwnResults, Reply, Frame
<1> QED  BY <1>2, <1>3, <1>5, NoneAheadKept DEF OwnInv, CallLockstep, Remaining

LEMMA OwnSent ==
  ASSUME IInv, OwnInv, Followed, UNCHANGED <<broker, quiet>>, pc = "call", Transmit
  PROVE  OwnInv'
<1>1. step \in {1, 3, 4} /\ toClient = <<>> /\ toClient' = toClient
  BY CallMoves DEF OwnInv, Remaining, Transmit, SendOk, SendErr
<1>2. Remaining' /\ NoneAhead'
  <2>1. calls' = calls /\ (result' = result \/ \E r : result' = [result EXCEPT ![calls] = r])
    BY DEF Transmit, Advance, Abort, Return
  <2> QED  BY <1>1, <2>1, EmptyRemains, NoneAheadKept DEF OwnInv, IInv
<1>3. CASE SendErr /\ Abort
  <2>1. link' # "up"
    BY <1>3 DEF SendErr
  <2>2. OwnResults'
    BY <1>3, CallMoves, OwnReturned DEF OwnInv, IInv, OwnResults, Reply, Frame
  <2> QED  BY <1>2, <2>1, <2>2 DEF OwnInv, CallLockstep
<1>4. CASE ~(SendErr /\ Abort)
  <2> DEFINE f == Frame(Script[step].kind, calls)
  <2>1. SendOk(f) /\ Advance
    BY <1>4 DEF Transmit
  <2>2. pc' = "call" /\ UNCHANGED <<calls, result>> /\ step' = step + 1
    <3>1. step < 6
      BY <1>1, SMT
    <3> QED  BY <2>1, <3>1, CallMoves
  <2>3. OwnResults'
    BY <2>2 DEF OwnInv, OwnResults, Reply, Frame
  <2>4. ASSUME link = "up", stage = "ended" PROVE Ending'
    <3>1. Ending /\ errored' = errored
      BY <2>1, <2>4 DEF OwnInv, CallLockstep, SendOk
    <3>2. \/ step = 1 /\ step' = 2 /\ ~errored
          \/ step = 3 /\ step' = 4 /\ errored
          \/ step = 4 /\ step' = 5 /\ errored
      BY <1>1, <2>2, <3>1, SMT DEF Ending
    <3> QED  BY <1>1, <2>2, <3>1, <3>2 DEF Ending
  <2>5. ASSUME link' = "up", stage = "links" PROVE ~errored' /\ stage' = "links" /\ CallTable'
    <3>1. link = "up" /\ toBroker' = Append(toBroker, f) /\ errored' = errored
      BY <2>1, <2>5 DEF SendOk
    <3>2. ~errored /\ stage = "links" /\ CallTable
      BY <2>5, <3>1 DEF OwnInv, CallLockstep
    <3>3. UNCHANGED <<stage, queue, credited, unsettled, requests, replies>>
      BY DEF broker
    <3>4. Quiet' <=> Quiet
      BY <2>2, <3>3 DEF Quiet
    <3>5. CASE step = 1
      <4>1. Between /\ f = Frame("attach_receiver", calls) /\ step' = 2
        BY <2>2, <3>2, <3>5, CallMoves DEF CallTable
      <4> HIDE DEF f
      <4>2. toBroker' = <<f>>
        BY <3>1, <4>1, Short DEF Between
      <4>3. Attaching'
        BY <1>1, <2>2, <3>4, <4>1, <4>2 DEF Attaching, Between, Frame
      <4> QED  BY <3>1, <3>2, <3>3, <4>1, <4>3 DEF CallTable
    <3>6. CASE step = 3
      <4>1. Between /\ queue = calls /\ f = Frame("flow", calls) /\ step' = 4
        BY <2>2, <3>2, <3>6, CallMoves DEF CallTable
      <4> HIDE DEF f
      <4>2. toBroker' = <<f>>
        BY <3>1, <4>1, Short DEF Between
      <4>3. Granting'
        BY <1>1, <2>2, <3>3, <3>4, <4>1, <4>2 DEF Granting, Between, Frame
      <4> QED  BY <3>1, <3>2, <3>3, <4>1, <4>3 DEF CallTable
    <3>7. CASE step = 4
      <4>1. Granting /\ f = Frame("transfer", calls) /\ step' = 5
        BY <2>2, <3>2, <3>7, CallMoves DEF CallTable
      <4> HIDE DEF f
      <4>2. \/ toBroker' = <<Frame("flow", calls), f>>
            \/ toBroker' = <<f>> /\ credited
        <5> DEFINE g == Frame("flow", calls)
        <5>1. toBroker = <<g>> \/ (toBroker = <<>> /\ credited)
          BY <4>1 DEF Granting
        <5> HIDE DEF g
        <5>2. toBroker = <<g>> => toBroker' = <<g, f>>
          BY <3>1, Pair
        <5>3. toBroker = <<>> => toBroker' = <<f>>
          BY <3>1, Short
        <5> QED  BY <5>1, <5>2, <5>3 DEF g
      <4>3. Requesting'
        BY <1>1, <2>2, <3>3, <3>4, <4>1, <4>2 DEF Requesting, Granting, Frame
      <4> QED  BY <3>1, <3>2, <3>3, <4>1, <4>3 DEF CallTable
    <3> QED  BY <1>1, <3>5, <3>6, <3>7
  <2>6. link' = "up" => link = "up" /\ stage \in {"links", "ended"} /\ stage' = stage
    BY <2>1 DEF SendOk, OwnInv, CallLockstep, broker
  <2> QED  BY <1>2, <2>3, <2>4, <2>5, <2>6 DEF OwnInv, CallLockstep
<1> QED  BY <1>3, <1>4

LEMMA OwnReceived ==
  ASSUME IInv, OwnInv, Followed, UNCHANGED <<broker, quiet>>, pc = "call", Receive
  PROVE  OwnInv'
<1>1. /\ WireTypeOK /\ Remaining /\ TypeOK /\ step \in {2, 5}
      /\ PollFrame \/ PollErr \/ PollNone
  BY CallMoves DEF OwnInv, IInv, TypeOK, Receive
<1>2. /\ UNCHANGED <<stage, queue, credited, unsettled, requests, replies>> /\ calls' = calls
      /\ NoneAhead'
  <2>1. calls' = calls /\ (result' = result \/ \E r : result' = [result EXCEPT ![calls] = r])
    BY DEF Receive, Advance, Abort, Return
  <2> QED  BY <1>1, <2>1, NoneAheadKept DEF broker, OwnInv
<1>3. CASE PollNone /\ Abort
  <2>1. toClient' = <<>>
    BY <1>1, <1>3 DEF PollNone, Remaining
  <2>2. OwnResults'
    BY <1>1, <1>3, CallMoves, OwnReturned DEF OwnInv, OwnResults, Reply, Frame
  <2>3. pc' = "panicked" \/ link' # "up"
    <3>1. step = 5 => pc' = "panicked"
      BY <1>3, CallMoves
    <3>2. step = 2 => ~errored \/ link # "up"
      BY DEF OwnInv, CallLockstep, Ending
    <3> QED  BY <1>1, <1>3, <3>1, <3>2 DEF PollNone
  <2> QED  BY <1>2, <2>1, <2>2, <2>3, EmptyRemains DEF OwnInv, CallLockstep, Followed
<1>4. CASE ~(PollNone /\ Abort)
  <2>1. (PollFrame \/ PollErr) /\ Advance
    BY <1>4 DEF Receive
  <2>2. pc' = "call" /\ UNCHANGED <<calls, result>> /\ step' = step + 1
    <3>1. step < 6
      BY <1>1, SMT
    <3> QED  BY <2>1, <3>1, CallMoves
  <2>3. OwnResults'
    BY <2>2 DEF OwnInv, OwnResults, Reply, Frame
  <2>4. Remaining'
    <3>1. CASE step = 2
      BY <1>1, <3>1, Taken, EmptyRemains
    <3>2. CASE step = 5
      <4>1. step' = 6 /\ 6 \notin {1, 3, 4} /\ 6 # 2 /\ 6 # 5
        BY <2>2, <3>2
      <4>2. /\ \A i \in 1..Len(toClient') : Decodable(toClient'[i])
            /\ errored' => toClient' = <<>>
            /\ Len(toClient') <= 1 /\ (Len(toClient') = 1 => toClient'[1] = Reply(calls))
        BY <1>1, <3>2, Taken
      <4> QED  BY <2>2, <4>1, <4>2 DEF Remaining, Reply, Frame, Decodable
    <3> QED  BY <1>1, <3>1, <3>2
  <2>5. ASSUME link' = "up", stage = "ended" PROVE Ending'
    <3>1. link = "up" /\ Ending
      BY <2>1, <2>5 DEF PollFrame, PollErr, OwnInv, CallLockstep
    <3>2. step = 2 /\ ~PollFrame
      <4>1. Head(<<Frame("end", 0)>>) = Frame("end", 0) /\ ~Decodable(Frame("end", 0))
        BY Short DEF Decodable, Frame
      <4>2. step = 5 => errored
        BY <3>1 DEF Ending
      <4> QED  BY <1>1, <2>1, <3>1, <4>1, <4>2 DEF Ending, PollFrame, PollErr
    <3>3. toClient' = <<>>
      BY <1>1, <3>2, Taken
    <3>4. errored' /\ step' = 3
      BY <2>1, <2>2, <3>2 DEF PollErr
    <3> QED  BY <2>2, <3>3, <3>4 DEF Ending
  <2>6. ASSUME link' = "up", stage = "links" PROVE ~errored' /\ stage' = "links" /\ CallTable'
    <3>1. link = "up"
      BY <2>1, <2>6 DEF PollFrame, PollErr
    <3>2. ~errored /\ stage = "links" /\ CallTable /\ \A i \in 1..Len(toClient) : Decodable(toClient[i])
      <4>1. ~errored /\ CallTable
        BY <2>6, <3>1 DEF OwnInv, CallLockstep
      <4>2. step \in 1..6
        BY <1>1, SMT
      <4> QED  BY <2>6, <4>1, <4>2, TableRemaining
    <3>3. PollFrame
      BY <1>1, <2>6, <3>2, Taken
    <3>4. toClient # <<>> /\ toClient' = Tail(toClient) /\ toBroker' = toBroker /\ ~errored'
      BY <3>3 DEF PollFrame
    <3>5. CASE step = 2
      <4>1. toClient' = <<>> /\ step' = 3
        BY <1>1, <2>2, <3>5, Taken
      <4>2. Quiet /\ toBroker = <<>> /\ queue = calls
        BY <3>2, <3>4, <3>5 DEF CallTable, Attaching
      <4>3. Between' /\ queue' = calls'
        BY <1>2, <2>2, <3>4, <4>1, <4>2 DEF Between, Quiet
      <4> QED  BY <1>2, <3>2, <3>4, <4>1, <4>3 DEF CallTable
    <3>6. CASE step = 5
      <4>1. step' = 6 /\ Requesting
        BY <2>2, <3>2, <3>6 DEF CallTable
      <4>2. queue = calls /\ toBroker = <<>> /\ credited
        BY <3>4, <4>1 DEF Requesting
      <4>3. \/ unsettled = {} /\ Waiting /\ toClient = <<Frame("disposition", calls)>>
            \/ Quiet /\ toClient = <<Frame("disposition", calls), Reply(calls)>>
        BY <3>4, <4>1 DEF Requesting
      <4>4. \/ unsettled = {} /\ Waiting /\ toClient' = <<>>
            \/ Quiet /\ toClient' = <<Reply(calls)>>
        <5> DEFINE D == Frame("disposition", calls)
                   R == Reply(calls)
        <5>1. Tail(<<D>>) = <<>> /\ Tail(<<D, R>>) = <<R>>
          <6> HIDE DEF D, R
          <6> QED  BY Short
        <5> QED  BY <3>4, <4>3, <5>1
      <4>5. (Waiting' <=> Waiting) /\ (Quiet' <=> Quiet) /\ Reply(calls)' = Reply(calls)
        BY <1>2, <2>2 DEF Waiting, Quiet, Reply, Frame
      <4>6. Settled'
        BY <1>2, <2>2, <3>4, <4>2, <4>4, <4>5 DEF Settled
      <4> QED  BY <1>2, <3>2, <3>4, <4>1, <4>6 DEF CallTable
    <3> QED  BY <1>1, <3>5, <3>6
  <2>7. link' = "up" => link = "up" /\ stage \in {"links", "ended"} /\ stage' = stage
    BY <1>2, <2>1 DEF PollFrame, PollErr, OwnInv, CallLockstep
  <2> QED  BY <1>2, <2>3, <2>4, <2>5, <2>6, <2>7 DEF OwnInv, CallLockstep
<1> QED  BY <1>3, <1>4

LEMMA OwnTaken ==
  ASSUME IInv, OwnInv, Followed, UNCHANGED <<broker, quiet>>, pc = "call", TakeReply
  PROVE  OwnInv'
<1>1. /\ WireTypeOK /\ Remaining /\ TypeOK /\ step = 6
      /\ PollFrame \/ PollErr \/ PollNone
  BY CallMoves DEF OwnInv, IInv, TypeOK, TakeReply
<1>2. toClient' = <<>>
  BY <1>1, Taken
<1>3. PICK r \in {ErrResult, Reply(calls)} : Return(r)
  BY <1>1, Taken DEF TakeReply
<1>4. OwnResults' /\ NoneAhead'
  BY <1>1, <1>3, OwnReturned, NoneAheadKept DEF OwnInv, Return
<1>5. pc' = "ready" /\ step' = 1 /\ calls' = calls
  BY <1>3 DEF Return
<1>6. ASSUME link' = "up" PROVE ~errored' /\ stage' = "links" /\ CallTable'
  <2>1. link = "up"
    BY <1>1, <1>6 DEF PollFrame, PollErr, PollNone
  <2>2. ~errored /\ stage = "links" /\ Settled
    <3>1. ~Ending
      BY <1>1 DEF Ending
    <3> QED  BY <1>1, <2>1, <3>1 DEF OwnInv, CallLockstep, CallTable
  <2>3. PollFrame
    BY <1>1, <1>6, <2>2 DEF PollFrame, PollErr, PollNone, Settled, Decodable, Reply, Frame
  <2>4. toClient # <<>> /\ toBroker' = toBroker /\ ~errored'
    BY <2>3 DEF PollFrame
  <2>5. Between' /\ stage' = "links"
    <3>1. Quiet /\ toBroker = <<>>
      BY <2>2, <2>4, <1>1, <2>3 DEF Settled
    <3> QED  BY <1>2, <1>5, <2>2, <2>4, <3>1 DEF Between, Quiet, broker
  <2>6. 1 # 2 /\ 1 # 3 /\ 1 # 4 /\ 1 # 5 /\ 1 # 6
    OBVIOUS
  <2> QED  BY <1>5, <2>4, <2>5, <2>6 DEF CallTable
<1> QED  BY <1>2, <1>4, <1>5, <1>6, EmptyRemains DEF OwnInv, CallLockstep

\* A call that is followed from its start finds nothing under way, and its own
\* queue empty: its request was never sent.
LEMMA OwnStarted ==
  ASSUME IInv, RealInv, LegalInv, OwnInv, UNCHANGED broker, StartCall,
         quiet' = IF Quiescent THEN quiet \cup {calls + 1} ELSE quiet
  PROVE  OwnInv'
<1>1. /\ step = 1 /\ step' = 1 /\ pc = "ready" /\ pc' = "call" /\ UNCHANGED wire
      /\ result' = result /\ calls' = calls + 1 /\ calls \in Nat /\ calls + 1 \in Calls
      /\ UNCHANGED <<link, errored, stage, toClient, toBroker>>
  <2>1. calls \in Nat /\ calls + 1 \in Calls
    BY MaxCallsAssumption, SMT DEF StartCall, IInv, TypeOK, ClientTypeOK, Calls
  <2> QED  BY <2>1 DEF IInv, StepsOK, StartCall, wire, broker
<1>2. calls + 1 \notin quiet
  BY <1>1, SMT DEF OwnInv, NoneAhead
<1>3. NoneAhead'
  <2>1. \A c \in quiet' : c <= calls + 1
    <3>1. \A c \in quiet : c \in Int /\ c <= calls
      BY MaxCallsAssumption, SMT DEF OwnInv, NoneAhead, IInv, TypeOK, Calls
    <3>2. \A c \in quiet : c <= calls + 1
      BY <1>1, <3>1, SMT
    <3>3. calls + 1 <= calls + 1
      BY <1>1, SMT
    <3> QED  BY <3>2, <3>3
  <2>2. \A c \in Calls : c > calls + 1 => c > calls
    BY <1>1, MaxCallsAssumption, SMT DEF Calls
  <2> QED  BY <1>1, <2>1, <2>2 DEF OwnInv, NoneAhead, NoResult, Frame
<1>4. OwnResults'
  <2>1. ASSUME NEW c \in Calls, c = calls + 1 PROVE result[c] \in {NoResult, ErrResult, Reply(c)}
    BY <1>1, <2>1, SMT DEF OwnInv, NoneAhead
  <2> QED  BY <1>1, <2>1 DEF OwnInv, OwnResults, Reply, Frame
<1>5. ASSUME Followed'
      PROVE  toClient' = <<>> /\ (link' = "up" => Quiescent)
  <2>1. CASE MayCancel
    BY <1>1, <1>2, <1>5, <2>1 DEF Followed, Quiescent
  <2>2. CASE ~MayCancel
    <3>1. Followed /\ ~Ending
      BY <1>1, <2>2 DEF Followed, Ending
    <3> QED  BY <1>1, <3>1 DEF OwnInv, Remaining, CallLockstep, CallTable, Between, Quiet, Quiescent
  <2> QED  BY <2>1, <2>2
<1>6. Remaining'
  BY <1>5, EmptyRemains DEF Remaining
<1>7. ASSUME Followed', link' = "up"
      PROVE  \/ stage' = "links" /\ ~errored' /\ CallTable'
             \/ stage' = "ended" /\ Ending'
  <2>1. Quiescent /\ toClient' = <<>> /\ toBroker' = <<>> /\ ~errored'
    BY <1>1, <1>5, <1>7 DEF Quiescent
  <2>2. stage \in {"links", "ended"}
    BY <1>1 DEF IInv, LockInv, AfterNew, LegalInv
  <2>3. calls + 1 \notin replies
    <3>1. LastSent = calls
      BY <1>1 DEF LastSent
    <3>2. ~(calls + 1 <= calls)
      BY <1>1, SMT
    <3> QED  BY <3>1, <3>2 DEF RealInv, Requested
  <2>4. Between'
    BY <1>1, <2>1, <2>3 DEF Between, Quiet, Quiescent, broker
  <2>5. 1 # 2 /\ 1 # 3 /\ 1 # 4 /\ 1 # 5 /\ 1 # 6
    OBVIOUS
  <2>6. CallTable' /\ Ending'
    BY <1>1, <2>1, <2>4, <2>5 DEF CallTable, Ending
  <2> QED  BY <1>1, <2>1, <2>2, <2>6
<1> QED  BY <1>3, <1>4, <1>6, <1>7 DEF OwnInv, CallLockstep

\* new() returns a client with its last receive and in no other way, and
\* leaves the results of the calls alone.
LEMMA OwnOpening ==
  ASSUME IInv, OwnInv, UNCHANGED <<broker, quiet>>, pc = "new", Transmit \/ Receive, Orderly
  PROVE  OwnInv'
<1>1. Script = New /\ step \in 1..14
  BY NewScript DEF Script, IInv, TypeOK, ClientTypeOK
<1>2. result' = result /\ calls' = calls
  BY DEF Transmit, Receive, Advance, Abort
<1>3. OwnResults' /\ NoneAhead'
  BY <1>2, NoneAheadKept DEF IInv, OwnInv, OwnResults, Reply, Frame
<1>4. CASE pc' = "ready"
  <2>1. ~Transmit
    <3> SUFFICES ASSUME Transmit PROVE FALSE
      OBVIOUS
    <3>1. step < 14
      BY <1>1, NewSteps, SMT DEF Transmit, SendSteps
    <3> QED  BY <1>1, <1>4, <3>1, NewScript DEF Transmit, Advance, Abort
  <2>2. CallLockstep' /\ Remaining'
    BY <1>4, <2>1, OwnFirst DEF broker
  <2> QED  BY <1>3, <2>2 DEF OwnInv
<1>5. CASE pc' # "ready"
  <2>1. pc' \notin {"ready", "call"}
    BY <1>5 DEF Transmit, Receive, Advance, Abort
  <2> QED  BY <1>3, <2>1 DEF OwnInv, CallLockstep, Remaining, Followed
<1> QED  BY <1>4, <1>5

\* The steps within new() and within a call.
LEMMA OwnClient ==
  ASSUME IInv, OwnInv, UNCHANGED <<broker, quiet>>, Orderly,
         Connect \/ Transmit \/ Receive \/ TakeReply \/ Cancel
  PROVE  OwnInv'
<1>1. CASE Connect
  <2>1. pc' \notin {"ready", "call"} /\ result' = result /\ calls' = calls
    BY <1>1 DEF Connect
  <2>2. OwnResults' /\ NoneAhead'
    BY <2>1, NoneAheadKept DEF IInv, OwnInv, OwnResults, Reply, Frame
  <2> QED  BY <2>1, <2>2 DEF OwnInv, CallLockstep, Remaining, Followed
<1>2. CASE pc = "new" /\ ~Connect
  <2>1. ~TakeReply /\ ~Cancel
    BY <1>2, NewScript, NewSteps DEF IInv, TypeOK, ClientTypeOK, TakeReply, Cancel
  <2> QED  BY <1>2, <2>1, OwnOpening
<1>3. CASE pc = "call" /\ Followed
  <2>1. CASE Cancel
    <3>1. MayCancel /\ pc' = "ready" /\ result' = result /\ calls' = calls
      BY <2>1 DEF Cancel
    <3>2. ~Followed'
      BY <3>1 DEF Followed
    <3>3. OwnResults' /\ NoneAhead'
      BY <3>1, NoneAheadKept DEF IInv, OwnInv, OwnResults, Reply, Frame
    <3> QED  BY <3>2, <3>3 DEF OwnInv, CallLockstep, Remaining
  <2>2. CASE Transmit \/ Receive \/ TakeReply
    BY <1>3, <2>2, OwnSent, OwnReceived, OwnTaken
  <2>3. ~Connect
    BY <1>3 DEF Connect
  <2> QED  BY <2>1, <2>2, <2>3
<1>4. CASE pc = "call" /\ ~Followed
  <2>1. ~Connect
    BY <1>4 DEF Connect
  <2> QED  BY <1>4, <2>1, Unfollowed DEF IInv
<1>5. ~Connect => pc \in {"new", "call"}
  BY DEF Transmit, Receive, TakeReply, Cancel, Running
<1> QED  BY <1>1, <1>2, <1>3, <1>4, <1>5

LEMMA OwnNext ==
  ASSUME IInv, RealInv, LegalInv, LegalInv', OwnInv, [Next]_vars, Orderly
  PROVE  OwnInv'
<1>1. CASE UNCHANGED vars
  <2>1. /\ UNCHANGED <<pc, step, calls, result, quiet, toBroker, toClient, errored, link>>
        /\ UNCHANGED <<stage, queue, credited, unsettled, requests, replies>>
    BY <1>1 DEF vars, wire, client, broker
  <2> QED
    BY <2>1 DEF OwnInv, CallLockstep, CallTable, Between, Attaching, Granting, Requesting,
       Settled, Waiting, Quiet, Ending, Remaining, Followed, OwnResults, NoneAhead, NoResult,
       Reply, Frame, Decodable
<1>2. CASE Next
  BY <1>1, <1>2, OwnClient, OwnStarted, OwnBroker DEF Next, Stopped
<1> QED  BY <1>1, <1>2

-----------------------------------------------------------------------------
Inv == TypeOK /\ StepsOK /\ IInv /\ LossInv /\ RealInv /\ LegalInv /\ OwnInv

LEMMA AllInv == ASSUME Orderly PROVE Spec => []Inv
<1>1. "refuse_link" \notin Faults /\ MaxCalls <= Credit
  BY MaxCallsAssumption, BrokerAssumption, SMT DEF Orderly
<1>2. Init => Inv
  BY TypeInit, LockInit, LossInit, RealInit, LegalInit, OwnInit DEF IInv, Inv
<1>3. Inv /\ [Next]_vars => Inv'
  <2> SUFFICES ASSUME Inv, [Next]_vars PROVE Inv'
    OBVIOUS
  <2>1. (TypeOK /\ StepsOK /\ IInv /\ LossInv /\ RealInv)'
    BY Inductive, TypeNext, LossNext, RealNext DEF Inv
  <2>2. LegalInv'
    BY <1>1, LegalNext DEF Inv, RealInv
  <2>3. OwnInv'
    BY <2>2, OwnNext DEF Inv
  <2> QED  BY <2>1, <2>2, <2>3 DEF Inv
<1> QED  BY <1>2, <1>3, PTL DEF Spec

\* A call that found the connection quiescent and returns Ok returns the node's
\* reply to that very call, whatever was dropped before it, and although call()
\* looks at none of the frames it takes before the reply.
THEOREM QuietReplies == ASSUME Orderly PROVE Spec => []QuietCallReturnsOwnReply
<1>1. Inv => QuietCallReturnsOwnReply
  BY DEF Inv, OwnInv, OwnResults, QuietCallReturnsOwnReply, TypeOK
<1> QED  BY <1>1, AllInv, PTL

\* When no call is dropped, every call that returns Ok returns its own reply.
THEOREM OwnReplies == ASSUME Orderly, ~MayCancel PROVE Spec => []CallReturnsOwnReply
<1>1. Inv => CallReturnsOwnReply
  BY DEF Inv, OwnInv, OwnResults, CallReturnsOwnReply
<1> QED  BY <1>1, AllInv, PTL

\* Then too, whenever no call is running and the connection stands, nothing is
\* under way that the next call could take for an answer to itself.
THEOREM NothingLeft == ASSUME Orderly, ~MayCancel PROVE Spec => []NothingLeftBehind
<1>1. Inv => NothingLeftBehind
  <2> SUFFICES ASSUME Inv, pc = "ready", link = "up" PROVE Quiescent
    BY DEF NothingLeftBehind
  <2>1. Between /\ ~errored
    BY DEF Inv, StepsOK, OwnInv, CallLockstep, CallTable, Ending, Followed
  <2> QED  BY <2>1 DEF Between, Quiet, Quiescent
<1> QED  BY <1>1, AllInv, PTL

-----------------------------------------------------------------------------
\* A step of the client and the broker, as the caller of the client sees it.

LEMMA NoOutcome ==
  ASSUME NEW c \in Calls, result[c] = NoResult
  PROVE  Outcome(c) = "none"
BY DEF Outcome, NoResult, ErrResult, Reply, Frame

\* call() returns: the service succeeds or fails.
LEMMA ServiceAnswers ==
  ASSUME Inv, Inv', pc = "call", executed' = executed,
         NEW r \in {ErrResult, Reply(calls)}, Return(r)
  PROVE  Service!Next
<1>1. /\ calls \in Calls /\ calls' = calls /\ pc' = "ready"
      /\ result' = [result EXCEPT ![calls] = r] /\ DOMAIN result = Calls
  BY DEF Return, Inv, TypeOK, ClientTypeOK, Calls
<1>2. result'[calls] = r /\ \A c \in Calls \ {calls} : result'[c] = result[c]
  BY <1>1
<1>3. r = Reply(calls) => calls \in executed
  BY <1>1, <1>2 DEF Inv, RealInv, Replied, Reply, Frame
<1>4. \A c \in Calls \ {calls} : Outcome(c)' = Outcome(c)
  BY <1>1, <1>2 DEF Outcome, NoResult, ErrResult, Reply, Frame
<1>5. Outcome(calls)' = IF r = ErrResult THEN "err" ELSE "ok"
  BY <1>1, <1>2 DEF Outcome, NoResult, ErrResult, Reply, Frame
<1> DEFINE out == [c \in Calls |-> Outcome(c)]
           answer == IF r = ErrResult THEN "err" ELSE "ok"
<1>6. out' = [out EXCEPT ![calls] = answer]
  <2>1. out' = [c \in Calls |-> Outcome(c)']
    OBVIOUS
  <2> QED  BY <1>1, <1>4, <1>5, <2>1
<1>7. CASE r = ErrResult
  <2>1. Service!Fail
    BY <1>1, <1>6, <1>7 DEF Service!Fail
  <2> QED  BY <2>1 DEF Service!Next
<1>8. CASE r # ErrResult
  <2>1. Service!Succeed
    BY <1>1, <1>3, <1>6, <1>8 DEF Service!Succeed
  <2> QED  BY <2>1 DEF Service!Next
<1> QED  BY <1>7, <1>8

\* No call returns, and the client neither becomes ready nor gives up.
LEMMA ServiceStutters ==
  ASSUME UNCHANGED <<calls, result, executed>>,
         pc' = pc \/ (pc \in {"start", "new"} /\ pc' \in {"start", "new"})
  PROVE  UNCHANGED Service!vars
<1>1. [c \in Calls |-> Outcome(c)]' = [c \in Calls |-> Outcome(c)]
  BY DEF Outcome, NoResult, ErrResult, Reply, Frame
<1> QED  BY <1>1 DEF Service!vars

\* new() returns.
LEMMA ServiceOpens ==
  ASSUME UNCHANGED <<calls, result, executed>>,
         pc \in {"start", "new"}, pc' \in {"ready", "failed", "panicked"}
  PROVE  Service!Next
<1>1. [c \in Calls |-> Outcome(c)]' = [c \in Calls |-> Outcome(c)]
  BY DEF Outcome, NoResult, ErrResult, Reply, Frame
<1>2. Service!Opened
  BY <1>1 DEF Service!Opened
<1> QED  BY <1>2 DEF Service!Next

LEMMA ServiceClient ==
  ASSUME Inv, Inv', UNCHANGED broker, Orderly, ~MayCancel,
         Connect \/ Transmit \/ Receive \/ TakeReply \/ Cancel \/ StartCall
  PROVE  [Service!Next]_(Service!vars)
<1>1. executed' = executed
  BY DEF broker
<1>2. CASE Connect
  BY <1>1, <1>2, ServiceStutters, ServiceOpens DEF Connect
<1>3. CASE (Transmit \/ Receive) /\ pc = "new"
  <2>1. UNCHANGED <<calls, result>> /\ pc' \in {"new", "ready", "failed", "panicked"}
    BY <1>3 DEF Transmit, Receive, Advance, Abort
  <2> QED  BY <1>1, <1>3, <2>1, ServiceStutters, ServiceOpens
<1>4. CASE (Transmit \/ Receive) /\ pc = "call"
  <2>1. step < 6
    <3>1. step \in {1, 2, 3, 4, 5}
      BY <1>4, CallMoves DEF Inv
    <3> QED  BY <3>1, SMT
  <2>2. CASE Advance
    BY <1>1, <1>4, <2>1, <2>2, CallMoves, ServiceStutters DEF Inv
  <2>3. CASE pc' = "panicked" /\ UNCHANGED <<calls, result>>
    <3>1. [c \in Calls |-> Outcome(c)]' = [c \in Calls |-> Outcome(c)]
      BY <2>3 DEF Outcome, NoResult, ErrResult, Reply, Frame
    <3>2. Service!Fail
      BY <1>1, <1>4, <2>3, <3>1 DEF Service!Fail
    <3> QED  BY <3>2 DEF Service!Next
  <2>4. CASE Return(ErrResult)
    BY <1>1, <1>4, <2>4, ServiceAnswers
  <2> QED  BY <1>4, <2>2, <2>3, <2>4 DEF Transmit, Receive, Abort
<1>5. CASE TakeReply
  <2>1. pc = "call"
    <3>1. pc = "new" => ~Running("next")
      BY NewScript, NewSteps DEF Inv, IInv, TypeOK, ClientTypeOK
    <3> QED  BY <1>5, <3>1 DEF TakeReply, Running
  <2>2. step = 6 /\ WireTypeOK /\ Remaining /\ Followed
    BY <1>5, <2>1, CallMoves DEF Inv, TypeOK, OwnInv, Followed
  <2>3. PICK r \in {ErrResult, Reply(calls)} : Return(r)
    BY <1>5, <2>1, <2>2, Taken DEF TakeReply
  <2> QED  BY <1>1, <2>1, <2>3, ServiceAnswers
<1>6. ~Cancel
  BY DEF Cancel
<1>7. CASE StartCall
  <2>1. [c \in Calls |-> Outcome(c)]' = [c \in Calls |-> Outcome(c)]
    BY <1>7 DEF StartCall, Outcome, NoResult, ErrResult, Reply, Frame
  <2>2. Service!Start
    BY <1>1, <1>7, <2>1 DEF StartCall, Service!Start
  <2> QED  BY <2>2 DEF Service!Next
<1>8. (Transmit \/ Receive) => pc \in {"new", "call"}
  BY DEF Transmit, Receive, Running
<1> QED  BY <1>2, <1>3, <1>4, <1>5, <1>6, <1>7, <1>8

LEMMA ServiceBroker ==
  ASSUME Inv, UNCHANGED client, BrokerNext
  PROVE  [Service!Next]_(Service!vars)
<1>1. UNCHANGED <<pc, step, calls, result>>
  BY DEF client
<1>2. ASSUME NEW c \in Calls, Execute(c) PROVE Service!Next
  <2>1. c \in requests /\ executed' = executed \cup {c}
    BY <1>2 DEF Execute
  <2>2. c \notin executed /\ c <= LastSent
    BY <2>1 DEF Inv, RealInv, Requested
  <2>3. calls \in Int /\ c \in Int /\ c <= calls
    BY <2>2, MaxCallsAssumption, SMT DEF LastSent, Calls, Inv, TypeOK, ClientTypeOK
  <2>4. [x \in Calls |-> Outcome(x)]' = [x \in Calls |-> Outcome(x)]
    BY <1>1 DEF Outcome, NoResult, ErrResult, Reply, Frame
  <2>5. Service!Run(c)
    BY <1>1, <2>1, <2>2, <2>3, <2>4 DEF Service!Run
  <2>6. c \in Service!Calls
    BY DEF Calls, Service!Calls
  <2> QED  BY <2>5, <2>6 DEF Service!Next
<1>3. CASE executed' = executed
  BY <1>1, <1>3, ServiceStutters
<1>4. executed' = executed \/ \E c \in Calls : Execute(c)
  <2>1. CASE BrokerReads
    BY <2>1 DEF BrokerReads, OnSaslHeader, OnInit, OnInitRefuse, OnAmqpHeader, OnOpen, OnBegin,
         OnAttachSender, OnAttachReceiver, OnFlow, OnTransfer, Discard, Reject, work, broker
  <2>2. CASE BrokerWorks
    BY <2>2 DEF BrokerWorks, Settle, Deliver, Replenish, work
  <2>3. CASE Disconnect
    BY <2>3 DEF Disconnect, broker
  <2> QED  BY <2>1, <2>2, <2>3 DEF BrokerNext
<1> QED  BY <1>2, <1>3, <1>4

\* The safety half of ImplementsService: what a caller that drops no call sees
\* is the abstract service, step by step.  new() fails or returns a
\* client, a call that succeeds returns the outcome of its own RPC, which the
\* node has run, and a call that fails or panics promises nothing.
THEOREM ServiceSteps ==
  ASSUME Orderly, ~MayCancel
  PROVE  Spec => Service!Init /\ [][Service!Next]_(Service!vars)
<1>1. Init => Service!Init
  <2>1. Init => \A c \in Calls : Outcome(c) = "none"
    BY NoOutcome DEF Init, ClientInit
  <2> QED  BY <2>1 DEF Init, ClientInit, BrokerInit, Service!Init, Service!Calls, Calls
<1>2. Inv /\ Inv' /\ [Next]_vars => [Service!Next]_(Service!vars)
  <2> SUFFICES ASSUME Inv, Inv', [Next]_vars PROVE [Service!Next]_(Service!vars)
    OBVIOUS
  <2>1. CASE UNCHANGED vars
    <3>1. UNCHANGED <<pc, calls, result, executed>>
      BY <2>1 DEF vars, client, broker
    <3> QED  BY <3>1, ServiceStutters
  <2>2. CASE Next
    BY <2>1, <2>2, ServiceClient, ServiceBroker DEF Next, Stopped
  <2> QED  BY <2>1, <2>2
<1> QED  BY <1>1, <1>2, AllInv, PTL DEF Spec
=============================================================================
