-------------------------- MODULE FrameCodec_proofs --------------------------
(***************************************************************************)
(* Framing is correct for any number of frames, any lengths, and any way   *)
(* of cutting the byte stream into reads.                                  *)
(***************************************************************************)
EXTENDS FrameCodec, TLAPS

\* What the state says of a finished panic: the front frame is consumed but
\* not accounted for in out.
PanicAt == 
  answer = "panic" =>
    /\ Len(out) < N
    /\ Malformed(Len(out) + 1)

Accounted == 
  \A j \in 1..Len(out) :
    /\ out[j] = [id |-> j, ok |-> j \in Decodable]
    /\ ~Malformed(j)
    /\ Start[j+1] <= received

\* The flag is up from an error answered to the None that follows it.
ErrorShown == IF errored THEN answer = "error" ELSE answer # "error"

\* The inductive invariant: the window sits on the boundary after the frames
\* accounted for, and each of those was delivered whole.
IInv == 
  /\ TypeOK
  /\ Len(out) \in 0..N
  /\ Aligned
  /\ Accounted
  /\ PanicAt
  /\ ErrorShown

\* Offsets are natural numbers and later frames start later.
LEMMA Offsets ==
  /\ N \in Nat
  /\ \A i \in 1..N+1 : Start[i] \in Nat
  /\ \A i \in 1..N : Length[i] \in Nat /\ Length[i] >= 4 /\ Length[i] # HeaderTag
  /\ \A i \in 1..N : Start[i+1] = Start[i] + Length[i]
  /\ \A i, j \in 1..N+1 : i < j => Start[i] < Start[j]
  /\ \A i, j \in 1..N+1 : i <= j => Start[i] <= Start[j]
<1>1. N \in Nat
  BY FrameCountAssumption
<1>2. \A i \in 1..N+1 : Start[i] \in Nat
  BY StartAssumption
<1>3. \A i, j \in 1..N+1 : i < j => Start[i] < Start[j]
  BY StartAssumption
<1>4. \A i, j \in 1..N+1 : i <= j => Start[i] <= Start[j]
  BY <1>1, <1>2, <1>3
<1>5. \A i \in 1..N : Length[i] \in Nat /\ Length[i] >= 4 /\ Length[i] # HeaderTag
  BY LengthAssumption DEF PrefixLength
<1>6. \A i \in 1..N : Start[i+1] = Start[i] + Length[i]
  BY StartAssumption
<1> QED
  BY <1>1, <1>2, <1>3, <1>4, <1>5, <1>6

\* On a frame boundary, the front frame is the one that starts there.
LEMMA FrontOnBoundary ==
  ASSUME NEW k \in 1..N, consumed = Start[k]
  PROVE  Front = k
<1>1. \A i \in 1..N+1 : i \in Int
  BY FrameCountAssumption
<1>2. Start[k] <= consumed /\ consumed < Start[k+1]
  BY Offsets
<1>3. ASSUME NEW i \in 1..N, Start[i] <= consumed, consumed < Start[i+1]
      PROVE  i = k
  <2>1. CASE i < k
    <3>1. i + 1 \in 1..N+1 /\ k \in 1..N+1 /\ i + 1 <= k
      BY <2>1, Offsets
    <3>2. Start[i+1] <= Start[k]
      BY <3>1, Offsets
    <3> QED
      BY <3>1, <3>2, <1>3, Offsets
  <2>2. CASE k < i
    <3>1. k + 1 \in 1..N+1 /\ i \in 1..N+1 /\ k + 1 <= i
      BY <2>2, Offsets
    <3>2. Start[k+1] <= Start[i]
      BY <3>1, Offsets
    <3> QED
      BY <3>1, <3>2, <1>2, <1>3, Offsets
  <2> QED
    BY <2>1, <2>2, FrameCountAssumption
<1> QED
  BY <1>2, <1>3 DEF Front

\* Codec::decode splits off nothing, or exactly the front frame, and then
\* the whole of that frame was in the buffer.
LEMMA TakenIsOneFrame ==
  ASSUME TypeOK, Len(out) \in 0..N, consumed = Start[Len(out) + 1], Taken > 0
  PROVE  /\ Len(out) + 1 \in 1..N
         /\ Front = Len(out) + 1
         /\ consumed + Taken = Start[Len(out) + 2]
         /\ Start[Len(out) + 2] <= received
<1> DEFINE k == Len(out) + 1
<1>1. cut \in Nat /\ received \in Nat /\ consumed \in Nat
      /\ consumed <= received /\ received <= cut /\ cut <= Start[N+1]
  BY Offsets DEF TypeOK
<1>2. Buffered >= 4
  BY <1>1, SMT DEF Taken, Buffered, PrefixLength
<1>3. k \in 1..N
  <2>1. k # N + 1
    BY <1>1, <1>2, SMT DEF Buffered
  <2> QED  BY <2>1, FrameCountAssumption, SMT
<1>4. Front = k
  BY <1>3, FrontOnBoundary
<1>5. Taken = Length[k] /\ Length[k] <= Buffered
  <2>0. HeaderTag \in Nat /\ HeaderTag > 8
    BY SMT DEF HeaderTag
  <2>1. CASE k \in Headers
    BY <1>1, <1>2, <1>3, <1>4, <2>0, <2>1, LengthAssumption
    DEF Taken, LengthField, HeaderLength, Buffered, PrefixLength
  <2>2. CASE k \notin Headers
    BY <1>1, <1>2, <1>3, <1>4, <2>2, Offsets
    DEF Taken, LengthField, Buffered, PrefixLength
  <2> QED
    BY <2>1, <2>2
<1>6. Start[k+1] = Start[k] + Length[k]
  BY <1>3, Offsets
<1>7. k + 1 = Len(out) + 2
  BY DEF TypeOK
<1>8. Start[k] \in Nat /\ Length[k] \in Nat /\ Start[k] = consumed
  BY <1>3, Offsets
<1>9. consumed + Taken = Start[k+1] /\ Start[k+1] <= received
  BY <1>1, <1>5, <1>6, <1>8, SMT DEF Buffered
<1> QED
  BY <1>3, <1>4, <1>7, <1>9

-----------------------------------------------------------------------------
LEMMA InitIInv == Init => IInv
<1> SUFFICES ASSUME Init PROVE IInv
  OBVIOUS
<1>1. out = <<>> /\ Len(out) = 0
  BY DEF Init
<1>2. Start[1] = 0 /\ Start[N+1] \in Nat
  BY Offsets, StartAssumption
<1>3. TypeOK
  <2>1. out \in Seq(Outcome)
    BY <1>1
  <2>2. received \in 0..cut /\ consumed \in 0..received
    BY <1>2 DEF Init
  <2> QED
    BY <2>1, <2>2 DEF Init, TypeOK, Answers
<1>4. Len(out) \in 0..N /\ Aligned /\ PanicAt /\ ErrorShown
  BY <1>1, <1>2, FrameCountAssumption DEF Init, Aligned, PanicAt, ErrorShown
<1>5. Accounted
  BY <1>1 DEF Accounted
<1> QED
  BY <1>3, <1>4, <1>5 DEF IInv

\* The one action that matters: a frame leaves the buffer and is accounted
\* for in the same step.
LEMMA DecodeFrameIInv == IInv /\ DecodeFrame => IInv'
<1> SUFFICES ASSUME IInv, DecodeFrame PROVE IInv'
  OBVIOUS
<1> DEFINE k == Len(out) + 1
<1>1. /\ k \in 1..N
      /\ Front = k
      /\ consumed' = Start[k + 1]
      /\ Start[k + 1] <= received
  <2>1. consumed = Start[k]
    BY DEF IInv, Aligned, DecodeFrame, Polling
  <2>2. k + 1 = Len(out) + 2
    BY DEF IInv, TypeOK
  <2> QED
    BY <2>1, <2>2, TakenIsOneFrame DEF IInv, DecodeFrame
<1>2. UNCHANGED <<cut, reset, received, readable, eof>>
  BY DEF DecodeFrame
<1>3. consumed' \in 0..received'
  <2>1. Start[k + 1] \in Nat
    BY <1>1, Offsets
  <2> QED
    BY <1>1, <1>2, <2>1, Offsets DEF IInv, TypeOK
<1>4. CASE Malformed(Front)
  <2>1. answer' = "panic" /\ errored' = errored /\ out' = out
    BY <1>4 DEF DecodeFrame
  <2>2. TypeOK'
    BY <1>2, <1>3, <2>1 DEF IInv, TypeOK, Answers
  <2>3. (Len(out) \in 0..N)' /\ Aligned' /\ PanicAt' /\ ErrorShown'
    <3>1. ~errored
      BY DEF DecodeFrame, Polling
    <3>2. Len(out) < N
      BY <1>1, FrameCountAssumption DEF IInv
    <3>3. Malformed(Len(out) + 1)'
      BY <1>1, <1>4, <2>1 DEF Malformed
    <3> QED
      BY <2>1, <3>1, <3>2, <3>3 DEF IInv, Aligned, PanicAt, ErrorShown
  <2>4. Accounted'
    BY <1>2, <2>1 DEF IInv, Accounted, Malformed
  <2> QED
    BY <2>2, <2>3, <2>4 DEF IInv
<1>5. CASE ~Malformed(Front)
  <2> DEFINE o == [id |-> k, ok |-> k \in Decodable]
  <2>1. /\ out' = Append(out, o)
        /\ errored' = (k \notin Decodable)
        /\ answer' = IF k \in Decodable THEN "frame" ELSE "error"
    BY <1>1, <1>5 DEF DecodeFrame
  <2>2. o \in Outcome
    BY <1>1 DEF Outcome
  <2>3. /\ out' \in Seq(Outcome)
        /\ Len(out') = k
        /\ out'[k] = o
        /\ \A j \in 1..Len(out) : out'[j] = out[j]
    BY <2>1, <2>2 DEF IInv, TypeOK
  <2>4. TypeOK'
    BY <1>2, <1>3, <2>1, <2>3 DEF IInv, TypeOK, Answers
  <2>5. (Len(out) \in 0..N)' /\ Aligned'
    BY <1>1, <2>3 DEF Aligned
  <2>6. PanicAt' /\ ErrorShown'
    BY <2>1 DEF PanicAt, ErrorShown
  <2>7. Accounted'
    <3> SUFFICES ASSUME NEW j \in 1..Len(out')
                 PROVE  /\ out'[j] = [id |-> j, ok |-> j \in Decodable]
                        /\ ~Malformed(j)
                        /\ Start[j+1] <= received'
      BY DEF Accounted, Malformed
    <3>1. CASE j = k
      BY <1>1, <1>2, <1>5, <2>3, <3>1
    <3>2. CASE j # k
      <4>1. j \in 1..Len(out)
        BY <2>3, <3>2 DEF IInv, TypeOK
      <4> QED
        BY <1>2, <2>3, <4>1 DEF IInv, Accounted
    <3> QED
      BY <3>1, <3>2
  <2> QED
    BY <2>4, <2>5, <2>6, <2>7 DEF IInv
<1> QED
  BY <1>4, <1>5

\* Every other step leaves the frames and the window's start alone.
LEMMA OtherStepsIInv ==
  ASSUME IInv, TypeOK',
         UNCHANGED <<consumed, out>>,
         received <= received',
         (answer' = "panic") <=> (answer = "panic"),
         ErrorShown'
  PROVE  IInv'
<1>1. (Len(out) \in 0..N)' /\ Aligned'
  BY DEF IInv, Aligned
<1>2. PanicAt'
  BY DEF IInv, PanicAt, Malformed
<1>3. Accounted'
  <2> SUFFICES ASSUME NEW j \in 1..Len(out)
               PROVE  /\ out[j] = [id |-> j, ok |-> j \in Decodable]
                      /\ ~Malformed(j)
                      /\ Start[j+1] <= received'
    BY DEF Accounted, Malformed
  <2>1. /\ out[j] = [id |-> j, ok |-> j \in Decodable]
        /\ ~Malformed(j)
        /\ Start[j+1] <= received
    BY DEF IInv, Accounted
  <2>2. j + 1 \in 1..N+1 /\ Start[j+1] \in Nat
    BY Offsets DEF IInv
  <2>3. received \in Nat /\ received' \in Nat
    BY Offsets DEF IInv, TypeOK
  <2> QED
    BY <2>1, <2>2, <2>3
<1> QED
  BY <1>1, <1>2, <1>3 DEF IInv

LEMMA NextIInv == IInv /\ [Next]_vars => IInv'
<1> SUFFICES ASSUME IInv, [Next]_vars PROVE IInv'
  OBVIOUS
<1>0. Start[N+1] \in Nat /\ cut \in Nat /\ received \in Nat /\ received <= received
  BY Offsets DEF IInv, TypeOK
<1>1. CASE DecodeFrame
  BY <1>1, DecodeFrameIInv
<1>2. CASE NeedMore
  <2>1. TypeOK'
    BY <1>2 DEF IInv, TypeOK, NeedMore
  <2> QED
    BY <1>0, <1>2, <2>1, OtherStepsIInv DEF NeedMore, IInv, ErrorShown
<1>3. CASE DecodeEof
  <2>1. TypeOK'
    BY <1>3 DEF IInv, TypeOK, DecodeEof, Answers
  <2> QED
    BY <1>0, <1>3, <2>1, OtherStepsIInv DEF DecodeEof, Polling, IInv, ErrorShown
<1>4. CASE AfterError
  <2>1. TypeOK'
    BY <1>4 DEF IInv, TypeOK, AfterError, Answers
  <2>2. answer # "panic"
    BY <1>4 DEF IInv, ErrorShown, AfterError
  <2> QED
    BY <1>0, <1>4, <2>1, <2>2, OtherStepsIInv DEF AfterError, ErrorShown
<1>5. ASSUME NEW n \in 1..(cut - received), Read(n)
      PROVE  IInv'
  <2>1. received' = received + n /\ received' \in 0..cut /\ received <= received'
    BY <1>0, <1>5 DEF Read
  <2>2. consumed' \in 0..received'
    BY <1>0, <1>5, <2>1 DEF Read, IInv, TypeOK
  <2>3. TypeOK'
    BY <1>5, <2>1, <2>2 DEF IInv, TypeOK, Read
  <2> QED
    BY <1>5, <2>1, <2>3, OtherStepsIInv DEF Read, Polling, IInv, ErrorShown
<1>6. CASE ReadError
  <2>1. cut' \in 0..Start[N+1] /\ received' \in 0..cut' /\ consumed' \in 0..received'
    BY <1>0, <1>6 DEF IInv, TypeOK, ReadError
  <2>2. TypeOK'
    BY <1>6, <2>1 DEF IInv, TypeOK, ReadError, Answers
  <2> QED
    BY <1>0, <1>6, <2>2, OtherStepsIInv DEF ReadError, Polling, IInv, ErrorShown
<1>7. CASE ReadEof
  <2>1. TypeOK'
    BY <1>7 DEF IInv, TypeOK, ReadEof, Answers
  <2> QED
    BY <1>0, <1>7, <2>1, OtherStepsIInv DEF ReadEof, Polling, IInv, ErrorShown
<1>8. CASE UNCHANGED vars
  <2>1. TypeOK'
    BY <1>8 DEF IInv, TypeOK, vars
  <2> QED
    BY <1>0, <1>8, <2>1, OtherStepsIInv DEF vars, IInv, ErrorShown
<1> QED
  BY <1>1, <1>2, <1>3, <1>4, <1>5, <1>6, <1>7, <1>8 DEF Next

-----------------------------------------------------------------------------
\* Every reachable state satisfies the inductive invariant.
LEMMA Inductive == Spec => []IInv
<1> QED
  BY InitIInv, NextIInv, PTL DEF Spec

\* The state stays within its type, whatever the peer sends and however the
\* network cuts it up.
THEOREM TypeCorrect == Spec => []TypeOK
<1>1. IInv => TypeOK
  BY DEF IInv
<1> QED
  BY <1>1, Inductive, PTL

\* Codec::decode never loses its place: the buffer always begins on a frame
\* boundary, for every stream and every way of reading it.
THEOREM FrameAlignment == Spec => []Aligned
<1>1. IInv => Aligned
  BY DEF IInv
<1> QED
  BY <1>1, Inductive, PTL

\* Every frame reaches the caller whole, once, and in its place.
THEOREM FramesInOrder == Spec => []InOrder
<1>1. IInv => InOrder
  BY DEF IInv, Accounted, InOrder
<1> QED
  BY <1>1, Inductive, PTL

\* Only a frame the peer malformed makes Frame::decode panic; no cutting of
\* well-formed frames does.
THEOREM OnlyMalformedPanics == Spec => []PanicIsMalformedFrame
<1>1. IInv => PanicIsMalformedFrame
  BY DEF IInv, Accounted, PanicAt, PanicIsMalformedFrame
<1> QED
  BY <1>1, Inductive, PTL

-----------------------------------------------------------------------------
\* While decode finds nothing to split off, no frame is complete.
LEMMA NothingTaken ==
  ASSUME IInv, answer # "panic", Taken = 0
  PROVE  \A i \in 1..N : Start[i+1] <= received => i <= Len(out)
<1> SUFFICES ASSUME NEW i \in 1..N, Start[i+1] <= received, Len(out) < i
             PROVE  FALSE
  BY DEF IInv
<1> DEFINE k == Len(out) + 1
<1>1. k \in 1..N /\ k + 1 \in 1..N+1 /\ i + 1 \in 1..N+1 /\ k + 1 <= i + 1
  BY FrameCountAssumption DEF IInv
<1>2. Start[k+1] <= received
  <2>1. Start[k+1] <= Start[i+1] /\ Start[k+1] \in Nat /\ Start[i+1] \in Nat
    BY <1>1, Offsets
  <2>2. received \in Nat
    BY Offsets DEF IInv, TypeOK
  <2> QED
    BY <2>1, <2>2
<1>3. consumed = Start[k] /\ Front = k
  <2>1. consumed = Start[k]
    BY DEF IInv, Aligned
  <2> QED
    BY <1>1, <2>1, FrontOnBoundary
<1>4. Length[k] \in Nat /\ Length[k] >= 4 /\ Length[k] <= Buffered /\ Buffered \in Nat
  <2>1. Start[k+1] = Start[k] + Length[k] /\ Start[k] \in Nat
    BY <1>1, Offsets
  <2>2. Length[k] \in Nat /\ Length[k] >= 4
    BY <1>1, Offsets
  <2>3. received \in Nat
    BY Offsets DEF IInv, TypeOK
  <2> QED
    BY <1>2, <1>3, <2>1, <2>2, <2>3 DEF Buffered
<1>5. CASE k \in Headers
  BY <1>3, <1>4, <1>5, LengthAssumption DEF Taken, PrefixLength, HeaderLength
<1>6. CASE k \notin Headers
  BY <1>3, <1>4, <1>6 DEF Taken, PrefixLength, LengthField
<1> QED
  BY <1>5, <1>6

Rejected == \E j \in 1..Len(out) : ~out[j].ok

\* End of file is seen once everything sent has been read; and the decoder
\* leaves the buffer at end of file, or stops with an error there, only when
\* no complete frame is left in it, or after rejecting one.
DrainInv ==
  /\ eof => received = cut /\ ~reset
  /\ eof /\ (~readable \/ errored) =>
       \/ \A i \in 1..N : Start[i+1] <= received => i <= Len(out)
       \/ Rejected

LEMMA NextDrainInv == IInv /\ IInv' /\ DrainInv /\ [Next]_vars => DrainInv'
<1> SUFFICES ASSUME IInv, IInv', DrainInv, [Next]_vars PROVE DrainInv'
  OBVIOUS
<1>1. CASE DecodeFrame
  <2>1. (eof => received = cut /\ ~reset)'
    BY <1>1 DEF DrainInv, DecodeFrame
  <2>2. readable' /\ ~errored
    BY <1>1 DEF DecodeFrame, Polling
  <2>3. errored' => Rejected'
    <3> SUFFICES ASSUME errored' PROVE Rejected'
      OBVIOUS
    <3> DEFINE o == [id |-> Front, ok |-> Front \in Decodable]
    <3>1. out' = Append(out, o) /\ ~o.ok
      BY <1>1, <2>2 DEF DecodeFrame
    <3>2. Len(out') = Len(out) + 1 /\ out'[Len(out) + 1] = o /\ Len(out) \in Nat
      BY <3>1 DEF IInv, TypeOK
    <3>3. Len(out) + 1 \in 1..Len(out')
      BY <3>2
    <3> QED
      BY <3>1, <3>2, <3>3 DEF Rejected
  <2> QED
    BY <2>1, <2>2, <2>3 DEF DrainInv
<1>2. CASE NeedMore
  BY <1>2 DEF DrainInv, NeedMore
<1>3. CASE DecodeEof
  <2>1. \A i \in 1..N : Start[i+1] <= received => i <= Len(out)
    BY <1>3, NothingTaken DEF DecodeEof, Polling
  <2> QED
    BY <1>3, <2>1 DEF DrainInv, DecodeEof
<1>4. CASE AfterError
  BY <1>4 DEF DrainInv, AfterError, Rejected
<1>5. ASSUME NEW n \in 1..(cut - received), Read(n)
      PROVE  DrainInv'
  BY <1>5 DEF DrainInv, Read
<1>6. CASE ReadError
  BY <1>6 DEF DrainInv, ReadError
<1>7. CASE ReadEof
  BY <1>7 DEF DrainInv, ReadEof, Rejected, Polling
<1>8. CASE UNCHANGED vars
  BY <1>8 DEF DrainInv, vars, Rejected
<1> QED
  BY <1>1, <1>2, <1>3, <1>4, <1>5, <1>6, <1>7, <1>8 DEF Next

\* A caller told None at the end of the stream has been given every frame that
\* arrived in full, unless the decoder stopped at one it rejected.
THEOREM DrainedAtEnd == Spec => []NoneMeansDrained
<1>1. Init => DrainInv
  BY DEF Init, DrainInv
<1>2. DrainInv => NoneMeansDrained
  BY DEF DrainInv, NoneMeansDrained, Ended, Rejected
<1> QED
  BY <1>1, <1>2, Inductive, NextDrainInv, PTL DEF Spec

-----------------------------------------------------------------------------
\* Each step of the decoder is a step of the abstract stream, or none.
LEMMA StepSimulation == IInv /\ IInv' /\ [Next]_vars => [Stream!Next]_(Stream!vars)
<1> SUFFICES ASSUME IInv, IInv', [Next]_vars
             PROVE  Stream!Next \/ UNCHANGED Stream!vars
  OBVIOUS
<1> DEFINE k == Len(out) + 1
<1>1. CASE DecodeFrame
  <2>1. k \in 1..N /\ Front = k /\ Len(out) \in Nat /\ Len(out) < N
    <3>1. consumed = Start[k]
      BY <1>1 DEF IInv, Aligned, DecodeFrame, Polling
    <3> QED
      BY <1>1, <3>1, TakenIsOneFrame, FrameCountAssumption DEF IInv, DecodeFrame
  <2>2. Stream!Polled
    BY <1>1 DEF DecodeFrame, Polling, Stream!Polled, IInv, ErrorShown
  <2>3. CASE Malformed(k)
    <3>1. Stream!Panic
      BY <1>1, <2>1, <2>2, <2>3 DEF Stream!Panic, DecodeFrame
    <3> QED
      BY <3>1 DEF Stream!Next
  <2>4. CASE ~Malformed(k)
    <3>1. Len(out') = k
      BY <1>1, <2>1, <2>4 DEF DecodeFrame, IInv, TypeOK
    <3>2. CASE k \in Decodable
      <4>1. Stream!Frame
        BY <1>1, <2>1, <2>2, <2>4, <3>1, <3>2 DEF Stream!Frame, DecodeFrame
      <4> QED
        BY <4>1 DEF Stream!Next
    <3>3. CASE k \notin Decodable
      <4>1. Stream!Reject
        BY <1>1, <2>1, <2>2, <2>4, <3>1, <3>3 DEF Stream!Reject, DecodeFrame
      <4> QED
        BY <4>1 DEF Stream!Next
    <3> QED
      BY <3>2, <3>3
  <2> QED
    BY <2>3, <2>4
<1>2. CASE NeedMore
  BY <1>2 DEF NeedMore, Stream!vars
<1>3. CASE DecodeEof
  BY <1>3 DEF DecodeEof, Polling, IInv, ErrorShown, Stream!Next, Stream!End, Stream!Lost, Stream!Polled
<1>4. CASE AfterError
  BY <1>4 DEF AfterError, IInv, ErrorShown, Stream!Next, Stream!End
<1>5. ASSUME NEW n \in 1..(cut - received), Read(n)
      PROVE  UNCHANGED Stream!vars
  BY <1>5 DEF Read, Stream!vars
<1>6. CASE ReadError
  BY <1>6 DEF ReadError, Polling, IInv, ErrorShown, Stream!Next, Stream!Lost, Stream!Polled
<1>7. CASE ReadEof
  BY <1>7 DEF ReadEof, Polling, Stream!Next, Stream!End, Stream!vars
<1>8. CASE UNCHANGED vars
  BY <1>8 DEF vars, Stream!vars
<1> QED
  BY <1>1, <1>2, <1>3, <1>4, <1>5, <1>6, <1>7, <1>8 DEF Next

\* Whatever the network does with the bytes, the caller of Framed sees the
\* stream of frames that FrameStream describes.
THEOREM ImplementsFrameStream == Spec => ImplementsStream
<1>1. Init => Stream!Init
  BY DEF Init, Stream!Init
<1> QED
  BY <1>1, Inductive, StepSimulation, PTL DEF Spec, ImplementsStream, Stream!Spec
=============================================================================
