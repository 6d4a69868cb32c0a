-------------------------- MODULE FrameFormat_proofs --------------------------
(***************************************************************************)
(* Proofs about FrameFormat for every set of frames the assumption allows: *)
(* every extended header, channel, descriptor and spare byte.              *)
(*                                                                         *)
(* Written says byte by byte what either writer wrote.  From there a frame *)
(* without an extended header is read along one path, at fixed positions;  *)
(* one with an extended header is read from inside that header.            *)
(***************************************************************************)
EXTENDS FrameFormat, SequenceTheorems, TLAPS

\* The extended header as it was written: this library writes none.
Extra == IF sent.writer = "own" THEN <<>> ELSE sent.extended

Written ==
  /\ input \in Seq(Nat)
  /\ Len(input) = 4 + Len(Extra) + Len(Content(sent))
  /\ input[1] = 2 + Len(Extra) \div 4 /\ input[2] = TypeByte[sent.kind]
  /\ input[3] = sent.spare[1] /\ input[4] = sent.spare[2]
  /\ \A i \in 1..Len(Extra) : input[4 + i] = Extra[i]
  /\ \A i \in 1..Len(Content(sent)) : input[4 + Len(Extra) + i] = Content(sent)[i]

Reading(extended, code, message) ==
  [kind |-> sent.kind, extended |-> extended, spare |-> sent.spare, code |-> code,
   message |-> message]

NothingRead ==
  [kind |-> "none", extended |-> <<>>, spare |-> <<0, 0>>, code |-> Empty, message |-> FALSE]

BadSpare == sent.kind = "sasl" /\ sent.spare # <<0, 0>>

\* The one path of a frame without an extended header, and where it ends.
PlainPath ==
  Extra = <<>> =>
    /\ pc = "header" =>
         \/ outcome = "running"
         \/ outcome = "panic" /\ BadSpare
         \/ outcome = "err" /\ sent.kind = "other"
    /\ pc = "identifier" =>
         /\ at = 5 /\ decoded = Reading(<<>>, Empty, FALSE)
         /\ outcome = "running" \/ (outcome = "err" /\ sent.code = Empty)
    /\ pc = "fields" =>
         /\ at = 8 /\ decoded = Reading(<<>>, sent.code, FALSE)
         /\ outcome = "running" /\ sent.code # Empty
    /\ pc = "message" =>
         /\ at = 9 /\ sent.code # Empty
         /\ \/ outcome = "running" /\ decoded = Reading(<<>>, sent.code, FALSE)
            \/ outcome = "ok" /\ decoded = Reading(<<>>, sent.code, sent.message)

\* Where the extended header is read from, a descriptor seems to start.
LooksDescribed ==
  /\ sent.kind # "other"
  /\ \/ /\ sent.extended[FirstRead] \in ByteNumbers
        /\ sent.extended[FirstRead + 1] \in
             IF sent.kind = "amqp" THEN Performatives ELSE SaslBodies
     \/ sent.extended[FirstRead] \in {ULong} \cup Names
\* What is left is shorter than a number of four bytes.
ShortNumber ==
  /\ sent.kind # "other"
  /\ sent.extended[FirstRead] \in UInts
  /\ sent.code = Empty /\ Len(sent.extended) < FirstRead + 3

ExtendedPath ==
  Extra # <<>> =>
    /\ pc = "header" =>
         \/ outcome = "running"
         \/ outcome = "panic" /\ BadSpare
         \/ outcome = "err"
    /\ pc = "identifier" =>
         /\ at = IF sent.kind = "amqp" THEN 5 + Len(Extra) \div 4 ELSE 5
         /\ outcome \in {"running", "err"} \/ LooksDescribed \/ (outcome = "panic" /\ ShortNumber)
    /\ pc \in {"fields", "message"} => LooksDescribed
    /\ pc \in {"identifier", "fields", "message"} => decoded.extended # sent.extended

FrameInv ==
  /\ sent \in Frames
  /\ pc \in {"encode", "header", "identifier", "fields", "message"}
  /\ pc = "encode" => outcome = "running" /\ at = 1
  /\ pc \in {"encode", "header"} => decoded = NothingRead
  /\ pc # "encode" => Written
  /\ pc \in {"identifier", "fields", "message"} =>
       /\ decoded.kind = sent.kind /\ sent.kind \in {"amqp", "sasl"} /\ ~BadSpare
       /\ decoded \in [kind : {"amqp", "sasl"}, extended : Seq(Nat), spare : Nat \X Nat,
                       code : Nat, message : BOOLEAN]
  /\ PlainPath /\ ExtendedPath

-----------------------------------------------------------------------------
LEMMA FrameFacts ==
  ASSUME sent \in Frames
  PROVE  /\ sent.writer \in {"own", "peer"} /\ sent.kind \in {"amqp", "sasl", "other"}
         /\ sent.extended \in Seq(0..255) /\ sent.message \in BOOLEAN
         /\ sent.spare \in (0..255) \X (0..255) /\ sent.spare = <<sent.spare[1], sent.spare[2]>>
         /\ sent.spare[1] \in Nat /\ sent.spare[2] \in Nat
         /\ sent.code \in Nat /\ Len(sent.extended) % 4 = 0
         /\ sent.code = Empty => ~sent.message
         /\ sent.kind = "amqp" => sent.code \in Performatives \cup {Empty}
         /\ sent.kind = "sasl" => sent.code \in SaslBodies \cup {Empty} /\ ~sent.message
         /\ sent.writer = "own" =>
              sent.kind # "other" /\ sent.code # Empty /\ (sent.kind = "sasl" => sent.spare = <<0, 0>>)
<1>1. /\ sent \in [writer : {"own", "peer"}, kind : {"amqp", "sasl", "other"},
                   extended : Seq(0..255), spare : (0..255) \X (0..255),
                   code : Performatives \cup SaslBodies \cup {Empty}, message : BOOLEAN]
      /\ Len(sent.extended) % 4 = 0
      /\ sent.code = Empty => ~sent.message
      /\ sent.kind = "amqp" => sent.code \in Performatives \cup {Empty}
      /\ sent.kind = "sasl" => sent.code \in SaslBodies \cup {Empty} /\ ~sent.message
      /\ sent.writer = "own" =>
           /\ sent.kind # "other" /\ sent.code # Empty
           /\ sent.kind = "sasl" => sent.spare = <<0, 0>>
  BY FramesAssumption, ZenonT(30)
<1>2. sent.spare = <<sent.spare[1], sent.spare[2]>> /\ sent.spare[1] \in Nat /\ sent.spare[2] \in Nat
  <2>1. sent.spare \in (0..255) \X (0..255)
    BY <1>1
  <2>2. \A p \in (0..255) \X (0..255) : p = <<p[1], p[2]>> /\ p[1] \in Nat /\ p[2] \in Nat
    BY SMT
  <2> QED  BY <2>1, <2>2
<1>3. sent.code \in Nat
  <2>1. sent.code \in Performatives \cup SaslBodies \cup {Empty}
    BY <1>1
  <2>2. 2..255 \subseteq Nat /\ Empty \in Nat
    BY SMT DEF Empty
  <2> QED  BY <2>1, <2>2, FramesAssumption
<1> QED  BY <1>1, <1>2, <1>3

\* The parts of a concatenation, each by its own index.
LEMMA ConcatParts ==
  ASSUME NEW s \in Seq(Nat), NEW t \in Seq(Nat)
  PROVE  /\ s \o t \in Seq(Nat)
         /\ Len(s \o t) = Len(s) + Len(t) /\ Len(s) \in Nat /\ Len(t) \in Nat
         /\ \A i \in 1..Len(s) : (s \o t)[i] = s[i]
         /\ \A i \in 1..Len(t) : (s \o t)[Len(s) + i] = t[i]
<1>1. Len(s) \in Nat /\ Len(t) \in Nat
  BY LenProperties
<1>2. \A i \in 1..Len(s) : i \in 1..Len(s) + Len(t) /\ i <= Len(s)
  BY <1>1, SMT
<1>3. \A i \in 1..Len(t) : /\ Len(s) + i \in 1..Len(s) + Len(t) /\ ~(Len(s) + i <= Len(s))
                           /\ Len(s) + i - Len(s) = i
  BY <1>1, SMT
<1> DEFINE st == s \o t
<1>4. /\ st \in Seq(Nat) /\ Len(st) = Len(s) + Len(t)
      /\ \A i \in 1..Len(s) + Len(t) : st[i] = IF i <= Len(s) THEN s[i] ELSE t[i - Len(s)]
  BY ConcatProperties, Zenon
<1> HIDE DEF st
<1> QED  BY <1>1, <1>2, <1>3, <1>4 DEF st

LEMMA ByteSeq == ASSUME NEW s \in Seq(0..255) PROVE s \in Seq(Nat)
<1>1. 0..255 \subseteq Nat
  BY SMT
<1> QED  BY <1>1, SeqMonotonic

\* What follows the headers.
LEMMA Contents ==
  ASSUME sent \in Frames
  PROVE  /\ Content(sent) \in Seq(Nat)
         /\ sent.code = Empty => Len(Content(sent)) = IF sent.message THEN 1 ELSE 0
         /\ sent.code = Empty /\ sent.message => Content(sent)[1] = Message
         /\ sent.code # Empty =>
              /\ Len(Content(sent)) = IF sent.message THEN 5 ELSE 4
              /\ Content(sent)[1] = Described /\ Content(sent)[2] = SmallULong
              /\ Content(sent)[3] = sent.code /\ Content(sent)[4] = Fields
              /\ sent.message => Content(sent)[5] = Message
<1> DEFINE c == sent.code
<1>1. c \in Nat
  BY FrameFacts
<1> HIDE DEF c
<1> DEFINE D == <<Described, SmallULong, c, Fields>>
           M == <<Message>>
           E == <<>>
<1>2. D \in Seq(Nat) /\ M \in Seq(Nat) /\ E \in Seq(Nat) /\ Len(D) = 4 /\ Len(M) = 1 /\ Len(E) = 0
  BY <1>1 DEF Described, SmallULong, Fields, Message
<1>3. D[1] = Described /\ D[2] = SmallULong /\ D[3] = c /\ D[4] = Fields /\ M[1] = Message
  OBVIOUS
<1>4. Content(sent) = (IF c = Empty THEN E ELSE D) \o (IF sent.message THEN M ELSE E)
  BY DEF Content, c
<1> HIDE DEF D, M, E
<1>5. E \o M \in Seq(Nat) /\ Len(E \o M) = 1 /\ (E \o M)[1] = Message
  <2> DEFINE x == E \o M
  <2>1. /\ x \in Seq(Nat) /\ Len(x) = Len(E) + Len(M)
        /\ \A i \in 1..Len(M) : x[Len(E) + i] = M[i]
    BY <1>2, ConcatParts
  <2> HIDE DEF x
  <2>2. x[0 + 1] = M[1] /\ Len(x) = 1
    BY <1>2, <2>1, SMT
  <2> QED  BY <1>3, <2>1, <2>2 DEF x
<1>6. E \o E \in Seq(Nat) /\ Len(E \o E) = 0
  <2> DEFINE x == E \o E
  <2>1. x \in Seq(Nat) /\ Len(x) = Len(E) + Len(E)
    BY <1>2, ConcatParts
  <2> HIDE DEF x
  <2>2. Len(x) = 0
    BY <1>2, <2>1, SMT
  <2> QED  BY <2>1, <2>2 DEF x
<1>7. /\ D \o M \in Seq(Nat) /\ Len(D \o M) = 5 /\ (D \o M)[1] = D[1] /\ (D \o M)[2] = D[2]
      /\ (D \o M)[3] = D[3] /\ (D \o M)[4] = D[4] /\ (D \o M)[5] = M[1]
  <2> DEFINE x == D \o M
  <2>1. /\ x \in Seq(Nat) /\ Len(x) = Len(D) + Len(M)
        /\ \A i \in 1..Len(D) : x[i] = D[i]
        /\ \A i \in 1..Len(M) : x[Len(D) + i] = M[i]
    BY <1>2, ConcatParts
  <2> HIDE DEF x
  <2>2. Len(x) = 5 /\ x[1] = D[1] /\ x[2] = D[2] /\ x[3] = D[3] /\ x[4] = D[4] /\ x[4 + 1] = M[1]
    BY <1>2, <2>1, SMT
  <2>3. x[5] = M[1]
    BY <2>2, SMT
  <2> QED  BY <2>1, <2>2, <2>3 DEF x
<1>8. /\ D \o E \in Seq(Nat) /\ Len(D \o E) = 4 /\ (D \o E)[1] = D[1] /\ (D \o E)[2] = D[2]
      /\ (D \o E)[3] = D[3] /\ (D \o E)[4] = D[4]
  <2> DEFINE x == D \o E
  <2>1. /\ x \in Seq(Nat) /\ Len(x) = Len(D) + Len(E)
        /\ \A i \in 1..Len(D) : x[i] = D[i]
    BY <1>2, ConcatParts
  <2> HIDE DEF x
  <2>2. Len(x) = 4 /\ x[1] = D[1] /\ x[2] = D[2] /\ x[3] = D[3] /\ x[4] = D[4]
    BY <1>2, <2>1, SMT
  <2> QED  BY <2>1, <2>2 DEF x
<1>9. CASE c = Empty /\ sent.message
  BY <1>4, <1>5, <1>9 DEF c
<1>10. CASE c = Empty /\ ~sent.message
  BY <1>4, <1>6, <1>10 DEF c
<1>11. CASE c # Empty /\ sent.message
  BY <1>3, <1>4, <1>7, <1>11 DEF c
<1>12. CASE c # Empty /\ ~sent.message
  BY <1>3, <1>4, <1>8, <1>12 DEF c
<1> QED  BY <1>9, <1>10, <1>11, <1>12

\* The parts of a frame, each by its own index.
Joined(w, s, p, t, u) ==
  /\ w \in Seq(Nat) /\ Len(w) = 4 + Len(t) + Len(u)
  /\ w[1] = s[1] /\ w[2] = s[2] /\ w[3] = p[1] /\ w[4] = p[2]
  /\ \A i \in 1..Len(t) : w[4 + i] = t[i]
  /\ \A i \in 1..Len(u) : w[4 + Len(t) + i] = u[i]

LEMMA Parts ==
  ASSUME NEW s \in Seq(Nat), NEW p \in Seq(Nat), NEW t \in Seq(Nat), NEW u \in Seq(Nat),
         Len(s) = 2, Len(p) = 2
  PROVE  Joined(s \o p \o t \o u, s, p, t, u)
<1> DEFINE h == s \o p
           v == h \o t
           w == v \o u
<1>1. /\ h \in Seq(Nat) /\ Len(h) = Len(s) + Len(p)
      /\ \A i \in 1..Len(s) : h[i] = s[i]
      /\ \A i \in 1..Len(p) : h[Len(s) + i] = p[i]
  BY ConcatParts
<1> HIDE DEF h
<1>2. Len(h) = 4 /\ h[1] = s[1] /\ h[2] = s[2] /\ h[2 + 1] = p[1] /\ h[2 + 2] = p[2]
  BY <1>1, SMT
<1>3. h[3] = p[1] /\ h[4] = p[2]
  BY <1>2, SMT
<1>4. /\ v \in Seq(Nat) /\ Len(v) = Len(h) + Len(t) /\ Len(t) \in Nat
      /\ \A i \in 1..Len(h) : v[i] = h[i]
      /\ \A i \in 1..Len(t) : v[Len(h) + i] = t[i]
  BY <1>1, ConcatParts
<1> HIDE DEF v
<1>5. /\ w \in Seq(Nat) /\ Len(w) = Len(v) + Len(u) /\ Len(v) \in Nat /\ Len(u) \in Nat
      /\ \A i \in 1..Len(v) : w[i] = v[i]
      /\ \A i \in 1..Len(u) : w[Len(v) + i] = u[i]
  BY <1>4, ConcatParts
<1> HIDE DEF w
<1>6. Len(v) = 4 + Len(t) /\ Len(w) = 4 + Len(t) + Len(u)
  BY <1>2, <1>4, <1>5, SMT
<1>7. w[1] = v[1] /\ w[2] = v[2] /\ w[3] = v[3] /\ w[4] = v[4]
  <2>1. 1 \in 1..Len(v) /\ 2 \in 1..Len(v) /\ 3 \in 1..Len(v) /\ 4 \in 1..Len(v)
    BY <1>4, <1>6, SMT
  <2> QED  BY <1>5, <2>1
<1>8. v[1] = h[1] /\ v[2] = h[2] /\ v[3] = h[3] /\ v[4] = h[4]
  BY <1>2, <1>4, SMT
<1>9. \A i \in 1..Len(t) : w[4 + i] = t[i]
  <2>1. \A i \in 1..Len(t) : 4 + i \in 1..Len(v)
    BY <1>4, <1>6, SMT
  <2> QED  BY <1>2, <1>4, <1>5, <2>1, ZenonT(30)
<1>10. \A i \in 1..Len(u) : w[4 + Len(t) + i] = u[i]
  BY <1>5, <1>6
<1>11. /\ w \in Seq(Nat) /\ Len(w) = 4 + Len(t) + Len(u)
       /\ w[1] = s[1] /\ w[2] = s[2] /\ w[3] = p[1] /\ w[4] = p[2]
  BY <1>2, <1>3, <1>5, <1>6, <1>7, <1>8
<1>12. w = s \o p \o t \o u
  BY DEF w, v, h
<1> QED  BY <1>9, <1>10, <1>11, <1>12 DEF Joined

\* Subsequences of none, one and two.
LEMMA Cuts ==
  ASSUME NEW s \in Seq(Nat), NEW i \in Nat \ {0}
  PROVE  /\ i <= Len(s) => SubSeq(s, i, i) = <<s[i]>>
         /\ i + 1 <= Len(s) => SubSeq(s, i, i + 1) = <<s[i], s[i + 1]>>
         /\ SubSeq(s, i, i - 1) = <<>>
<1>1. ASSUME i <= Len(s) PROVE SubSeq(s, i, i) = <<s[i]>>
  <2> DEFINE x == SubSeq(s, i, i)
             y == <<s[i]>>
  <2>1. x \in Seq(Nat) /\ Len(x) = 1 /\ x[1] = s[i]
    BY <1>1, SMT
  <2>2. y \in Seq(Nat) /\ Len(y) = 1 /\ y[1] = s[i]
    BY <1>1, SMT
  <2>3. \A j \in 1..1 : j = 1
    BY SMT
  <2> HIDE DEF x, y
  <2>4. x = y
    BY <2>1, <2>2, <2>3, SeqEqual
  <2> QED  BY <2>4 DEF x, y
<1>2. ASSUME i + 1 <= Len(s) PROVE SubSeq(s, i, i + 1) = <<s[i], s[i + 1]>>
  <2> DEFINE x == SubSeq(s, i, i + 1)
             y == <<s[i], s[i + 1]>>
  <2>1. x \in Seq(Nat) /\ Len(x) = 2 /\ x[1] = s[i] /\ x[2] = s[i + 1]
    BY <1>2, SMT
  <2>2. y \in Seq(Nat) /\ Len(y) = 2 /\ y[1] = s[i] /\ y[2] = s[i + 1]
    BY <1>2, SMT
  <2>3. \A j \in 1..2 : j \in {1, 2}
    BY SMT
  <2> HIDE DEF x, y
  <2>4. x = y
    BY <2>1, <2>2, <2>3, SeqEqual
  <2> QED  BY <2>4 DEF x, y
<1>3. SubSeq(s, i, i - 1) = <<>>
  BY SMT
<1> QED  BY <1>1, <1>2, <1>3

\* A frame without an extended header, byte by byte.
LEMMA PlainBytes ==
  ASSUME sent \in Frames, Written, Extra = <<>>
  PROVE  /\ input \in Seq(Nat) /\ input[1] = 2
         /\ sent.code = Empty =>
              /\ Len(input) = IF sent.message THEN 5 ELSE 4
              /\ sent.message => input[5] = Message
         /\ sent.code # Empty =>
              /\ Len(input) = IF sent.message THEN 9 ELSE 8
              /\ input[5] = Described /\ input[6] = SmallULong
              /\ input[7] = sent.code /\ input[8] = Fields
              /\ sent.message => input[9] = Message
<1> DEFINE C == Content(sent)
<1>1. /\ input \in Seq(Nat) /\ Len(input) = 4 + 0 + Len(C) /\ input[1] = 2 + 0 \div 4
      /\ \A i \in 1..Len(C) : input[4 + 0 + i] = C[i]
  BY DEF Written
<1>2. /\ C \in Seq(Nat)
      /\ sent.code = Empty => Len(C) = IF sent.message THEN 1 ELSE 0
      /\ sent.code = Empty /\ sent.message => C[1] = Message
      /\ sent.code # Empty =>
           /\ Len(C) = IF sent.message THEN 5 ELSE 4
           /\ C[1] = Described /\ C[2] = SmallULong
           /\ C[3] = sent.code /\ C[4] = Fields
           /\ sent.message => C[5] = Message
  BY Contents
<1>3. sent.message \in BOOLEAN
  BY FrameFacts
<1> HIDE DEF C
<1>4. input[1] = 2
  BY <1>1, SMT
<1>5. ASSUME NEW j \in 1..5, j <= Len(C) PROVE input[4 + j] = C[j]
  <2>1. j \in 1..Len(C) /\ 4 + 0 + j = 4 + j
    BY <1>5, <1>2, SMT
  <2> QED  BY <1>1, <2>1
<1>6. CASE sent.code = Empty /\ sent.message
  <2>1. Len(C) = 1 /\ C[1] = Message
    BY <1>2, <1>6
  <2>2. Len(input) = 5 /\ input[4 + 1] = C[1]
    BY <1>1, <1>5, <2>1, SMT
  <2>3. input[5] = C[1]
    BY <2>2, SMT
  <2> QED  BY <1>1, <1>4, <1>6, <2>1, <2>2, <2>3
<1>7. CASE sent.code = Empty /\ ~sent.message
  <2>1. Len(input) = 4
    BY <1>1, <1>2, <1>7, SMT
  <2> QED  BY <1>1, <1>4, <1>7, <2>1
<1>8. CASE sent.code # Empty
  <2>1. Len(C) >= 4 /\ Len(input) = IF sent.message THEN 9 ELSE 8
    <3>1. Len(C) = IF sent.message THEN 5 ELSE 4
      BY <1>2, <1>8
    <3> QED  BY <1>1, <3>1, SMT
  <2>2. /\ input[4 + 1] = C[1] /\ input[4 + 2] = C[2] /\ input[4 + 3] = C[3]
        /\ input[4 + 4] = C[4]
    <3>1. /\ 1 \in 1..5 /\ 2 \in 1..5 /\ 3 \in 1..5 /\ 4 \in 1..5
          /\ 1 <= Len(C) /\ 2 <= Len(C) /\ 3 <= Len(C) /\ 4 <= Len(C)
      BY <1>2, <2>1, SMT
    <3> QED  BY <1>5, <3>1
  <2>3. sent.message => input[4 + 5] = C[5]
    <3>1. sent.message => 5 \in 1..5 /\ 5 <= Len(C)
      BY <1>2, <1>8, SMT
    <3> QED  BY <1>5, <3>1
  <2>4. input[5] = C[1] /\ input[6] = C[2] /\ input[7] = C[3] /\ input[8] = C[4]
        /\ (sent.message => input[9] = C[5])
    <3>1. 4 + 1 = 5 /\ 4 + 2 = 6 /\ 4 + 3 = 7 /\ 4 + 4 = 8 /\ 4 + 5 = 9
      BY SMT
    <3> QED  BY <2>2, <2>3, <3>1
  <2> QED  BY <1>1, <1>2, <1>4, <1>8, <2>1, <2>4
<1> QED  BY <1>3, <1>6, <1>7, <1>8

\* A frame with one: four bytes for every word the offset counts.
LEMMA ExtendedBytes ==
  ASSUME sent \in Frames, Written, Extra # <<>>
  PROVE  \E k \in Nat \ {0} :
           /\ sent.writer = "peer" /\ Extra = sent.extended /\ Len(sent.extended) = 4 * k
           /\ k = Len(Extra) \div 4
           /\ input \in Seq(Nat) /\ input[1] = 2 + k /\ Len(input) >= 4 + 4 * k
           /\ \A i \in 1..Len(sent.extended) : input[4 + i] = sent.extended[i]
<1>1. sent.writer = "peer" /\ Extra = sent.extended
  BY FrameFacts DEF Extra
<1> DEFINE n == Len(sent.extended)
<1>2. n \in Nat /\ n # 0 /\ n % 4 = 0
  BY <1>1, FrameFacts, EmptySeq
<1> HIDE DEF n
<1>3. n \div 4 \in Nat \ {0} /\ n = 4 * (n \div 4)
  BY <1>2, SMT
<1>4. Len(Content(sent)) \in Nat
  BY Contents, LenProperties
<1>5. /\ input \in Seq(Nat) /\ input[1] = 2 + n \div 4 /\ Len(input) >= 4 + 4 * (n \div 4)
      /\ \A i \in 1..n : input[4 + i] = sent.extended[i]
  <2>1. /\ input \in Seq(Nat) /\ input[1] = 2 + n \div 4
        /\ Len(input) = 4 + n + Len(Content(sent))
        /\ \A i \in 1..n : input[4 + i] = sent.extended[i]
    BY <1>1 DEF Written, n
  <2>2. Len(input) >= 4 + n
    BY <1>2, <1>4, <2>1, SMT
  <2> QED  BY <1>3, <2>1, <2>2
<1> QED  BY <1>1, <1>3, <1>5 DEF n

-----------------------------------------------------------------------------
LEMMA FrameInit == Init => FrameInv
BY DEF Init, FrameInv, NothingRead, PlainPath, ExtendedPath

LEMMA EncodeStep ==
  ASSUME FrameInv, Encode \/ PeerEncode
  PROVE  FrameInv'
<1>1. /\ sent \in Frames /\ sent' = sent /\ pc' = "header" /\ outcome' = "running"
      /\ decoded' = NothingRead /\ Extra' = Extra /\ Content(sent)' = Content(sent)
  BY DEF FrameInv, Encode, PeerEncode, Runs, Extra, Content
<1> DEFINE d == 2 + Len(Extra) \div 4
           k == TypeByte[sent.kind]
           s == <<d, k>>
           a == sent.spare[1]
           b == sent.spare[2]
           t == Extra
           u == Content(sent)
<1>2. a \in Nat /\ b \in Nat /\ sent.spare = <<a, b>> /\ u \in Seq(Nat)
  BY <1>1, FrameFacts, Contents
<1>3. t \in Seq(Nat)
  <2>1. sent.extended \in Seq(0..255)
    BY <1>1, FrameFacts
  <2>2. sent.extended \in Seq(Nat) /\ <<>> \in Seq(Nat)
    BY <2>1, ByteSeq, EmptySeq
  <2> QED  BY <2>2 DEF Extra
<1>4. d \in Nat /\ k \in Nat
  <2>1. sent.kind \in {"amqp", "sasl", "other"}
    BY <1>1, FrameFacts
  <2>2. k \in {0, 1, 2}
    BY <2>1 DEF TypeByte
  <2>3. Len(t) \in Nat
    BY <1>3, LenProperties
  <2> HIDE DEF t, k
  <2>4. 2 + Len(t) \div 4 \in Nat
    BY <2>3, SMT
  <2> QED  BY <2>2, <2>4 DEF t
<1>5. s \in Seq(Nat)
  BY <1>4
<1>6. input' = s \o <<a, b>> \o t \o u
  <2>1. CASE Encode
    <3>1. t = <<>> /\ s = <<2, k>>
      BY <2>1 DEF Encode, Extra
    <3>2. (IF sent.kind = "sasl" THEN <<0, 0>> ELSE sent.spare) = <<a, b>>
      BY <1>1, <1>2, <2>1, FrameFacts DEF Encode
    <3>3. input' = s \o <<a, b>> \o u
      BY <2>1, <3>1, <3>2 DEF Encode
    <3> HIDE DEF s, u, a, b
    <3>4. <<a, b>> \in Seq(Nat) /\ s \o <<a, b>> \in Seq(Nat)
      BY <1>2, <1>5, ConcatProperties
    <3>5. s \o <<a, b>> \o <<>> = s \o <<a, b>>
      BY <3>4, ConcatEmptySeq
    <3> QED  BY <3>1, <3>3, <3>5
  <2>2. CASE PeerEncode
    <3>1. t = sent.extended
      BY <1>1, <2>2, FrameFacts DEF PeerEncode, Extra
    <3> QED  BY <1>2, <2>2, <3>1 DEF PeerEncode
  <2> QED  BY <2>1, <2>2
<1>7. Written'
  <2> DEFINE p == <<a, b>>
  <2>1. p \in Seq(Nat) /\ Len(p) = 2 /\ p[1] = a /\ p[2] = b
    BY <1>2
  <2>2. Len(s) = 2 /\ s[1] = d /\ s[2] = k
    OBVIOUS
  <2>3. input' = s \o p \o t \o u
    BY <1>6
  <2> HIDE DEF s, d, k, a, b, t, u, p
  <2>4. Joined(s \o p \o t \o u, s, p, t, u)
    BY <1>2, <1>3, <1>5, <2>1, <2>2, Parts
  <2> QED  BY <1>1, <2>1, <2>2, <2>3, <2>4 DEF Joined, Written, d, k, a, b, t, u
<1> HIDE DEF s, d, k, a, b, t, u
<1> QED  BY <1>1, <1>7 DEF FrameInv, PlainPath, ExtendedPath, NothingRead

LEMMA HeaderStep ==
  ASSUME FrameInv, DecodeAmqp \/ DecodeSasl \/ DecodeOther
  PROVE  FrameInv'
<1>1. /\ sent \in Frames /\ sent' = sent /\ input' = input /\ Written /\ pc = "header"
      /\ decoded = NothingRead /\ outcome = "running"
  BY DEF FrameInv, DecodeAmqp, DecodeSasl, DecodeOther, Runs, Finish
<1>2. Written' /\ Extra' = Extra /\ (BadSpare' <=> BadSpare) 
      /\ (LooksDescribed' <=> LooksDescribed) /\ (ShortNumber' <=> ShortNumber)
  BY <1>1 DEF Written, Extra, Content, BadSpare, LooksDescribed, ShortNumber, FirstRead
<1>3. /\ input[2] = TypeByte[sent.kind] /\ sent.kind \in {"amqp", "sasl", "other"}
      /\ input[3] = sent.spare[1] /\ input[4] = sent.spare[2] /\ input \in Seq(Nat)
      /\ sent.spare = <<sent.spare[1], sent.spare[2]>>
      /\ sent.spare[1] \in Nat /\ sent.spare[2] \in Nat
  BY <1>1, FrameFacts DEF Written
<1>4. /\ sent.kind = "amqp" <=> input[2] = TypeByte.amqp
      /\ sent.kind = "sasl" <=> input[2] = TypeByte.sasl
  BY <1>3, SMT DEF TypeByte
<1>5. Len(input) >= 4 /\ Len(Extra) \in Nat
  <2>1. Len(Content(sent)) \in Nat /\ Len(Extra) \in Nat
    <3>1. Extra \in Seq(0..255) \/ Extra = <<>>
      BY <1>1, FrameFacts DEF Extra
    <3> QED  BY <1>1, <3>1, Contents, LenProperties, EmptySeq
  <2>2. Len(input) = 4 + Len(Extra) + Len(Content(sent))
    BY <1>1 DEF Written
  <2> QED  BY <2>1, <2>2, SMT
<1>6. SubSeq(input, 3, 4) = sent.spare
  <2>1. 3 \in Nat \ {0} /\ 3 + 1 = 4
    OBVIOUS
  <2> QED  BY <1>3, <1>5, <2>1, Cuts
<1>7. CASE outcome' # "running"
  <2>1. /\ pc' = pc /\ decoded' = decoded
        /\ \/ outcome' = "err" /\ sent.kind = "other"
           \/ outcome' = "panic" /\ BadSpare
    BY <1>1, <1>3, <1>4, <1>6, <1>7 DEF DecodeAmqp, DecodeSasl, DecodeOther, Finish, BadSpare
  <2> QED  BY <1>1, <1>2, <2>1 DEF FrameInv, PlainPath, ExtendedPath, NothingRead
<1>8. CASE outcome' = "running"
  <2> DEFINE D == decoded'
  <2>1. \/ /\ sent.kind = "sasl" /\ at' = 5 /\ sent.spare = <<0, 0>>
           /\ D = [NothingRead EXCEPT !.kind = "sasl"]
        \/ /\ sent.kind = "amqp" /\ at' = Doff + 3
           /\ D = [NothingRead EXCEPT !.kind = "amqp", !.spare = sent.spare,
                                      !.extended = SubSeq(input, 5, Doff + 2)]
    BY <1>1, <1>3, <1>4, <1>6, <1>8 DEF DecodeAmqp, DecodeSasl, DecodeOther, Finish
  <2>2. pc' = "identifier"
    BY <1>1, <1>8 DEF DecodeAmqp, DecodeSasl, DecodeOther, Finish
  <2> HIDE DEF D
  <2>3. \/ sent.kind = "sasl" /\ at' = 5 /\ D = Reading(<<>>, Empty, FALSE)
        \/ /\ sent.kind = "amqp" /\ at' = Doff + 3
           /\ D = Reading(SubSeq(input, 5, Doff + 2), Empty, FALSE)
    BY <2>1 DEF NothingRead, Reading
  <2>4. /\ Doff \in Nat /\ SubSeq(input, 5, Doff + 2) \in Seq(Nat) /\ sent.spare \in Nat \X Nat
        /\ <<>> \in Seq(Nat) /\ Empty \in Nat
    <3>1. Doff = 2 + Len(Extra) \div 4
      BY <1>1 DEF Written, Doff
    <3>2. Doff \in Nat
      BY <1>5, <3>1, SMT
    <3>3. Doff + 2 <= Len(input)
      <4>1. Len(input) >= 4 + Len(Extra)
        <5>1. Len(Content(sent)) \in Nat /\ Len(input) = 4 + Len(Extra) + Len(Content(sent))
          BY <1>1, Contents, LenProperties DEF Written
        <5> QED  BY <1>5, <5>1, SMT
      <4> QED  BY <1>3, <1>5, <3>1, <4>1, SMT
    <3>4. SubSeq(input, 5, Doff + 2) \in Seq(Nat)
      BY <1>3, <3>2, <3>3, SMTT(30)
    <3>5. sent.spare \in Nat \X Nat
      BY <1>3
    <3>6. <<>> \in Seq(Nat) /\ Empty \in Nat
      BY EmptySeq, SMT DEF Empty
    <3> QED  BY <3>2, <3>4, <3>5, <3>6
  <2>5. /\ D.kind = sent.kind /\ sent.kind \in {"amqp", "sasl"} /\ ~BadSpare
        /\ D \in [kind : {"amqp", "sasl"}, extended : Seq(Nat), spare : Nat \X Nat,
                  code : Nat, message : BOOLEAN]
    <3>1. \A e \in Seq(Nat) : sent.kind \in {"amqp", "sasl"} =>
            Reading(e, Empty, FALSE) \in [kind : {"amqp", "sasl"}, extended : Seq(Nat),
                                          spare : Nat \X Nat, code : Nat, message : BOOLEAN]
      BY <2>4 DEF Reading
    <3>2. D.kind = sent.kind /\ sent.kind \in {"amqp", "sasl"}
      BY <2>3 DEF Reading
    <3>3. ~BadSpare
      BY <2>1 DEF BadSpare
    <3> QED  BY <2>3, <2>4, <3>1, <3>2, <3>3
  <2>6. CASE Extra = <<>>
    <3>1. Doff + 3 = 5 /\ SubSeq(input, 5, Doff + 2) = <<>>
      <4>1. Doff = 2
        BY <1>1, <2>6, PlainBytes DEF Doff
      <4>2. 5 \in Nat \ {0} /\ 2 + 2 = 5 - 1 /\ 2 + 3 = 5
        BY SMT
      <4> QED  BY <1>3, <4>1, <4>2, Cuts
    <3>2. at' = 5 /\ D = Reading(<<>>, Empty, FALSE)
      BY <2>3, <3>1
    <3> QED  BY <1>1, <1>2, <1>8, <2>2, <2>5, <2>6, <3>2
             DEF FrameInv, PlainPath, ExtendedPath, D, Reading, BadSpare
  <2>7. CASE Extra # <<>>
    <3>1. PICK k \in Nat \ {0} :
            /\ Extra = sent.extended /\ Len(sent.extended) = 4 * k
            /\ k = Len(Extra) \div 4 /\ Doff = 2 + k /\ Len(input) >= 4 + 4 * k
      BY <1>1, <2>7, ExtendedBytes DEF Doff
    <3>2. at' = IF sent.kind = "amqp" THEN 5 + Len(Extra) \div 4 ELSE 5
      <4>1. Doff + 3 = 5 + k
        <5>1. 2 + k + 3 = 5 + k
          BY SMT
        <5> QED  BY <3>1, <5>1
      <4> QED  BY <2>3, <3>1, <4>1
    <3>3. D.extended # sent.extended
      <4>1. Len(SubSeq(input, 5, Doff + 2)) = k
        <5>1. Doff + 2 <= Len(input) /\ Doff + 2 = 4 + k
          <6>1. Doff = 2 + k /\ Len(input) >= 4 + 4 * k /\ Len(input) \in Nat /\ Doff \in Nat
            BY <1>3, <2>4, <3>1, LenProperties
          <6> HIDE DEF Doff
          <6> QED  BY <6>1, SMT
        <5>2. Doff \in Nat
          BY <2>4
        <5> HIDE DEF Doff
        <5> QED  BY <1>3, <5>1, <5>2, SMT
      <4>2. k # 4 * k
        BY SMT
      <4>3. D.extended = <<>> \/ D.extended = SubSeq(input, 5, Doff + 2)
        BY <2>3 DEF Reading
      <4> QED  BY <2>7, <3>1, <4>1, <4>2, <4>3
    <3> QED  BY <1>1, <1>2, <1>8, <2>2, <2>5, <2>7, <3>2, <3>3
             DEF FrameInv, PlainPath, ExtendedPath, D, BadSpare
  <2> QED  BY <2>6, <2>7
<1> QED  BY <1>7, <1>8

ReadIdentifier == ReadByteNumber \/ ReadUInt \/ ReadULong \/ ReadName \/ ReadNoCode

Typed(d) ==
  /\ d.kind = sent.kind
  /\ d \in [kind : {"amqp", "sasl"}, extended : Seq(Nat), spare : Nat \X Nat,
            code : Nat, message : BOOLEAN]

\* Where the identifier is looked for, in a frame without an extended header.
LEMMA PlainLead ==
  ASSUME sent \in Frames, Written, Extra = <<>>, at = 5
  PROVE  /\ sent.code = Empty => Lead = 5 /\ Len(input) = 4
         /\ sent.code # Empty =>
              /\ Lead = 6 /\ input[Lead] = SmallULong /\ 6 < Len(input) /\ Len(input) \in Nat
              /\ input[Lead + 1] = sent.code
<1>1. CASE sent.code = Empty
  <2>1. Len(input) = 4
    BY <1>1, PlainBytes, FrameFacts
  <2>2. ~(5 <= 4)
    BY SMT
  <2> QED  BY <1>1, <2>1, <2>2 DEF Lead
<1>2. CASE sent.code # Empty
  <2>1. /\ Len(input) = IF sent.message THEN 9 ELSE 8
        /\ input[5] = Described /\ input[6] = SmallULong /\ input[7] = sent.code
    BY <1>2, PlainBytes
  <2>2. 5 <= Len(input) /\ 6 < Len(input) /\ 5 + 1 = 6 /\ 6 + 1 = 7 /\ Len(input) \in Nat
    BY <2>1, SMT
  <2>3. Lead = 6
    BY <2>1, <2>2 DEF Lead
  <2> QED  BY <1>2, <2>1, <2>2, <2>3
<1> QED  BY <1>1, <1>2

\* And in one with an extended header: in it.
LEMMA ExtendedLead ==
  ASSUME sent \in Frames, Written, Extra # <<>>, sent.kind \in {"amqp", "sasl"},
         at = IF sent.kind = "amqp" THEN 5 + Len(Extra) \div 4 ELSE 5
  PROVE  /\ Lead = 4 + FirstRead /\ FirstRead \in Nat /\ Len(input) \in Nat
         /\ Lead < Len(input) /\ Len(sent.extended) \in Nat
         /\ FirstRead + 1 <= Len(sent.extended)
         /\ input[Lead] = sent.extended[FirstRead]
         /\ input[Lead + 1] = sent.extended[FirstRead + 1]
         /\ sent.code = Empty => Len(input) = 4 + Len(sent.extended)
<1>1. PICK k \in Nat \ {0} :
        /\ Extra = sent.extended /\ Len(sent.extended) = 4 * k /\ k = Len(Extra) \div 4
        /\ input \in Seq(Nat) /\ Len(input) >= 4 + 4 * k
        /\ \A i \in 1..Len(sent.extended) : input[4 + i] = sent.extended[i]
  BY ExtendedBytes
<1>2. Len(input) \in Nat
  BY <1>1, LenProperties
<1> DEFINE j == 1 + (IF sent.kind = "amqp" THEN Len(sent.extended) \div 4 ELSE 0)
<1>3. j \in {1, 1 + k} /\ at = 4 + j
  <2>1. 4 + (1 + 0) = 5 /\ 4 + (1 + k) = 5 + k /\ 1 + 0 = 1
    BY SMT
  <2> QED  BY <1>1, <2>1
<1>4. FirstRead = IF sent.extended[j] = Described THEN j + 1 ELSE j
  BY DEF FirstRead
<1> HIDE DEF j
<1>5. /\ j \in 1..(4 * k) /\ j + 1 \in 1..(4 * k) /\ j + 2 \in 1..(4 * k)
      /\ at <= Len(input) /\ at + 1 = 4 + (j + 1) /\ 4 + (j + 1) < Len(input) /\ 4 + j < Len(input)
      /\ j \in Nat /\ j + 1 \in Nat
      /\ (4 + j) + 1 = 4 + (j + 1) /\ (4 + (j + 1)) + 1 = 4 + (j + 2) /\ (j + 1) + 1 = j + 2
  <2> SUFFICES ASSUME j = 1 \/ j = 1 + k, at = 4 + j, Len(input) >= 4 + 4 * k
               PROVE  /\ j \in 1..(4 * k) /\ j + 1 \in 1..(4 * k) /\ j + 2 \in 1..(4 * k)
                      /\ at <= Len(input) /\ at + 1 = 4 + (j + 1)
                      /\ 4 + (j + 1) < Len(input) /\ 4 + j < Len(input)
                      /\ j \in Nat /\ j + 1 \in Nat
                      /\ (4 + j) + 1 = 4 + (j + 1) /\ (4 + (j + 1)) + 1 = 4 + (j + 2)
                      /\ (j + 1) + 1 = j + 2
    BY <1>1, <1>3
  <2> QED  BY <1>2, SMT
<1>6. /\ input[4 + j] = sent.extended[j] /\ input[4 + (j + 1)] = sent.extended[j + 1]
      /\ input[4 + (j + 2)] = sent.extended[j + 2]
  BY <1>1, <1>5
<1>7. Lead = IF sent.extended[j] = Described THEN at + 1 ELSE at
  BY <1>3, <1>5, <1>6 DEF Lead
<1>8. /\ Lead = 4 + FirstRead /\ FirstRead \in Nat /\ Lead < Len(input)
      /\ FirstRead + 1 \in 1..(4 * k)
      /\ input[Lead] = sent.extended[FirstRead]
      /\ input[Lead + 1] = sent.extended[FirstRead + 1]
  <2>1. CASE sent.extended[j] = Described
    <3>1. FirstRead = j + 1 /\ Lead = 4 + (j + 1)
      BY <1>4, <1>5, <1>7, <2>1
    <3> QED  BY <1>5, <1>6, <3>1
  <2>2. CASE sent.extended[j] # Described
    <3>1. FirstRead = j /\ Lead = 4 + j
      BY <1>3, <1>4, <1>7, <2>2
    <3> QED  BY <1>5, <1>6, <3>1
  <2> QED  BY <2>1, <2>2
<1>9. Len(sent.extended) \in Nat /\ FirstRead + 1 <= Len(sent.extended)
  <2>1. /\ 4 * k \in Nat
        /\ \A n \in 1..(4 * k) : n <= 4 * k
    BY SMT
  <2> QED  BY <1>1, <1>8, <2>1
<1>10. sent.code = Empty => Len(input) = 4 + Len(sent.extended)
  <2> SUFFICES ASSUME sent.code = Empty PROVE Len(input) = 4 + Len(sent.extended)
    OBVIOUS
  <2>1. Len(Content(sent)) = 0
    BY Contents, FrameFacts
  <2>2. Len(input) = 4 + Len(sent.extended) + 0
    BY <1>1, <2>1 DEF Written
  <2>3. \A n \in Nat : 4 + n + 0 = 4 + n
    BY SMT
  <2> QED  BY <1>9, <2>2, <2>3
<1> QED  BY <1>2, <1>8, <1>9, <1>10

LEMMA CodesFacts ==
  ASSUME FrameInv, pc \in {"identifier", "fields"}
  PROVE  /\ Codes = IF sent.kind = "amqp" THEN Performatives ELSE SaslBodies
         /\ Codes \subseteq Nat /\ sent.code \in Codes \cup {Empty}
<1>1. sent \in Frames /\ decoded.kind = sent.kind /\ sent.kind \in {"amqp", "sasl"}
  BY DEF FrameInv
<1>2. Codes = IF sent.kind = "amqp" THEN Performatives ELSE SaslBodies
  BY <1>1 DEF Codes
<1>3. Codes \subseteq 2..255
  BY <1>2, FramesAssumption
<1>4. \A x \in 2..255 : x \in Nat
  BY SMT
<1> QED  BY <1>1, <1>2, <1>3, <1>4, FrameFacts

\* Whatever a step reads besides, what it decodes is of the same kind.
LEMMA OthersTyped ==
  ASSUME NEW codes \in SUBSET Nat, ReadOthers(codes), Typed(decoded)
  PROVE  /\ Typed(decoded') /\ decoded'.extended = decoded.extended
         /\ UNCHANGED <<sent, input, at, pc>> /\ outcome' \in {"ok", "err", "panic"}
<1>1. CASE Finish("err") \/ Finish("panic")
  BY <1>1 DEF Finish, Typed
<1>2. CASE ~(Finish("err") \/ Finish("panic"))
  <2>1. PICK c \in codes, m \in BOOLEAN :
          /\ decoded' = [decoded EXCEPT !.code = c, !.message = m]
          /\ outcome' = "ok" /\ UNCHANGED <<sent, input, at, pc>>
    BY <1>2 DEF ReadOthers
  <2> QED  BY <2>1 DEF Typed
<1> QED  BY <1>1, <1>2

LEMMA IdentifierStep ==
  ASSUME FrameInv, ReadIdentifier
  PROVE  FrameInv'
<1>1. /\ pc = "identifier" /\ outcome = "running"
      /\ sent \in Frames /\ Written /\ sent.kind \in {"amqp", "sasl"} /\ ~BadSpare
      /\ Typed(decoded)
  <2>1. pc = "identifier" /\ outcome = "running"
    BY DEF ReadIdentifier, ReadByteNumber, ReadUInt, ReadULong, ReadName, ReadNoCode,
           IdentifierAmong, Runs
  <2> QED  BY <2>1 DEF FrameInv, Typed
<1>2. /\ Codes = IF sent.kind = "amqp" THEN Performatives ELSE SaslBodies
      /\ Codes \subseteq Nat /\ sent.code \in Codes \cup {Empty}
  BY <1>1, CodesFacts
<1>3. ASSUME UNCHANGED <<sent, input>>
      PROVE  /\ Written' /\ Extra' = Extra /\ (BadSpare' <=> BadSpare)
             /\ (LooksDescribed' <=> LooksDescribed) /\ (ShortNumber' <=> ShortNumber)
  BY <1>1, <1>3 DEF Written, Extra, Content, BadSpare, LooksDescribed, ShortNumber, FirstRead
<1>4. CASE Extra = <<>>
  <2>1. at = 5 /\ decoded = Reading(<<>>, Empty, FALSE)
    BY <1>1, <1>4 DEF FrameInv, PlainPath
  <2>2. CASE sent.code = Empty
    <3>1. ~(Lead <= Len(input)) /\ Lead # Len(input)
      <4>1. ~(5 <= 4) /\ 5 # 4
        BY SMT
      <4> QED  BY <1>1, <1>4, <2>1, <2>2, <4>1, PlainLead
    <3>2. outcome' = "err" /\ UNCHANGED <<sent, input, at, pc, decoded>>
      BY <3>1 DEF ReadIdentifier, ReadByteNumber, ReadUInt, ReadULong, ReadName, ReadNoCode,
                  IdentifierAmong, Finish
    <3> QED  BY <1>1, <1>3, <1>4, <2>1, <2>2, <3>2
             DEF FrameInv, PlainPath, ExtendedPath, Reading, Typed
  <2>3. CASE sent.code # Empty
    <3>1. /\ Lead = 6 /\ input[Lead] = SmallULong /\ Lead # Len(input) /\ Lead <= Len(input)
          /\ input[Lead + 1] = sent.code /\ Lead + 2 = 8
      <4>1. Lead = 6 /\ input[Lead] = SmallULong /\ 6 < Len(input) /\ Len(input) \in Nat
            /\ input[Lead + 1] = sent.code
        BY <1>1, <1>4, <2>1, <2>3, PlainLead
      <4> QED  BY <4>1, SMT
    <3>2. /\ SmallULong \in ByteNumbers /\ SmallULong \notin UInts /\ SmallULong # ULong
          /\ SmallULong \notin Names
      BY SMT DEF SmallULong, ByteNumbers, UInts, ULong, Names
    <3>3. ReadByteNumber
      BY <1>1, <3>1, <3>2 DEF ReadIdentifier, ReadUInt, ReadULong, ReadName, ReadNoCode,
                              IdentifierAmong, Runs
    <3>4. sent.code \in Codes
      BY <1>2, <2>3
    <3>5. Take(sent.code, 8)
      BY <3>1, <3>3, <3>4 DEF ReadByteNumber
    <3>6. /\ at' = 8 /\ decoded' = Reading(<<>>, sent.code, FALSE) /\ pc' = "fields"
          /\ UNCHANGED <<sent, input, outcome>>
      BY <2>1, <3>5 DEF Reading, Take
    <3>7. Typed(decoded')
      BY <1>1, <1>2, <3>4, <3>5 DEF Typed, Take
    <3> QED  BY <1>1, <1>3, <1>4, <2>3, <3>6, <3>7
             DEF FrameInv, PlainPath, ExtendedPath, Reading, BadSpare, Typed
  <2> QED  BY <2>2, <2>3
<1>5. CASE Extra # <<>>
  <2>1. /\ at = IF sent.kind = "amqp" THEN 5 + Len(Extra) \div 4 ELSE 5
        /\ decoded.extended # sent.extended
    BY <1>1, <1>5 DEF FrameInv, ExtendedPath
  <2>2. /\ Lead = 4 + FirstRead /\ FirstRead \in Nat /\ Len(input) \in Nat
        /\ Lead < Len(input) /\ Len(sent.extended) \in Nat
        /\ input[Lead] = sent.extended[FirstRead]
        /\ input[Lead + 1] = sent.extended[FirstRead + 1]
        /\ sent.code = Empty => Len(input) = 4 + Len(sent.extended)
    BY <1>1, <1>5, <2>1, ExtendedLead
  <2>3. Lead # Len(input)
    BY <2>2, SMT
  <2>4. ASSUME UNCHANGED <<sent, input, at, pc>>, Typed(decoded'),
               decoded'.extended = decoded.extended,
               outcome' = "err" \/ LooksDescribed \/ (outcome' = "panic" /\ ShortNumber)
        PROVE  FrameInv'
    BY <1>1, <1>3, <1>5, <2>1, <2>4 DEF FrameInv, PlainPath, ExtendedPath, BadSpare, Typed
  <2>5. ASSUME Finish("err") PROVE FrameInv'
    BY <1>1, <2>4, <2>5 DEF Finish, Typed
  <2>6. ASSUME NEW code \in Codes, NEW next, Take(code, next), LooksDescribed
        PROVE  FrameInv'
    <3>1. /\ Typed(decoded') /\ decoded'.extended = decoded.extended /\ pc' = "fields"
          /\ UNCHANGED <<sent, input, outcome>>
      BY <1>1, <1>2, <2>6 DEF Take, Typed
    <3> QED  BY <1>1, <1>3, <1>5, <2>1, <2>6, <3>1
             DEF FrameInv, PlainPath, ExtendedPath, BadSpare, Typed
  <2>7. CASE ReadNoCode
    BY <2>3, <2>5, <2>7 DEF ReadNoCode
  <2>8. CASE ReadUInt
    <3>1. CASE Len(input) - Lead < 3
      <4>1. sent.code = Empty
        <5> SUFFICES ASSUME sent.code # Empty PROVE FALSE
          OBVIOUS
        <5>1. Len(Content(sent)) \in Nat /\ Len(Content(sent)) >= 4
          <6>1. Len(Content(sent)) = IF sent.message THEN 5 ELSE 4
            BY <1>1, Contents
          <6> QED  BY <6>1, SMT
        <5>2. Len(input) = 4 + Len(sent.extended) + Len(Content(sent))
          BY <1>1, <1>5 DEF Written, Extra
        <5>3. FirstRead + 1 <= Len(sent.extended)
          BY <1>1, <1>5, <2>1, ExtendedLead
        <5> QED  BY <2>2, <3>1, <5>1, <5>2, <5>3, SMT
      <4>2. Len(sent.extended) < FirstRead + 3
        BY <2>2, <3>1, <4>1, SMT
      <4>3. sent.extended[FirstRead] \in UInts
        BY <2>2, <2>8 DEF ReadUInt, IdentifierAmong
      <4>4. ShortNumber
        BY <1>1, <4>1, <4>2, <4>3 DEF ShortNumber
      <4>5. Finish("panic")
        BY <2>8, <3>1 DEF ReadUInt
      <4> QED  BY <1>1, <2>4, <4>4, <4>5 DEF Finish, Typed
    <3>2. CASE ~(Len(input) - Lead < 3)
      BY <2>5, <2>8, <3>2 DEF ReadUInt
    <3> QED  BY <3>1, <3>2
  <2>9. CASE ReadByteNumber
    <3>1. CASE input[Lead + 1] \in Codes
      <4>1. LooksDescribed
        BY <1>1, <1>2, <2>2, <2>9, <3>1 DEF ReadByteNumber, IdentifierAmong, LooksDescribed
      <4>2. Take(input[Lead + 1], Lead + 2)
        BY <2>3, <2>9, <3>1 DEF ReadByteNumber
      <4> QED  BY <2>6, <3>1, <4>1, <4>2
    <3>2. CASE input[Lead + 1] \notin Codes
      BY <2>3, <2>5, <2>9, <3>2 DEF ReadByteNumber
    <3> QED  BY <3>1, <3>2
  <2>10. CASE ReadULong
    <3>1. LooksDescribed
      BY <1>1, <2>2, <2>10 DEF ReadULong, IdentifierAmong, LooksDescribed
    <3>2. CASE Finish("err") \/ Finish("panic")
      BY <1>1, <2>4, <3>1, <3>2 DEF Finish, Typed
    <3>3. CASE input[Lead + 8] \in Codes /\ Take(input[Lead + 8], Lead + 9)
      BY <2>6, <3>1, <3>3
    <3> QED  BY <2>10, <3>2, <3>3 DEF ReadULong
  <2>11. CASE ReadName
    <3>1. LooksDescribed
      BY <1>1, <2>2, <2>11 DEF ReadName, IdentifierAmong, LooksDescribed
    <3>2. ReadOthers(Codes)
      BY <2>11 DEF ReadName
    <3> HIDE DEF Codes
    <3>3. /\ Typed(decoded') /\ decoded'.extended = decoded.extended
          /\ UNCHANGED <<sent, input, at, pc>>
      BY <1>1, <1>2, <3>2, OthersTyped
    <3> QED  BY <2>4, <3>1, <3>3
  <2> QED  BY <2>7, <2>8, <2>9, <2>10, <2>11 DEF ReadIdentifier
<1> QED  BY <1>4, <1>5

LEMMA FieldsStep ==
  ASSUME FrameInv, ReadFields
  PROVE  FrameInv'
<1>1. /\ pc = "fields" /\ outcome = "running"
      /\ sent \in Frames /\ Written /\ sent.kind \in {"amqp", "sasl"} /\ ~BadSpare
      /\ Typed(decoded)
  BY DEF FrameInv, ReadFields, Runs, Typed
<1>2. /\ UNCHANGED <<sent, input>> /\ pc' \in {"fields", "message"}
      /\ Typed(decoded') /\ decoded'.extended = decoded.extended
  <2>1. CASE ReadOthers({decoded.code})
    <3>1. {decoded.code} \in SUBSET Nat
      BY <1>1 DEF Typed
    <3>2. \E codes \in SUBSET Nat : ReadOthers(codes)
      BY <2>1, <3>1
    <3> QED  BY <1>1, <3>2, OthersTyped
  <2>2. CASE Finish("err") \/ Finish("panic")
    BY <1>1, <2>2 DEF Finish, Typed
  <2>3. CASE pc' = "message" /\ UNCHANGED <<sent, input, decoded, outcome>>
    BY <1>1, <2>3 DEF Typed
  <2> QED  BY <2>1, <2>2, <2>3 DEF ReadFields
<1>3. /\ Written' /\ Extra' = Extra /\ (BadSpare' <=> BadSpare)
      /\ (LooksDescribed' <=> LooksDescribed)
  BY <1>1, <1>2 DEF Written, Extra, Content, BadSpare, LooksDescribed, FirstRead
<1>4. PlainPath'
  <2> SUFFICES ASSUME Extra = <<>>
               PROVE  /\ at' = 9 /\ pc' = "message" /\ outcome' = "running" /\ sent.code # Empty
                      /\ decoded' = Reading(<<>>, sent.code, FALSE)
    BY <1>2, <1>3 DEF PlainPath, Reading
  <2>1. at = 8 /\ decoded = Reading(<<>>, sent.code, FALSE) /\ sent.code # Empty
    BY <1>1 DEF FrameInv, PlainPath
  <2>2. /\ input \in Seq(Nat) /\ Len(input) = IF sent.message THEN 9 ELSE 8
        /\ input[8] = Fields
    BY <1>1, <2>1, PlainBytes
  <2>3. /\ ~(8 > Len(input)) /\ 8 + 1 = 9
        /\ 8 + (IF sent.message THEN 1 ELSE 0) = Len(input)
    BY <2>2, SMT
  <2>4. Fields # Described /\ Fields \in Composites
    BY SMT DEF Fields, Described, Composites
  <2>5. FieldsAt = 8
    BY <2>1, <2>2, <2>4 DEF FieldsAt
  <2>6. InSync
    BY <2>1, <2>3, <2>5 DEF InSync, Reading
  <2>7. at' = FieldsAt + 1 /\ pc' = "message" /\ UNCHANGED <<sent, input, decoded, outcome>>
    BY <2>1, <2>2, <2>3, <2>4, <2>5, <2>6 DEF ReadFields
  <2> QED  BY <1>1, <2>1, <2>3, <2>5, <2>7 DEF Reading
<1> QED  BY <1>1, <1>2, <1>3, <1>4 DEF FrameInv, ExtendedPath, BadSpare, Typed

LEMMA MessageStep ==
  ASSUME FrameInv, ReadMessage
  PROVE  FrameInv'
<1>1. /\ sent \in Frames /\ UNCHANGED <<sent, input, at, pc>> /\ Written /\ pc = "message"
      /\ outcome = "running" /\ decoded.kind = sent.kind /\ sent.kind \in {"amqp", "sasl"}
      /\ decoded \in [kind : {"amqp", "sasl"}, extended : Seq(Nat), spare : Nat \X Nat,
                      code : Nat, message : BOOLEAN]
  BY DEF FrameInv, ReadMessage, Runs, Finish
<1>2. Written' /\ Extra' = Extra /\ (BadSpare' <=> BadSpare) 
      /\ (LooksDescribed' <=> LooksDescribed) /\ (ShortNumber' <=> ShortNumber)
  BY <1>1 DEF Written, Extra, Content, BadSpare, LooksDescribed, ShortNumber, FirstRead
<1>3. /\ decoded'.kind = decoded.kind /\ decoded'.extended = decoded.extended
      /\ decoded' \in [kind : {"amqp", "sasl"}, extended : Seq(Nat), spare : Nat \X Nat,
                       code : Nat, message : BOOLEAN]
  <2>1. decoded' = decoded \/ \E b \in BOOLEAN : decoded' = [decoded EXCEPT !.message = b]
    <3>1. (at <= Len(input)) \in BOOLEAN
      OBVIOUS
    <3> QED  BY <3>1 DEF ReadMessage, Finish
  <2> QED  BY <1>1, <2>1
<1>4. PlainPath'
  <2> SUFFICES ASSUME Extra = <<>>
               PROVE  /\ at = 9 /\ sent.code # Empty /\ outcome' = "ok"
                      /\ decoded' = Reading(<<>>, sent.code, sent.message)
    BY <1>1, <1>2 DEF PlainPath, Reading
  <2>1. at = 9 /\ sent.code # Empty /\ decoded = Reading(<<>>, sent.code, FALSE)
    BY <1>1 DEF FrameInv, PlainPath
  <2>2. /\ input \in Seq(Nat) /\ Len(input) = IF sent.message THEN 9 ELSE 8
        /\ sent.message => input[9] = Message
    BY <1>1, <2>1, PlainBytes
  <2>3. sent.message \in BOOLEAN /\ (sent.kind = "sasl" => ~sent.message)
    BY <1>1, FrameFacts
  <2>4. at <= Len(input) <=> sent.message
    BY <2>1, <2>2, <2>3, SMT
  <2>6. /\ decoded' = [decoded EXCEPT !.message = (at <= Len(input))]
        /\ outcome' = "ok"
    BY <1>1, <2>3, <2>4 DEF ReadMessage
  <2>7. (at <= Len(input)) = sent.message
    BY <2>3, <2>4
  <2> QED  BY <2>1, <2>6, <2>7 DEF Reading
<1> QED  BY <1>1, <1>2, <1>3, <1>4 DEF FrameInv, ExtendedPath, BadSpare

LEMMA FrameStutter ==
  ASSUME FrameInv, UNCHANGED vars
  PROVE  FrameInv'
<1>1. /\ UNCHANGED <<sent, input, at, pc, decoded, outcome>> /\ Extra' = Extra
      /\ Content(sent)' = Content(sent)
  BY DEF vars, Extra, Content
<1>2. Written' = Written
  BY <1>1 DEF Written
<1>3. BadSpare' = BadSpare /\ LooksDescribed' = LooksDescribed /\ ShortNumber' = ShortNumber
  BY <1>1 DEF BadSpare, LooksDescribed, ShortNumber, FirstRead
<1>4. PlainPath' = PlainPath
  BY <1>1, <1>3 DEF PlainPath, Reading
<1>5. ExtendedPath' = ExtendedPath
  BY <1>1, <1>3 DEF ExtendedPath
<1> QED  BY <1>1, <1>2, <1>3, <1>4, <1>5 DEF FrameInv

\* FrameInv is inductive.
THEOREM FrameInvariant == Spec => []FrameInv
<1>1. ASSUME FrameInv, [Next]_vars PROVE FrameInv'
  <2>1. CASE Encode \/ PeerEncode
    BY <1>1, <2>1, EncodeStep
  <2>2. CASE DecodeAmqp \/ DecodeSasl \/ DecodeOther
    BY <1>1, <2>2, HeaderStep
  <2>3. CASE ReadIdentifier
    BY <1>1, <2>3, IdentifierStep
  <2>4. CASE ReadFields
    BY <1>1, <2>4, FieldsStep
  <2>5. CASE ReadMessage
    BY <1>1, <2>5, MessageStep
  <2>6. CASE Done \/ UNCHANGED vars
    BY <1>1, <2>6, FrameStutter DEF Done
  <2> QED  BY <1>1, <2>1, <2>2, <2>3, <2>4, <2>5, <2>6 DEF Next, ReadIdentifier
<1> QED  BY <1>1, FrameInit, PTL DEF Spec

\* Whatever frame Frame::to_vec writes, Frame::decode reads it as the same
\* frame, without its extended header.
THEOREM OwnFrames == Spec => []OwnFramesReturn
<1>1. ASSUME FrameInv PROVE OwnFramesReturn
  <2> SUFFICES ASSUME Ended, sent.writer = "own"
               PROVE  outcome = "ok" /\ decoded = [Value(sent) EXCEPT !.extended = <<>>]
    BY DEF OwnFramesReturn
  <2>1. /\ sent.kind # "other" /\ sent.code # Empty /\ ~BadSpare /\ Extra = <<>>
    BY <1>1, FrameFacts DEF FrameInv, BadSpare, Extra
  <2>2. outcome = "ok" /\ decoded = Reading(<<>>, sent.code, sent.message)
    BY <1>1, <2>1 DEF FrameInv, PlainPath, Ended
  <2> QED  BY <2>2 DEF Reading, Value
<1> QED  BY <1>1, FrameInvariant, PTL

\* Whatever frame without an extended header a peer writes, it is read as it
\* was sent, but for heartbeats, unknown types and spare bytes that are not 0.
THEOREM PlainFrames == Spec => []PlainFramesAreRead
<1>1. ASSUME FrameInv PROVE PlainFramesAreRead
  <2> SUFFICES ASSUME Ended, sent.writer = "peer", sent.extended = <<>>
               PROVE  IF BadSpare THEN outcome = "panic"
                      ELSE IF sent.kind = "other" \/ sent.code = Empty THEN outcome = "err"
                      ELSE outcome = "ok" /\ decoded = Value(sent)
    BY DEF PlainFramesAreRead, BadSpare
  <2>1. Extra = <<>>
    BY DEF Extra
  <2>2. outcome # "running" /\ pc \in {"header", "identifier", "message"}
    BY <1>1, <2>1 DEF FrameInv, PlainPath, Ended
  <2>3. CASE pc = "header"
    <3>1. (outcome = "panic" /\ BadSpare) \/ (outcome = "err" /\ sent.kind = "other")
      BY <1>1, <2>1, <2>2, <2>3 DEF FrameInv, PlainPath
    <3>2. sent.kind = "other" => ~BadSpare
      BY DEF BadSpare
    <3> QED  BY <3>1, <3>2
  <2>4. CASE pc = "identifier"
    <3>1. ~BadSpare /\ outcome = "err" /\ sent.code = Empty
      BY <1>1, <2>1, <2>2, <2>4 DEF FrameInv, PlainPath
    <3> QED  BY <3>1
  <2>5. CASE pc = "message"
    <3>1. /\ ~BadSpare /\ sent.kind # "other" /\ sent.code # Empty /\ outcome = "ok"
          /\ decoded = Reading(<<>>, sent.code, sent.message)
      BY <1>1, <2>1, <2>2, <2>5 DEF FrameInv, PlainPath
    <3>2. decoded = Value(sent)
      BY <3>1 DEF Reading, Value
    <3> QED  BY <3>1, <3>2
  <2> QED  BY <2>2, <2>3, <2>4, <2>5
<1> QED  BY <1>1, FrameInvariant, PTL

\* Whatever extended header a peer writes, its frame is not read as it was sent,
\* and it is an error unless a descriptor seems to start where that header is
\* read from, or fewer bytes are left than the number of four that starts there.
THEOREM ExtendedFrames == Spec => []ExtendedFramesAreLost
<1>1. ASSUME FrameInv PROVE ExtendedFramesAreLost
  <2> SUFFICES ASSUME Ended, sent.writer = "peer", sent.extended # <<>>
               PROVE  \/ outcome = "err"
                      \/ outcome = "panic" /\ BadSpare
                      \/ /\ outcome = "ok" => decoded.extended # sent.extended
                         /\ LooksDescribed \/ (outcome = "panic" /\ ShortNumber)
    BY DEF ExtendedFramesAreLost, BadSpare, LooksDescribed, ShortNumber
  <2>1. Extra # <<>>
    BY DEF Extra
  <2> QED  BY <1>1, <2>1 DEF FrameInv, ExtendedPath, Ended
<1> QED  BY <1>1, FrameInvariant, PTL
=============================================================================
