---------------------------- MODULE Scalars_proofs ----------------------------
(***************************************************************************)
(* Proofs about Scalars: which values survive, for every width of a byte   *)
(* and of the types.                                                       *)
(***************************************************************************)
EXTENDS Scalars, TLAPS

\* What is behind each format code: which value, and how it was cut.
Written ==
  \/ code = "true" /\ type = "bool" /\ value = 1
  \/ code = "false" /\ type = "bool" /\ value = 0
  \/ code = "zero" /\ type \in {"u32", "u64"} /\ value = 0
  \/ /\ code = "small" /\ type \in Elastic /\ value < Base /\ data = Bytes(value, Base)
     /\ writer = "peer" /\ Wide => value \in -(Base \div 2) .. (Base \div 2) - 1
  \/ /\ code = "full" /\ type \in Elastic /\ data = Bytes(value, Size[type])
     /\ writer = "own" => value >= Base /\ ~TooLong
  \/ /\ code = "fixed" /\ type \in Fixed \cup {"bool"} /\ data = Bytes(value, Size[type])
     /\ writer = "own" => type # "bool"
  \/ code = "err" /\ writer = "own" /\ TooLong

ScalarInv ==
  /\ writer \in {"own", "peer"} /\ phase \in {"start", "written", "read"}
  /\ type \in Types /\ value \in Values(type)
  /\ phase # "start" => Written
  /\ phase = "read" =>
       own = OwnValue /\ any = (IF KnownToAny THEN OwnValue ELSE Unread) /\ peer = PeerValue

-----------------------------------------------------------------------------
\* What fits is kept; what is taken off a negative number is put back.
LEMMA Fits ==
  ASSUME NEW n \in Nat \ {0}, NEW v \in 0..n - 1
  PROVE  v % n = v
OBVIOUS

LEMMA Wraps ==
  ASSUME NEW n \in Nat \ {0}, NEW v \in -n .. -1
  PROVE  v % n = v + n
OBVIOUS

LEMMA InRange ==
  ASSUME NEW n \in Nat \ {0}, NEW v \in Int
  PROVE  v % n \in 0..n - 1
OBVIOUS

\* A two's complement number of n values is read back from its own bytes, and
\* no other number of the bytes is read.
LEMMA TwosComplement ==
  ASSUME NEW n \in Nat \ {0}, n % 2 = 0, NEW v \in Int
  PROVE  /\ Complement(Bytes(v, n), n) \in -(n \div 2) .. (n \div 2) - 1
         /\ v \in -(n \div 2) .. (n \div 2) - 1 => Complement(Bytes(v, n), n) = v
<1> DEFINE b == v % n
           h == n \div 2
<1>1. h \in Nat /\ n = 2 * h /\ h >= 1
  OBVIOUS
<1>2. b \in 0..n - 1
  BY InRange
<1>3. v \in 0..h - 1 => b = v
  BY <1>1, Fits
<1>4. v \in -h .. -1 => b = v + n
  BY <1>1, Wraps
<1>5. Complement(Bytes(v, n), n) = IF b >= h THEN b - n ELSE b
  BY DEF Complement, Bytes
<1> HIDE DEF b, h
<1>6. Complement(Bytes(v, n), n) \in -h .. h - 1
  BY <1>1, <1>2, <1>5
<1>7. v \in -h .. h - 1 => Complement(Bytes(v, n), n) = v
  BY <1>1, <1>3, <1>4, <1>5
<1> QED  BY <1>6, <1>7 DEF h

LEMMA Sizes ==
  ASSUME NEW t \in Types
  PROVE  /\ Size[t] \in Nat \ {0} /\ Size[t] % 2 = 0 /\ Size[t] >= Base
         /\ t \in Elastic => Size[t] > Base
         /\ Base \in Nat \ {0} /\ Base % 2 = 0 /\ Base >= 2
BY BaseAssumption, SizeAssumption

\* The values of each sort of type.
LEMMA ValueFacts ==
  ASSUME NEW t \in Types, NEW v \in Values(t)
  PROVE  /\ v \in Int
         /\ t = "bool" => v \in 0..1
         /\ t \in Signed => v \in -(Size[t] \div 2) .. (Size[t] \div 2) - 1
         /\ t \in Unsigned \cup Texts \cup {"bool"} => v \in 0 .. Size[t] - 1
<1>1. t = "bool" => v \in 0..1 /\ v \in 0 .. Size[t] - 1
  BY Sizes DEF Values
<1>2. t \in Signed => v \in -(Size[t] \div 2) .. (Size[t] \div 2) - 1
  BY DEF Values, Signed
<1>3. t \in Unsigned \cup Texts => v \in 0 .. Size[t] - 1
  BY DEF Values, Signed, Unsigned, Texts
<1>4. Size[t] \div 2 \in Int
  BY Sizes
<1> QED  BY <1>1, <1>2, <1>3, <1>4 DEF Types

\* What each form says of the value, read as it should be.
LEMMA Whole ==
  ASSUME type \in Types, value \in Values(type), data = Bytes(value, Size[type])
  PROVE  (IF type \in Signed THEN Complement(data, Size[type]) ELSE data) = value
<1>1. CASE type \in Signed
  BY <1>1, Sizes, ValueFacts, TwosComplement
<1>2. CASE type \notin Signed
  <2>1. value \in 0..Size[type] - 1 /\ Size[type] \in Nat \ {0}
    BY <1>2, Sizes, ValueFacts DEF Types
  <2> QED  BY <1>2, <2>1, Fits DEF Bytes
<1> QED  BY <1>1, <1>2

LEMMA Small ==
  ASSUME type \in Types, value \in Values(type), value < Base, data = Bytes(value, Base)
  PROVE  /\ data \in 0..Base - 1 /\ (value >= 0 <=> data = value)
         /\ value \in Int /\ (type \notin Signed => value >= 0)
<1>1. value \in Int /\ Base \in Nat \ {0}
  BY Sizes, ValueFacts
<1>2. data \in 0..Base - 1
  BY <1>1, InRange DEF Bytes
<1>3. value >= 0 => data = value
  BY <1>1, Fits DEF Bytes
<1>4. type \notin Signed => value >= 0
  BY <1>1, Sizes, ValueFacts DEF Types
<1> QED  BY <1>1, <1>2, <1>3, <1>4

-----------------------------------------------------------------------------
LEMMA WriteStep ==
  ASSUME ScalarInv, Write
  PROVE  ScalarInv'
<1>1. /\ phase' = "written" /\ UNCHANGED <<writer, type, value>> /\ writer = "own"
      /\ type \in Types /\ value \in Values(type)
  BY DEF Write, ScalarInv
<1>2. value \in Int /\ Base \in Nat
  BY <1>1, ValueFacts, Sizes
<1>3. CASE WriteBool
  <2>1. value \in 0..1
    BY <1>1, <1>3, ValueFacts DEF WriteBool
  <2> QED  BY <1>1, <1>3, <2>1 DEF WriteBool, Emit, ScalarInv, Written
<1>4. CASE WriteFixed
  BY <1>1, <1>4 DEF WriteFixed, Emit, ScalarInv, Written, Fixed
<1>5. CASE WriteUnsigned
  <2>1. Written'
    BY <1>1, <1>2, <1>5 DEF WriteUnsigned, Emit, Written, Elastic, TooLong, Texts
  <2> QED  BY <1>1, <2>1 DEF ScalarInv
<1>6. CASE WriteSigned
  <2>1. Written'
    BY <1>1, <1>2, <1>6 DEF WriteSigned, Emit, Written, Elastic, TooLong, Texts
  <2> QED  BY <1>1, <2>1 DEF ScalarInv
<1>7. CASE WriteText
  <2>1. type \in Texts /\ value \in 0..Size[type] - 1 /\ Size[type] \in Nat \ {0}
    BY <1>1, <1>7, ValueFacts, Sizes DEF WriteText
  <2>2. Written'
    BY <1>1, <1>2, <1>7, <2>1 DEF WriteText, Emit, Written, Elastic, TooLong, Texts
  <2> QED  BY <1>1, <2>2 DEF ScalarInv
<1> QED  BY <1>3, <1>4, <1>5, <1>6, <1>7 DEF Write

LEMMA PeerWriteStep ==
  ASSUME ScalarInv, PeerWrite
  PROVE  ScalarInv'
<1>1. /\ phase' = "written" /\ UNCHANGED <<writer, type, value>> /\ writer = "peer"
      /\ type \in Types /\ value \in Values(type)
  BY DEF PeerWrite, ScalarInv
<1>2. PICK c \in Holding :
        Emit(c, CASE c \in {"true", "false", "zero"} -> 0
                  [] c = "small" -> Bytes(value, Base)
                  [] OTHER -> Bytes(value, Size[type]))
  BY DEF PeerWrite
<1>3. code' = c /\ (c = "small" => data' = Bytes(value, Base))
      /\ (c \in {"full", "fixed"} => data' = Bytes(value, Size[type]))
  BY <1>2 DEF Emit
<1>4. /\ value \in Int /\ Base \in Nat \ {0} /\ Base % 2 = 0
      /\ type = "bool" => value \in 0..1
  BY <1>1, ValueFacts, Sizes
<1>5. Written'
  <2>1. CASE type = "bool"
    <3>1. c = "fixed" \/ (c = "true" /\ value = 1) \/ (c = "false" /\ value = 0)
      <4>1. c \in {"fixed", IF value = 1 THEN "true" ELSE "false"}
        BY <1>2, <2>1 DEF Holding, Texts
      <4>2. value = 0 \/ value = 1
        BY <1>4, <2>1
      <4> QED  BY <4>1, <4>2
    <3> QED  BY <1>1, <1>3, <2>1, <3>1 DEF Written
  <2>2. CASE type \in {"u32", "u64"}
    BY <1>1, <1>2, <1>3, <1>4, <2>2 DEF Holding, Written, Elastic, Wide
  <2>3. CASE type \in {"i32", "i64"}
    <3>1. c = "full" \/ (c = "small" /\ value \in -(Base \div 2) .. (Base \div 2) - 1)
      BY <1>2, <2>3 DEF Holding, Texts
    <3>2. value \in -(Base \div 2) .. (Base \div 2) - 1 => value < Base
      BY <1>4
    <3> QED  BY <1>1, <1>3, <1>4, <2>3, <3>1, <3>2 DEF Written, Elastic, Wide
  <2>4. CASE type \in Texts
    BY <1>1, <1>2, <1>3, <1>4, <2>4 DEF Holding, Written, Elastic, Wide, Texts
  <2>5. CASE type \in Fixed
    BY <1>1, <1>2, <1>3, <1>4, <2>5 DEF Holding, Written, Fixed, Texts
  <2> QED  BY <1>1, <2>1, <2>2, <2>3, <2>4, <2>5 DEF Types, Unsigned, Signed, Fixed
<1> QED  BY <1>1, <1>5 DEF ScalarInv

\* What was written stays what it is, and it was read as it is.
THEOREM ScalarInvariant == Spec => []ScalarInv
<1>1. Init => ScalarInv
  BY DEF Init, ScalarInv
<1>2. ASSUME ScalarInv, [Next]_vars PROVE ScalarInv'
  <2>1. CASE Write
    BY <1>2, <2>1, WriteStep
  <2>2. CASE PeerWrite
    BY <1>2, <2>2, PeerWriteStep
  <2>3. CASE Read
    <3>1. phase = "written" /\ phase' = "read" /\ UNCHANGED <<writer, type, value, code, data>>
      BY <2>3 DEF Read
    <3>2. /\ own' = OwnValue /\ any' = (IF KnownToAny THEN OwnValue ELSE Unread)
          /\ peer' = PeerValue
      BY <2>3 DEF Read
    <3>3. OwnValue' = OwnValue /\ (KnownToAny <=> KnownToAny') /\ PeerValue' = PeerValue
      BY <3>1 DEF OwnValue, KnownToAny, PeerValue
    <3>4. Written'
      BY <1>2, <3>1 DEF ScalarInv, Written, TooLong, Wide
    <3> QED  BY <1>2, <3>1, <3>2, <3>3, <3>4 DEF ScalarInv
  <2>4. CASE Done \/ UNCHANGED vars
    BY <1>2, <2>4
       DEF Done, vars, ScalarInv, Written, TooLong, Wide, OwnValue, KnownToAny, PeerValue
  <2> QED  BY <1>2, <2>1, <2>2, <2>3, <2>4 DEF Next
<1> QED  BY <1>1, <1>2, PTL DEF Spec

-----------------------------------------------------------------------------
\* What de.rs and a peer read, form by form.
LEMMA ReadsOwn ==
  ASSUME type \in Types, value \in Values(type), Written
  PROVE  /\ type = "char" => (OwnValue = IF code = "err" THEN Unread ELSE Panic) /\ code = "fixed"
         /\ type # "char" /\ code = "err" => OwnValue = Unread
         /\ type # "char" /\ code \notin {"err", "small"} => OwnValue = Got(value)
         /\ type # "char" /\ code = "small" => OwnValue = Got(data)
         /\ OwnValue # Panic <=> type # "char"
<1>1. code \in {"full", "fixed"} =>
        Got(IF type \in Signed THEN Complement(data, Size[type]) ELSE data) = Got(value)
  <2>1. code \in {"full", "fixed"} => data = Bytes(value, Size[type])
    BY DEF Written
  <2> QED  BY <2>1, Whole DEF Got
<1>2. \A n : Got(n).how = "ok" /\ Unread.how = "err" /\ Panic.how = "panic"
  BY DEF Got, Unread, Panic
<1>3. type = "char" => code = "fixed"
  BY DEF Written, Elastic, Texts, TooLong
<1>4. code = "true" => value = 1
  BY DEF Written
<1>5. code \in {"zero", "false"} => value = 0
  BY DEF Written
<1>6. code \in {"true", "false", "zero", "small", "full", "fixed", "err"}
  BY DEF Written
<1>7. CASE type = "char"
  BY <1>3, <1>7 DEF OwnValue
<1>8. CASE type # "char"
  <2>1. /\ code = "err" => OwnValue = Unread
        /\ code = "true" => OwnValue = Got(1)
        /\ code \in {"zero", "false"} => OwnValue = Got(0)
        /\ code = "small" => OwnValue = Got(data)
        /\ code \in {"full", "fixed"} =>
             OwnValue = Got(IF type \in Signed THEN Complement(data, Size[type]) ELSE data)
    BY <1>8 DEF OwnValue
  <2>2. code \notin {"err", "small"} => OwnValue = Got(value)
    BY <1>1, <1>4, <1>5, <1>6, <2>1
  <2>3. OwnValue # Panic
    BY <1>2, <1>6, <2>1
  <2> QED  BY <1>8, <2>1, <2>2, <2>3
<1> QED  BY <1>7, <1>8

LEMMA Answers ==
  ASSUME NEW a, NEW b
  PROVE  /\ Got(a) = Got(b) <=> a = b
         /\ Got(a) # Unread /\ Got(a) # Panic /\ Unread # Panic
         /\ Got(a).how = "ok" /\ Unread.how = "err" /\ Panic.how = "panic"
         /\ Got(a).value = a
<1>1. Got(a).value = a /\ Got(b).value = b /\ Got(a).how = "ok"
      /\ Unread.how = "err" /\ Panic.how = "panic"
  BY DEF Got, Unread, Panic
<1> QED  BY <1>1

\* For every width: which values of this library come back, and which do not.
THEOREM OwnScalars == Spec => []RoundTrip
<1>1. ASSUME ScalarInv PROVE RoundTrip
  <2> SUFFICES ASSUME phase = "read", writer = "own"
               PROVE  /\ own = Got(value) <=> ~TooLong /\ type # "char" /\ (Wide => value >= 0)
                      /\ own.how = "panic" <=> type = "char"
    BY DEF RoundTrip, Ended
  <2>1. type \in Types /\ value \in Values(type) /\ Written /\ own = OwnValue
    BY <1>1 DEF ScalarInv
  <2>2. CASE code = "err"
    <3>1. TooLong /\ type # "char"
      BY <2>1, <2>2 DEF Written, TooLong, Texts
    <3> QED  BY <2>1, <2>2, <3>1, ReadsOwn, Answers
  <2>3. CASE code = "small"
    <3>1. /\ type \in Elastic /\ value < Base /\ data = Bytes(value, Base) /\ type # "char"
      BY <2>1, <2>3 DEF Written, Elastic, Texts
    <3>2. (value >= 0 <=> data = value) /\ value \in Int /\ (type \notin Signed => value >= 0)
      BY <2>1, <3>1, Small
    <3>3. ~TooLong
      BY <2>1, <3>1, <3>2, Sizes DEF TooLong, Elastic
    <3>4. Wide <=> type \in Signed
      BY <3>1 DEF Wide, Signed, Elastic, Texts
    <3> QED  BY <2>1, <2>3, <3>1, <3>2, <3>3, <3>4, ReadsOwn, Answers
  <2>4. CASE code \notin {"err", "small"}
    <3>1. ~TooLong
      BY <2>1, <2>4 DEF Written, TooLong, Texts, Fixed
    <3>2. Wide => value >= 0
      <4>1. Wide => code = "full"
        BY <2>1, <2>4 DEF Written, Wide, Fixed, TooLong, Texts
      <4>2. Wide => value \in Int /\ value >= Base
        BY <2>1, <4>1, ValueFacts DEF Written
      <4> QED  BY <2>1, <4>2, Sizes
    <3> QED  BY <2>1, <2>4, <3>1, <3>2, ReadsOwn, Answers
  <2> QED  BY <2>2, <2>3, <2>4
<1> QED  BY <1>1, ScalarInvariant, PTL

\* For every width: a peer reads the number written, but for what is cut to a
\* byte that is not its two's complement.
THEOREM PeersAgree == Spec => []PeerAgrees
<1>1. ASSUME ScalarInv PROVE PeerAgrees
  <2> DEFINE Short == -(Base \div 2) .. (Base \div 2) - 1
  <2> SUFFICES ASSUME phase = "read", writer = "own"
               PROVE  peer = Got(value) <=> ~TooLong /\ (Wide => value >= Base \/ value \in Short)
    BY DEF PeerAgrees, Ended
  <2>1. type \in Types /\ value \in Values(type) /\ Written /\ peer = PeerValue
    BY <1>1 DEF ScalarInv
  <2>2. CASE Wide /\ code = "small"
    <3>1. value < Base /\ data = Bytes(value, Base)
      BY <2>1, <2>2 DEF Written
    <3>2. peer = Got(Complement(data, Base))
      BY <2>1, <2>2 DEF PeerValue, Wide
    <3>3. value \in Int /\ Base \in Nat \ {0} /\ Base % 2 = 0
      BY <2>1, ValueFacts, Sizes
    <3>4. Complement(data, Base) = value <=> value \in Short
      BY <3>1, <3>3, TwosComplement
    <3>5. ~TooLong /\ ~(value >= Base)
      BY <2>2, <3>1, <3>3 DEF TooLong, Wide, Texts
    <3> QED  BY <2>2, <3>2, <3>4, <3>5, Answers
  <2>3. CASE ~(Wide /\ code = "small") /\ type = "char"
    <3>1. code = "fixed" /\ data = Bytes(value, Size[type])
      BY <2>1, <2>3 DEF Written, Elastic, Texts, TooLong
    <3>2. data = value
      BY <2>1, <2>3, <3>1, Whole DEF Signed
    <3>3. peer = Got(data)
      BY <2>1, <2>3, <3>1 DEF PeerValue
    <3> QED  BY <2>3, <3>2, <3>3 DEF TooLong, Wide, Texts
  <2>4. CASE ~(Wide /\ code = "small") /\ type # "char"
    <3>1. peer = OwnValue
      BY <2>1, <2>4 DEF PeerValue, Wide
    <3>2. CASE code = "err"
      <4>1. TooLong
        BY <2>1, <3>2 DEF Written
      <4> QED  BY <2>1, <2>4, <3>1, <3>2, <4>1, ReadsOwn, Answers
    <3>3. CASE code = "small"
      <4>1. ~Wide /\ type \in Elastic /\ value < Base /\ data = Bytes(value, Base)
        BY <2>1, <2>4, <3>3 DEF Written
      <4>2. type \notin Signed
        BY <4>1 DEF Wide, Signed, Elastic, Texts
      <4>3. data = value /\ value \in Int
        BY <2>1, <4>1, <4>2, Small
      <4>4. ~TooLong
        BY <2>1, <4>1, <4>3, Sizes DEF TooLong
      <4> QED  BY <2>1, <2>4, <3>1, <3>3, <4>1, <4>3, <4>4, ReadsOwn
    <3>4. CASE code \notin {"err", "small"}
      <4>1. ~TooLong /\ (Wide => code = "full" /\ value >= Base)
        BY <2>1, <3>4 DEF Written, TooLong, Wide, Texts, Fixed
      <4> QED  BY <2>1, <2>4, <3>1, <3>4, <4>1, ReadsOwn
    <3> QED  BY <3>2, <3>3, <3>4
  <2> QED  BY <2>2, <2>3, <2>4
<1> QED  BY <1>1, ScalarInvariant, PTL

\* For every width: what a peer writes is read in every form but for a char and
\* a negative number in one byte.
THEOREM PeersScalars == Spec => []PeersValuesAreRead
<1>1. ASSUME ScalarInv PROVE PeersValuesAreRead
  <2> SUFFICES ASSUME phase = "read", writer = "peer"
               PROVE  own = Got(value) <=> type # "char" /\ (Wide /\ code = "small" => value >= 0)
    BY DEF PeersValuesAreRead, Ended
  <2>1. type \in Types /\ value \in Values(type) /\ Written /\ own = OwnValue /\ code # "err"
    BY <1>1 DEF ScalarInv, Written
  <2>2. CASE code = "small"
    <3>1. type \in Elastic /\ value < Base /\ data = Bytes(value, Base) /\ type # "char"
      BY <2>1, <2>2 DEF Written, Elastic, Texts
    <3>2. (value >= 0 <=> data = value) /\ (type \notin Signed => value >= 0)
      BY <2>1, <3>1, Small
    <3>3. Wide <=> type \in Signed
      BY <3>1 DEF Wide, Signed, Elastic, Texts
    <3> QED  BY <2>1, <2>2, <3>1, <3>2, <3>3, ReadsOwn, Answers
  <2>3. CASE code # "small"
    BY <2>1, <2>3, ReadsOwn, Answers
  <2> QED  BY <2>2, <2>3
<1> QED  BY <1>1, ScalarInvariant, PTL

\* For every width: what Any reads of numbers, strings and byte strings.
THEOREM AnyScalars == Spec => []AnyReadsLittle
<1>1. ASSUME ScalarInv PROVE AnyReadsLittle
  <2> SUFFICES ASSUME phase = "read", type \in {"i32", "str", "bytes"}
               PROVE  /\ writer = "own" /\ type \in {"i32", "str"} => (any.how = "ok" <=> value < Base)
                      /\ writer = "own" /\ type = "bytes" => (any = Got(value) <=> value >= Base /\ ~TooLong)
                      /\ writer = "peer" /\ type = "bytes" => (any = Got(value) <=> code = "full")
    BY DEF AnyReadsLittle, Ended
  <2>1. /\ type \in Types /\ value \in Values(type) /\ Written
        /\ any = IF KnownToAny THEN OwnValue ELSE Unread
    BY <1>1 DEF ScalarInv
  <2>2. value \in Int /\ Base \in Nat /\ Size[type] \in Nat /\ Size[type] > Base
    BY <2>1, Sizes, ValueFacts DEF Elastic, Texts
  <2>3. code \in {"small", "full", "err"} /\ (code = "err" <=> writer = "own" /\ TooLong)
        /\ (code = "small" => value < Base)
        /\ (code = "full" /\ writer = "own" => value >= Base)
    BY <2>1, <2>2 DEF Written, Fixed, TooLong
  <2>4. /\ type \in {"i32", "str"} => (KnownToAny <=> code = "small")
        /\ type = "bytes" => (KnownToAny <=> code = "full")
    BY DEF KnownToAny
  <2>5. /\ code = "small" => OwnValue = Got(data)
        /\ code = "full" => OwnValue = Got(value)
    BY <2>1, ReadsOwn
  <2>6. code = "err" => ~(value < Base)
    BY <2>2, <2>3 DEF TooLong
  <2> QED  BY <2>1, <2>2, <2>3, <2>4, <2>5, <2>6, Answers
<1> QED  BY <1>1, ScalarInvariant, PTL
=============================================================================
