------------------------------- MODULE Scalars -------------------------------
(***************************************************************************)
(* How ser.rs and an AMQP 1.0 peer write booleans, numbers, strings and     *)
(* byte strings, and what de.rs, the Any type and a peer make of the bytes. *)
(* Each value has several encodings of different width, which ser.rs        *)
(* chooses by comparisons at the width limits and a peer as it likes; this  *)
(* module is about those limits.                                           *)
(*                                                                         *)
(* Bytes are known by the number they make, most significant first: what   *)
(* to_be_bytes takes apart from_be_bytes puts together again.  256 is Base  *)
(* throughout, and the number of values of a type is Size.                 *)
(***************************************************************************)
EXTENDS Integers

CONSTANTS
  Base,    \* values of a byte
  Size     \* values of as many bytes as each type has

\* Of a float, the value is its bits.
Unsigned == {"u8", "u16", "u32", "u64", "f32", "f64", "char"}
Signed == {"i8", "i16", "i32", "i64"}
Texts == {"str", "symbol", "bytes"}
Types == Unsigned \cup Signed \cup Texts \cup {"bool"}

\* The types with a format code each, and those with a short form and a long.
Fixed == {"u8", "u16", "i8", "i16", "f32", "f64", "char"}
Elastic == {"u32", "u64", "i32", "i64"} \cup Texts

ASSUME BaseAssumption == Base \in Nat \ {0} /\ Base % 2 = 0
ASSUME SizeAssumption ==
  /\ Size \in [Types -> Nat]
  /\ \A t \in Types : Size[t] % 2 = 0 /\ Size[t] >= Base
  /\ \A t \in Elastic : Size[t] > Base

Values(t) ==
  LET half == Size[t] \div 2 IN
  IF t = "bool" THEN 0..1 ELSE IF t \in Signed THEN -half .. half - 1 ELSE 0 .. Size[t] - 1

\* to_be_bytes, and `as u8`: the two's complement of a negative number, and of
\* one that needs more bytes what fits.
Bytes(v, n) == v % n
\* from_be_bytes of an iN.
Complement(b, n) == IF b >= n \div 2 THEN b - n ELSE b

VARIABLES
  writer,        \* own or peer
  type, value,   \* what is written; of a string, only its length
  code,          \* the format code it gets, or none yet, or err for an error
  data,          \* the bytes after the format code, of a string its length's
  phase,         \* written or read
  own, any, peer \* what de.rs, Any::deserialize and an AMQP peer read

vars == <<writer, type, value, code, data, phase, own, any, peer>>

Unread == [how |-> "err", value |-> 0]
Panic == [how |-> "panic", value |-> 0]
Got(v) == [how |-> "ok", value |-> v]

Init ==
  /\ writer \in {"own", "peer"}
  /\ type \in Types /\ value \in Values(type)
  /\ code = "none" /\ data = 0
  /\ phase = "start"
  /\ own = Unread /\ any = Unread /\ peer = Unread

-----------------------------------------------------------------------------
Emit(c, b) == code' = c /\ data' = b

WriteBool ==
  /\ type = "bool"
  /\ Emit(IF value = 1 THEN "true" ELSE "false", 0)

WriteFixed ==
  /\ type \in Fixed
  /\ Emit("fixed", Bytes(value, Size[type]))

\* Faulty variant: one more value taken to fit a byte.
WriteUnsignedOffByOne ==
  /\ type \in {"u32", "u64"}
  /\ IF value = 0 THEN Emit("zero", 0)
     ELSE IF value <= Base THEN Emit("small", Bytes(value, Base))
     ELSE Emit("full", Bytes(value, Size[type]))

WriteUnsigned ==
  /\ type \in {"u32", "u64"}
  /\ IF value = 0 THEN Emit("zero", 0)
     ELSE IF value < Base THEN Emit("small", Bytes(value, Base))
     ELSE Emit("full", Bytes(value, Size[type]))

\* Faulty variant: the same.
WriteSignedOffByOne ==
  /\ type \in {"i32", "i64"}
  /\ IF value <= Base THEN Emit("small", Bytes(value, Base))
     ELSE Emit("full", Bytes(value, Size[type]))

\* serialize_i32 and serialize_i64: `v < 256` holds of every negative number.
WriteSigned ==
  /\ type \in {"i32", "i64"}
  /\ IF value < Base THEN Emit("small", Bytes(value, Base))
     ELSE Emit("full", Bytes(value, Size[type]))

\* The length of a string, which must stay below the largest u32.
WriteText ==
  /\ type \in Texts
  /\ IF value < Base THEN Emit("small", Bytes(value, Base))
     ELSE IF value < Size[type] - 1 THEN Emit("full", Bytes(value, Size[type]))
     ELSE Emit("err", 0)

Write ==
  /\ phase = "start" /\ writer = "own"
  /\ WriteBool \/ WriteFixed \/ WriteUnsigned \/ WriteSigned \/ WriteText
  /\ phase' = "written"
  /\ UNCHANGED <<writer, type, value, own, any, peer>>

\* AMQP 1.0: the encodings that hold the value, of which a peer takes any.
Holding ==
  CASE type = "bool" -> {"fixed", IF value = 1 THEN "true" ELSE "false"}
    [] type \in {"u32", "u64"} ->
         {"full"} \cup (IF value = 0 THEN {"zero"} ELSE {}) \cup (IF value < Base THEN {"small"} ELSE {})
    [] type \in {"i32", "i64"} ->
         {"full"} \cup (IF value \in -(Base \div 2) .. (Base \div 2) - 1 THEN {"small"} ELSE {})
    [] type \in Texts -> {"full"} \cup (IF value < Base THEN {"small"} ELSE {})
    [] OTHER -> {"fixed"}

PeerWrite ==
  /\ phase = "start" /\ writer = "peer"
  /\ \E c \in Holding :
       Emit(c, CASE c \in {"true", "false", "zero"} -> 0
                 [] c = "small" -> Bytes(value, Base)
                 [] OTHER -> Bytes(value, Size[type]))
  /\ phase' = "written"
  /\ UNCHANGED <<writer, type, value, own, any, peer>>

\* Faulty variant: parse_bool without the long form.
OwnValueShortBool ==
  CASE code = "err" \/ (type = "bool" /\ code = "fixed") -> Unread
    [] type = "char" -> Panic
    [] code = "true" -> Got(1)
    [] code \in {"zero", "false"} -> Got(0)
    [] code = "small" -> Got(data)
    [] OTHER -> Got(IF type \in Signed THEN Complement(data, Size[type]) ELSE data)

\* deserialize_bool .. deserialize_bytes: a small i32 or i64 is the byte
\* itself, `self.next()? as i32`; a char is unimplemented!().
OwnValue ==
  CASE code = "err" -> Unread
    [] type = "char" -> Panic
    [] code = "true" -> Got(1)
    [] code \in {"zero", "false"} -> Got(0)
    [] code = "small" -> Got(data)
    [] OTHER -> Got(IF type \in Signed THEN Complement(data, Size[type]) ELSE data)

\* Faulty variant: a constructor left out of the match.
KnownToAnyButBytes ==
  \/ type = "i8"
  \/ type = "i32" /\ code = "small"
  \/ type = "i64"
  \/ type = "str" /\ code = "small"

\* The constructors Any::deserialize knows: 0x51, 0x54, 0x55 and 0x81, 0xa1
\* and 0xb0.
KnownToAny ==
  \/ type = "i8"
  \/ type = "i32" /\ code = "small"
  \/ type = "i64"
  \/ type = "str" /\ code = "small"
  \/ type = "bytes" /\ code = "full"

\* AMQP 1.0: smallint and smalllong are two's complement.
PeerValue ==
  CASE type \in {"i32", "i64"} /\ code = "small" -> Got(Complement(data, Base))
    [] type = "char" -> Got(data)
    [] OTHER -> OwnValue

Read ==
  /\ phase = "written"
  /\ phase' = "read"
  /\ own' = OwnValue
  /\ any' = IF KnownToAny THEN OwnValue ELSE Unread
  /\ peer' = PeerValue
  /\ UNCHANGED <<writer, type, value, code, data>>

Done == phase = "read" /\ UNCHANGED vars

Next == Write \/ PeerWrite \/ Read \/ Done

Spec == Init /\ [][Next]_vars

-----------------------------------------------------------------------------
Wide == type \in {"i32", "i64"}
TooLong == type \in Texts /\ value = Size[type] - 1
Ended(w) == phase = "read" /\ writer = w

\* What ser.rs writes de.rs reads back, at every width and width limit, but
\* for the negative i32 and i64, which come back as a positive byte, and for
\* a char, which panics.
RoundTrip ==
  Ended("own") =>
    /\ own = Got(value) <=> ~TooLong /\ type # "char" /\ (Wide => value >= 0)
    /\ own.how = "panic" <=> type = "char"

\* A peer reads the number that was written, but for the i32 and i64 whose
\* one byte is not their two's complement: 128 to 255, and all below -128.
PeerAgrees ==
  Ended("own") =>
    (peer = Got(value) <=>
       /\ ~TooLong
       /\ Wide => value >= Base \/ value \in -(Base \div 2) .. (Base \div 2) - 1)

\* What a peer writes is read, whichever encoding it takes, those ser.rs never
\* writes among them: but for a char, and for a negative i32 or i64 in one
\* byte, which is read as a positive one.
PeersValuesAreRead ==
  Ended("peer") =>
    (own = Got(value) <=> type # "char" /\ (Wide /\ code = "small" => value >= 0))

\* Of what the client itself puts into an application-properties map, Any
\* reads back numbers and strings only as long as they are small.  A binary
\* body travels as an Any inside an amqp-value section: it is read only in the
\* long form, in which this library writes none that is short.
AnyReadsLittle ==
  /\ Ended("own") /\ type \in {"i32", "str"} => (any.how = "ok" <=> value < Base)
  /\ Ended("own") /\ type = "bytes" => (any = Got(value) <=> value >= Base /\ ~TooLong)
  /\ Ended("peer") /\ type = "bytes" => (any = Got(value) <=> code = "full")
=============================================================================
