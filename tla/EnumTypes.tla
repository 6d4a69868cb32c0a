------------------------------ MODULE EnumTypes ------------------------------
(***************************************************************************)
(* The enums of the wire format, as their attributes and derives make them *)
(* known to the serializer and the deserializer: the variants in order,    *)
(* and what identifies each on the wire.                                   *)
(***************************************************************************)
EXTENDS Naturals, Sequences

NoName == ""
NoCode == 0        \* no descriptor of this repository has this code

\* struct_serde: the three forms of #[amqp(descriptor(..))] and the constants
\* NAME and CODE that Described gets from them.
Both(name, code) == [shape |-> "newtype", name |-> name, code |-> code, inner |-> NoName]
Named(name) == Both(name, NoCode)
Coded(code) == Both(NoName, code)
\* A newtype around another enum, Value(Any).
Around(v, inner) == [v EXCEPT !.inner = inner]
\* A variant without fields.
Unit(name) == [shape |-> "unit", name |-> name, code |-> NoCode, inner |-> NoName]

\* own and peer say how this library and an AMQP 1.0 peer write a variant.
Enum(derive, own, peer, variants) ==
  [derive |-> derive, own |-> own, peer |-> peer, variants |-> variants]
DescribedEnum(variants) == Enum("amqp", "described", "described", variants)

Performative == DescribedEnum(
  <<Both("open", 16), Both("begin", 17), Both("attach", 18), Both("flow", 19),
    Both("transfer", 20), Both("disposition", 21), Both("detach", 22), Both("close", 24)>>)

Body == DescribedEnum(
  <<Both("data", 117), Both("sequence", 118), Around(Both("value", 119), "Any")>>)

DeliveryState == DescribedEnum(
  <<Both("received", 35), Both("accepted", 36), Both("rejected", 37), Both("released", 38),
    Both("modified", 39), Both("declared", 51), Both("transactional-state", 52)>>)

Outcome == DescribedEnum(SubSeq(DeliveryState.variants, 1, 6))

SaslFrame == DescribedEnum(
  <<Both("mechanisms", 64), Both("init", 65), Both("sasl-outcome", 68)>>)

\* Corda's codes are 0xc562_0000_0000_0005 and 6: what counts is that they do
\* not fit a byte.
TypeNotation == DescribedEnum(<<Coded(1005), Coded(1006)>>)

\* Its Deserialize is written by hand, and asks for names alone.
Try == Enum("try", "described", "described", <<Named("success"), Named("failure")>>)

\* serde's own derive: a variant is known by its index or by its name.
Role == Enum("serde", "boolean", "boolean", <<Unit("sender"), Unit("receiver")>>)
TerminusDurability ==
  Enum("serde", "uint", "uint", <<Unit("none"), Unit("configuration"), Unit("unsettled-state")>>)
DistributionMode == Enum("serde", "symbol", "symbol", <<Unit("move"), Unit("copy")>>)
ExpiryPolicy == Enum("serde", "symbol", "symbol",
  <<Unit("link-detach"), Unit("session-end"), Unit("connection-close"), Unit("never")>>)
SenderSettleMode ==
  Enum("serde", "symbol", "ubyte", <<Unit("Unsettled"), Unit("Settled"), Unit("Mixed")>>)
ReceiverSettleMode == Enum("serde", "symbol", "ubyte", <<Unit("First"), Unit("Second")>>)
Code == Enum("serde", "symbol", "ubyte",
  <<Unit("Ok"), Unit("Auth"), Unit("Sys"), Unit("SysPerm"), Unit("SysTemp")>>)
Mechanism == Enum("serde", "symbol", "symbol",
  <<Unit("ANONYMOUS"), Unit("PLAIN"), Unit("SCRAM_SHA1")>>)

\* Any tells its variants apart by format code alone: these are the ones it
\* knows.  A peer writes each by the code it is named for here, and so does
\* this library, but for its None, the "null" (OwnForm).  What it has besides
\* (Bool, U8 to U64, I16, F32, F64, short Bytes, long Str) it does not read.
AnyScalar == Enum("any", "scalar", "scalar",
  <<Unit("null"), Unit("byte"), Unit("smallint"), Unit("smalllong"), Unit("long"),
    Unit("str8"), Unit("vbin32")>>)

\* AMQP 1.0 calls the descriptor of an amqp-value amqp:amqp-value:*, and this
\* library amqp:value:*; SASL calls the mechanism SCRAM-SHA-1.
NamesOfItsOwn == {"value", "SCRAM_SHA1"}

Enums == [Performative |-> Performative, Body |-> Body, DeliveryState |-> DeliveryState,
  Outcome |-> Outcome, SaslFrame |-> SaslFrame, TypeNotation |-> TypeNotation, Try |-> Try,
  Role |-> Role, TerminusDurability |-> TerminusDurability,
  DistributionMode |-> DistributionMode, ExpiryPolicy |-> ExpiryPolicy,
  SenderSettleMode |-> SenderSettleMode, ReceiverSettleMode |-> ReceiverSettleMode,
  Code |-> Code, Mechanism |-> Mechanism, Any |-> AnyScalar]
=============================================================================
