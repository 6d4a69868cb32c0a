------------------------------- MODULE Dispatch -------------------------------
(***************************************************************************)
(* How the deserializer tells which variant of an enum comes next: the code *)
(* that the amqp macro and serde's derive generate, the hand-written ones   *)
(* of Try and Any, and what deserialize_enum and deserialize_identifier do  *)
(* for them.                                                               *)
(*                                                                         *)
(* Several values are read one after the other with one Deserializer, as    *)
(* the entries of a map and the sections of a message are: its `any` flag   *)
(* outlives the value that needs it.                                       *)
(***************************************************************************)
EXTENDS Naturals, Sequences

CONSTANTS
  Defs,        \* the enums, by name
  OwnNames,    \* names of variants that only this library uses
  Cases        \* the sequences of values that may be written

\* Variant 0 is one that the other side has and this library has not.
Foreign == 0
ForeignNumber == 255
ForeignName == "foreign"
\* Of a variant without a name, or without an enum inside.
Blank == ""

\* No two variants of an enum share a code or a name.
Distinct(variants) ==
  \A i, j \in DOMAIN variants : i # j =>
    /\ variants[i].code = variants[j].code => variants[i].code = 0
    /\ variants[i].name = variants[j].name => variants[i].name = Blank

\* Who reads an enum (its derive), and how this library and a peer write it.
Ways == {<<"amqp", "described", "described">>, <<"try", "described", "described">>,
         <<"serde", "boolean", "boolean">>, <<"serde", "uint", "uint">>,
         <<"serde", "symbol", "symbol">>, <<"serde", "symbol", "ubyte">>,
         <<"any", "scalar", "scalar">>}

\* The amqp macro asks for a code or a name, Try for a name only; serde's
\* derive and Any have names, and their variants hold no enum.
VariantAssumption(d, v) ==
  /\ v.name # ForeignName /\ v.code # ForeignNumber
  /\ d.derive = "amqp" => v.name # Blank \/ v.code # 0
  /\ d.derive # "amqp" => v.name # Blank /\ v.code = 0
  /\ d.derive = "try" => v.shape = "newtype"
  /\ d.own # "described" => v.shape = "unit" /\ v.inner = Blank
  /\ v.inner # Blank => v.inner \in DOMAIN Defs
  /\ d.derive = "any" => v.name \notin {"described", "nothing", "sym8", "sym32"}

ASSUME DefsAssumption ==
  \A e \in DOMAIN Defs :
    /\ Defs[e].variants \in Seq([shape : {"newtype", "unit"}, name : STRING, code : Nat, inner : STRING])
    /\ Distinct(Defs[e].variants) /\ Len(Defs[e].variants) <= ForeignNumber
    /\ \A i \in DOMAIN Defs[e].variants : VariantAssumption(Defs[e], Defs[e].variants[i])
    /\ <<Defs[e].derive, Defs[e].own, Defs[e].peer>> \in Ways
    /\ Defs[e].derive = "any" <=> e = "Any"

VARIABLES
  values,     \* what is to be written
  sent,       \* what has been written, one value after the other
  input,      \* the cells it is written as
  at,         \* Deserializer.input starts here
  todo,       \* the enums still to be read
  pc,         \* expand, write, enum, identifier or content
  described,  \* whether a descriptor introduces the value being read
  any,        \* Deserializer.any
  field,      \* the variant matched
  decoded,    \* the variants read, in order
  outcome     \* running, or ok, err, panic, or uncompilable

vars == <<values, sent, input, at, todo, pc, described, any, field, decoded, outcome>>

-----------------------------------------------------------------------------
\* Writing: ser.rs, or a peer that has a choice of forms.

Variant(v) == Defs[v.enum].variants[v.variant]
Name(v) == IF v.variant = Foreign THEN ForeignName ELSE Variant(v).name
Number(v) ==
  IF v.variant = Foreign THEN ForeignNumber
  ELSE IF Defs[v.enum].derive = "serde" THEN v.variant - 1
  ELSE Variant(v).code

Numbers == {"smallulong", "ulong", "true", "false", "boolean", "ubyte"}
UInts == {"uint0", "smalluint", "uint"}
Symbols == {"sym8", "sym32"}

Cell(tag, n, s) == [tag |-> tag, n |-> n, s |-> s]

\* A variant of a described enum is the struct it holds, whose descriptor is
\* its identifier; a variant of any other enum is its identifier alone.
Cells(v) ==
  LET id == Cell(v.form, Number(v), Name(v)) IN
  IF Defs[v.enum].own # "described" THEN <<id>>
  ELSE <<Cell("described", 0, Blank), id>>
       \o IF v.inside = <<>> THEN <<Cell("content", 0, Blank)>> ELSE <<>>

\* Faulty variant: Role without a Serialize of its own.
OwnFormDerived(v) ==
  LET own == Defs[v.enum].own IN
  CASE own = "described" -> IF Variant(v).code = 0 THEN "sym8"
                            ELSE IF Variant(v).code < 256 THEN "smallulong" ELSE "ulong"
    [] own = "boolean" -> "sym8"
    [] own = "uint" -> IF Number(v) = 0 THEN "uint0" ELSE "smalluint"
    [] own = "symbol" -> "sym8"
    [] OTHER -> IF Name(v) = "null" THEN "sym8" ELSE Name(v)

\* serialize_struct and serialize_newtype_struct write the code of the
\* `name|code` they are given, and the name only where there is no code;
\* serialize_unit_variant writes a name, of Any::None too; Role and
\* TerminusDurability have a Serialize of their own.
OwnForm(v) ==
  LET own == Defs[v.enum].own IN
  CASE own = "described" -> IF Variant(v).code = 0 THEN "sym8"
                            ELSE IF Variant(v).code < 256 THEN "smallulong" ELSE "ulong"
    [] own = "boolean" -> IF Number(v) = 1 THEN "true" ELSE "false"
    [] own = "uint" -> IF Number(v) = 0 THEN "uint0" ELSE "smalluint"
    [] own = "symbol" -> "sym8"
    [] OTHER -> IF Name(v) = "null" THEN "sym8" ELSE Name(v)

\* AMQP 1.0: a descriptor in any form it has, and for an enumeration the
\* forms of the primitive type that it restricts.  What AMQP calls by another
\* name than this library is a foreign variant when it comes by that name.
PeerForms(v) ==
  LET peer == Defs[v.enum].peer IN
  CASE peer = "described" ->
         (IF Number(v) = 0 THEN {} ELSE IF Number(v) < 256 THEN {"smallulong", "ulong"} ELSE {"ulong"})
         \cup (IF Name(v) \in {Blank} \cup OwnNames THEN {} ELSE Symbols)
    [] peer = "boolean" -> {"boolean", IF Number(v) = 1 THEN "true" ELSE "false"}
    [] peer = "uint" -> {"smalluint", "uint"} \cup (IF Number(v) = 0 THEN {"uint0"} ELSE {})
    [] peer = "ubyte" -> {"ubyte"}
    [] peer = "symbol" -> IF Name(v) \in OwnNames THEN {} ELSE Symbols
    [] OTHER -> {Name(v)}

\* A value is in one of the forms its writers have; a foreign Any is in one
\* that Any does not know.
WellFormed(v) ==
  /\ v.enum \in DOMAIN Defs /\ v.variant \in {Foreign} \cup DOMAIN Defs[v.enum].variants
  /\ IF v.variant # Foreign THEN v.form \in PeerForms(v) \cup {OwnForm(v)}
     ELSE IF Defs[v.enum].derive # "any" THEN v.form \in PeerForms(v)
     ELSE /\ v.form \notin {"described", "nothing"}
          /\ \A i \in DOMAIN Defs[v.enum].variants : v.form # Defs[v.enum].variants[i].name
Inner(v) == IF v.variant = Foreign THEN Blank ELSE Variant(v).inner

\* `inside` is <<>> or the one value that a value holds.
ASSUME CasesAssumption ==
  \A vs \in Cases :
    /\ vs # <<>> /\ vs = [i \in 1..Len(vs) |-> vs[i]] /\ Len(vs) \in Nat
    /\ \A i \in DOMAIN vs :
         /\ WellFormed(vs[i])
         /\ IF Inner(vs[i]) = Blank THEN vs[i].inside = <<>>
            ELSE \E w \in {vs[i].inside[1]} :
                   /\ vs[i].inside = <<w>> /\ w.inside = <<>>
                   /\ WellFormed(w) /\ w.enum = Inner(vs[i]) /\ Inner(w) = Blank

Init ==
  /\ values \in Cases
  /\ sent = <<>> /\ input = <<>> /\ at = 1
  /\ todo = <<>>
  /\ pc = "expand"
  /\ described = FALSE /\ any = FALSE
  /\ field = Foreign /\ decoded = <<>>
  /\ outcome = "running"

Runs(p) == outcome = "running" /\ pc = p
Finish(o) ==
  outcome' = o /\ UNCHANGED <<values, sent, input, at, todo, pc, described, any, field, decoded>>

-----------------------------------------------------------------------------
\* enum_serde panics, and the program does not compile, unless each variant
\* of an enum with the amqp attribute has exactly one unnamed field.
Expandable(e) ==
  Defs[e].derive = "amqp" =>
    \A i \in DOMAIN Defs[e].variants : Defs[e].variants[i].shape = "newtype"

Expand ==
  /\ Runs("expand")
  /\ IF \A e \in DOMAIN Defs : Expandable(e)
     THEN pc' = "write"
          /\ UNCHANGED <<values, sent, input, at, todo, described, any, field, decoded, outcome>>
     ELSE Finish("uncompilable")

\* One value more, with what it holds; the reader will ask for its enum.
Write ==
  /\ Runs("write")
  /\ LET v == values[Len(todo) + 1] IN
     /\ sent' = sent \o <<v>> \o v.inside
     /\ input' = input \o Cells(v) \o (IF v.inside = <<>> THEN <<>> ELSE Cells(v.inside[1]))
     /\ todo' = Append(todo, v.enum)
     /\ pc' = IF Len(todo') = Len(values) THEN "enum" ELSE "write"
     /\ UNCHANGED <<values, at, described, any, field, decoded, outcome>>

Peek == IF at <= Len(input) THEN input[at].tag ELSE "nothing"

\* deserialize_enum: a described value's descriptor is the identifier, any
\* other value's constructor or value.
EnterEnum ==
  /\ Runs("enum") /\ todo # <<>>
  /\ IF Peek = "nothing" THEN Finish("err")
     ELSE /\ described' = (Peek = "described")
          /\ at' = IF described' THEN at + 1 ELSE at
          /\ any' = IF described' THEN any ELSE Head(todo) = "Any"
          /\ pc' = "identifier"
          /\ UNCHANGED <<values, sent, input, todo, field, decoded, outcome>>

\* Faulty variant: the variants of serde's derive counted from one.
MatchesFromOne(e, i, cell) ==
  LET v == Defs[e].variants[i] IN
  \/ any /\ v.name = cell.tag
  \/ ~any /\ cell.tag \in Symbols /\ v.name = cell.s /\ v.name # Blank
  \/ ~any /\ cell.tag \in Numbers /\ Defs[e].derive = "serde" /\ i = cell.n
  \/ ~any /\ cell.tag \in Numbers /\ Defs[e].derive = "amqp" /\ v.code = cell.n /\ v.code # 0

\* Faulty variant: visit_bytes is not generated.
MatchesNoNames(e, i, cell) ==
  LET v == Defs[e].variants[i] IN
  \/ any /\ v.name = cell.tag
  \/ ~any /\ cell.tag \in Numbers /\ Defs[e].derive = "serde" /\ i - 1 = cell.n
  \/ ~any /\ cell.tag \in Numbers /\ Defs[e].derive = "amqp" /\ v.code = cell.n /\ v.code # 0

\* The arms of the generated visit_u64 and visit_bytes, of Try's visit_bytes
\* and of Any's visit_u64.  An arm for a constant that is None is never taken.
Matches(e, i, cell) ==
  LET v == Defs[e].variants[i] IN
  \/ any /\ v.name = cell.tag
  \/ ~any /\ cell.tag \in Symbols /\ v.name = cell.s /\ v.name # Blank
  \/ ~any /\ cell.tag \in Numbers /\ Defs[e].derive = "serde" /\ i - 1 = cell.n
  \/ ~any /\ cell.tag \in Numbers /\ Defs[e].derive = "amqp" /\ v.code = cell.n /\ v.code # 0

\* A match takes its first arm.
Arm(e, cell) ==
  CHOOSE i \in DOMAIN Defs[e].variants :
    /\ Matches(e, i, cell)
    /\ \A j \in 1..i - 1 : ~Matches(e, j, cell)

\* How many bytes a cell has, where it matters whether there are four left:
\* all but the shortest forms are at least that long.
Width(tag) ==
  CASE tag \in {"described", "uint0", "true", "false", "null", "content"} -> 1
    [] tag \in {"smalluint", "boolean", "ubyte", "smallulong", "byte", "smallint", "smalllong", "str8"} -> 2
    [] OTHER -> 4
WidthAt(i) == IF i <= Len(input) THEN Width(input[i].tag) ELSE 0
FourBytesLeft == at + 3 <= Len(input) \/ WidthAt(at) + WidthAt(at + 1) + WidthAt(at + 2) >= 4

\* deserialize_identifier and the visitor.  Any looks at the format code and
\* leaves it.  A uint is read by read_u32() with its format code still in
\* front: four bytes, code included, which are no variant's number.
ReadIdentifier ==
  /\ Runs("identifier")
  /\ IF Peek = "nothing" THEN Finish("err")
     ELSE LET e == Head(todo) cell == input[at] IN
          IF ~any /\ cell.tag \in UInts
          THEN Finish(IF FourBytesLeft THEN "err" ELSE "panic")
          ELSE IF \E i \in DOMAIN Defs[e].variants : Matches(e, i, cell)
          THEN /\ field' = Arm(e, cell)
               /\ at' = IF any THEN at ELSE at + 1
               /\ pc' = "content"
               /\ UNCHANGED <<values, sent, input, todo, described, any, decoded, outcome>>
          ELSE Finish("err")

\* Faulty variant: the flag stays up after an Any.
ReadContentFlagged ==
  /\ Runs("content")
  /\ LET e == Head(todo) v == Defs[e].variants[field] IN
     /\ at' = IF any \/ (v.shape = "newtype" /\ v.inner = Blank) THEN at + 1 ELSE at
     /\ todo' = (IF v.inner = Blank THEN <<>> ELSE <<v.inner>>) \o Tail(todo)
  /\ decoded' = Append(decoded, field)
  /\ pc' = "enum"
  /\ UNCHANGED <<values, sent, input, described, any, field, outcome>>

\* newtype_variant or unit_variant; deserialize_enum then clears the flag,
\* unless the value was described.  A newtype's content is its last part, so
\* that what a nested enum leaves is what the outer one leaves.
ReadContent ==
  /\ Runs("content")
  /\ LET e == Head(todo) v == Defs[e].variants[field] IN
     /\ at' = IF any \/ (v.shape = "newtype" /\ v.inner = Blank) THEN at + 1 ELSE at
     /\ todo' = (IF v.inner = Blank THEN <<>> ELSE <<v.inner>>) \o Tail(todo)
  /\ any' = IF described THEN any ELSE FALSE
  /\ decoded' = Append(decoded, field)
  /\ pc' = "enum"
  /\ UNCHANGED <<values, sent, input, described, field, outcome>>

Return == Runs("enum") /\ todo = <<>> /\ Finish("ok")

Done == outcome # "running" /\ UNCHANGED vars

Next == Expand \/ Write \/ EnterEnum \/ ReadIdentifier \/ ReadContent \/ Return \/ Done

Spec == Init /\ [][Next]_vars

-----------------------------------------------------------------------------
\* The flag says that an Any is being read, and nothing else: no other enum
\* is ever dispatched with it up, whatever was read before.
FlagMeansAny == any => pc \in {"identifier", "content"} /\ Head(todo) = "Any"

\* Whatever is read is what was sent, variant by variant and to the last
\* cell: no descriptor, number or name is taken for another's, and no value
\* is read from the middle of its neighbour.
VariantsAreSent ==
  /\ \A i \in DOMAIN decoded : i \in DOMAIN sent /\ decoded[i] = sent[i].variant
  /\ outcome = "ok" => Len(decoded) = Len(sent) /\ at = Len(input) + 1

\* TerminusDurability is the one enum that is a uint.
IsUInt(v) == Defs[v.enum].peer = "uint"

\* An Any::None as this library writes it: by its name.
IsOwnNone(v) ==
  /\ Defs[v.enum].own = "scalar" /\ v.variant # Foreign
  /\ Name(v) = "null" /\ v.form = "sym8"

\* Every variant this library knows is read, in every form in which it or a
\* peer writes it, with two exceptions: the uint of a TerminusDurability is
\* never read, not even this library's own, nor is an Any::None that this
\* library wrote.  What is not read is an error: only a uint with at most two
\* cells after it makes the deserializer panic.
KnownVariantsAreRead ==
  /\ outcome \notin {"running", "uncompilable"} =>
       (outcome = "ok" <=>
          \A i \in DOMAIN sent :
            sent[i].variant # Foreign /\ ~IsUInt(sent[i]) /\ ~IsOwnNone(sent[i]))
  /\ outcome = "panic" => Defs[Head(todo)].peer = "uint" /\ at + 2 >= Len(input)

\* What this library writes is what AMQP 1.0 has for the value, except that it
\* writes the settle modes and the outcome codes of SASL by their Rust names
\* where ubytes are asked for, Any::None as the symbol of its name where a null
\* is meant, and a variant it has a name of its own for by that name.
PeersCanRead ==
  \A i \in DOMAIN sent :
    sent[i].variant # Foreign /\ sent[i].form = OwnForm(sent[i]) =>
      (sent[i].form \in PeerForms(sent[i])
         <=> /\ sent[i].enum \notin {"SenderSettleMode", "ReceiverSettleMode", "Code"}
             /\ ~IsOwnNone(sent[i])
             /\ ~(sent[i].form \in Symbols /\ Name(sent[i]) \in OwnNames))

\* The macro supports "newtype variants and unit variants".
UnitVariantsSupported == outcome # "uncompilable"
=============================================================================
