------------------------------ MODULE Composite ------------------------------
(***************************************************************************)
(* Structs, lists, maps and options: how the Serializer of ser.rs lays      *)
(* nested values out, and how the Deserializer of de.rs takes them apart    *)
(* for a reader whose types may have fewer or more fields than the writer's. *)
(* A peer may have written them too, in any of the formats of AMQP 1.0.      *)
(*                                                                         *)
(* Each composite is preceded by its size, which the writer learns last and *)
(* patches in at an offset it remembers, and for which the reader cuts a    *)
(* window out of its input.  Serde drives both by recursion over the type;  *)
(* here `todo` is what the recursion has still to do.                      *)
(*                                                                         *)
(* The bytes of a scalar, a format code, a descriptor, a size or a count    *)
(* are one cell, so that the 4 the code adds for a u32 is 1 here.  Format    *)
(* codes have the names AMQP gives them: list0 is 0x45, list8 and list32    *)
(* 0xc0 and 0xd0, map8 and map32 0xc1 and 0xd1, array8 and array32 0xe0 and  *)
(* 0xf0.                                                                    *)
(***************************************************************************)
EXTENDS Integers, Sequences, SequencesExt

\* Values and types are trees: of a value, n is what a scalar says and items
\* the parts in order (of a map, keys and values by turns); of a type, items
\* are a struct's fields or the one type of the elements.  An int is a number of
\* a type that has several formats: u32, u64, i32 or i64; a fixed one of a type
\* that has one: u8, u16, i8, i16, f32 or f64.  Either is one of these types
\* throughout, and the others are to it what any other scalar is.  A str is
\* anything of a length: strings, symbols, byte strings.
Node(kind, n, items) == [kind |-> kind, n |-> n, items |-> items]
Numbers == {"int", "fixed"}
Scalars == {"int", "fixed", "str", "none"}
Arrays == {"array8", "array32"}
Lists == {"struct", "list"}
Composites == Lists \cup {"map"} \cup Arrays

CONSTANTS
  Values, Types,   \* trees, each with all its parts
  Cases,           \* a value, who writes it, and the types it may be read as
  Cuts             \* how many cells at the end do not reach the reader

ASSUME ValuesAssumption ==
  Values \subseteq [kind : Scalars \cup Composites, n : Nat, items : Seq(Values)]

\* The keys of a map are ints.
Key == Node("int", 0, <<>>)

ASSUME TypesAssumption ==
  /\ Types \subseteq [kind : {"int", "fixed", "str", "tuple", "option", "map"} \cup Lists, n : {0}, items : Seq(Types)]
  /\ \A t \in Types : t.kind \in {"option", "list", "map"} => Len(t.items) = 1
  /\ Key \in Types

ASSUME CasesAssumption == Cases \subseteq Values \X {"own", "peer"} \X SUBSET Types
ASSUME CutsAssumption == Cuts \subseteq Nat

\* The callers of de::deserialize ask for performatives, SASL frames and
\* sections' bodies: never for an option, which the end of the input would
\* satisfy, nor for a map, which has no window.
ASSUME TopLevelAssumption == \A c \in Cases : \A t \in c[3] : t.kind \in {"int", "fixed", "str"} \cup Lists

VARIABLES
  writer,       \* own, which is ser.rs, or peer
  value,        \* what is written
  type,         \* what the reader makes of it; Key until it starts
  phase,        \* write, read, then ok, err, panic or garbled
  todo,         \* the parts still to be written or read, of the innermost composite first
  output,       \* Serializer.output
  offsets,      \* Serializer.offsets
  windows,      \* the nested Deserializers, the running one last
  decoded       \* the scalars read, in order; 0 for an option's None

vars == <<writer, value, type, phase, todo, output, offsets, windows, decoded>>

Cell(tag, n) == [tag |-> tag, n |-> n]

Init ==
  /\ \E c \in Cases : value = c[1] /\ writer = c[2]
  /\ type = Key
  /\ phase = "write" /\ todo = <<<<value>>>>
  /\ output = <<>> /\ offsets = <<>>
  /\ windows = <<>> /\ decoded = <<>>

Parts == Head(todo)
Part == Head(Parts)
Others == <<Tail(Parts)>> \o Tail(todo)   \* what remains after that part

-----------------------------------------------------------------------------
\* ser.rs, and a peer that may pick another format for each part.

Writing(kinds) == phase = "write" /\ Parts # <<>> /\ Part.kind \in kinds

\* serialize_u32 and the other scalars; serialize_none; serialize_some adds
\* nothing of its own.
WriteScalar ==
  /\ Writing(Scalars)
  /\ output' = Append(output, Cell(Part.kind, Part.n))
  /\ todo' = Others
  /\ UNCHANGED <<writer, value, type, phase, offsets, windows, decoded>>

\* serialize_struct describes the list it writes.
Descriptor(v) == IF v.kind = "struct" THEN <<Cell("described", 0)>> ELSE <<>>

\* serialize_struct and serialize_tuple (for a List), serialize_map and
\* serialize_seq have one format each.
Formats(v) ==
  IF v.kind \in Arrays THEN {v.kind}
  ELSE IF v.kind = "map" THEN {"map32"} \cup (IF writer = "peer" THEN {"map8"} ELSE {})
  ELSE {"list32"} \cup (IF writer = "peer" THEN {"list8"} ELSE {})

\* The size is left 0.  The derived code then serializes the parts and calls
\* end; ser.rs does so for arrays too, all of them wide.
WriteComposite ==
  /\ Writing(Composites \ (IF writer = "own" THEN {"array8"} ELSE Arrays))
  /\ \E format \in Formats(Part) :
       LET before == output \o Append(Descriptor(Part), Cell(format, 0)) IN
       /\ output' = before \o <<Cell("size", 0), Cell("count", Len(Part.items))>>
       /\ offsets' = Append(offsets, Len(before) + 1)
  /\ todo' = <<Part.items>> \o Others
  /\ UNCHANGED <<writer, value, type, phase, windows, decoded>>

Ending == phase = "write" /\ Parts = <<>> /\ Len(todo) > 1

\* Faulty variant: the oldest size patched instead of the latest.
WriteEndOldest ==
  /\ Ending
  /\ output' = [output EXCEPT ![Head(offsets)].n = Len(output) - Head(offsets)]
  /\ offsets' = Front(offsets)
  /\ todo' = Tail(todo)
  /\ UNCHANGED <<writer, value, type, phase, windows, decoded>>

\* end(): `output.len() - offset - 4` written at the latest offset.
WriteEnd ==
  /\ Ending
  /\ output' = [output EXCEPT ![Last(offsets)].n = Len(output) - Last(offsets)]
  /\ offsets' = Front(offsets)
  /\ todo' = Tail(todo)
  /\ UNCHANGED <<writer, value, type, phase, windows, decoded>>

\* AMQP has a format for the empty list, with no size.
PeerEmptyList ==
  /\ writer = "peer" /\ Writing(Lists) /\ Part.items = <<>>
  /\ output' = output \o Append(Descriptor(Part), Cell("list0", 0))
  /\ todo' = Others
  /\ UNCHANGED <<writer, value, type, phase, offsets, windows, decoded>>

\* The elements of a peer's array, all of one scalar type, share the
\* constructor that precedes them and are data without a format code each.
PeerArray ==
  /\ writer = "peer" /\ Writing(Arrays)
  /\ LET parts == Part.items IN
     /\ \A i \in DOMAIN parts : parts[i].kind \in {"int", "fixed", "str"} /\ parts[i].kind = parts[1].kind
     /\ output' = output
          \o <<Cell(Part.kind, 0), Cell("size", Len(parts) + 2), Cell("count", Len(parts)),
               Cell(IF parts = <<>> THEN "str" ELSE parts[1].kind, 0)>>
          \o [i \in DOMAIN parts |-> Cell("data", parts[i].n)]
  /\ todo' = Others
  /\ UNCHANGED <<writer, value, type, phase, offsets, windows, decoded>>

\* de::deserialize on the bytes written, or on those of them that came in the
\* first of several transfers.
StartRead ==
  /\ phase = "write" /\ todo = <<<<>>>>
  /\ \E cut \in Cuts :
       /\ cut <= Len(output)
       /\ windows' = <<[at |-> 1, end |-> Len(output) - cut, constructor |-> "none"]>>
  /\ \E c \in Cases : c[1] = value /\ c[2] = writer /\ type' \in c[3]
  /\ phase' = "read" /\ todo' = <<<<type'>>>>
  /\ UNCHANGED <<writer, value, output, offsets, decoded>>

-----------------------------------------------------------------------------
\* de.rs

Reading(kinds) == phase = "read" /\ Parts # <<>> /\ Part.kind \in kinds

Input == Last(windows)
At == Input.at
TagAt(i) == IF i <= Input.end THEN output[i].tag ELSE "nothing"
Peek == TagAt(At)
Advance(n) == [windows EXCEPT ![Len(windows)].at = @ + n]

\* peek() reports an empty input, next() slices it and panics.  Garbled: data
\* is taken for a format code, and what becomes of it is up to the data.
Fail(o) == phase' = o /\ UNCHANGED <<todo, windows, decoded>>

Take ==
  /\ decoded' = Append(decoded, output[At].n)
  /\ windows' = Advance(1)
  /\ todo' = Others
  /\ UNCHANGED phase

\* deserialize_u32 and the like match on the format code, deserialize_u16 and
\* the like assert that it is theirs: either on next(), whatever the constructor.
ReadNumber ==
  /\ Reading(Numbers)
  /\ CASE Peek = "nothing" -> Fail("panic")
       [] Peek = Part.kind -> Take
       [] Peek = "data" -> Fail("garbled")
       [] OTHER -> Fail(IF Part.kind = "fixed" THEN "panic" ELSE "err")
  /\ UNCHANGED <<writer, value, type, output, offsets>>

\* deserialize_str and the like: next_constructor().
ReadStr ==
  /\ Reading({"str"})
  /\ LET constructor == IF Input.constructor = "none" THEN Peek ELSE Input.constructor IN
     IF constructor \notin {"str", "nothing"} THEN Fail("err")
     ELSE IF Peek = "nothing" THEN Fail("panic")
     ELSE Take
  /\ UNCHANGED <<writer, value, type, output, offsets>>

\* deserialize_tuple, for the pairs of a `properties` field: unimplemented!().
ReadTuple ==
  /\ Reading({"tuple"})
  /\ Fail("panic")
  /\ UNCHANGED <<writer, value, type, output, offsets>>

\* deserialize_option: None for a null, and at the end of the input.
ReadOption ==
  /\ Reading({"option"})
  /\ CASE Peek \in {"nothing", "none"} ->
            /\ decoded' = Append(decoded, 0)
            /\ todo' = Others
            /\ windows' = IF Peek = "none" THEN Advance(1) ELSE windows
            /\ UNCHANGED phase
       [] Peek = "data" -> Fail("garbled")
       [] OTHER ->
            /\ todo' = <<Part.items \o Tail(Parts)>> \o Tail(todo)
            /\ UNCHANGED <<phase, decoded, windows>>
  /\ UNCHANGED <<writer, value, type, output, offsets>>

\* composite() on the format code in cell `code`: the size is of what follows
\* the count and the constructor, and an underflow of it is negative here.
HeaderCells(tag) == IF tag = "list0" THEN 1 ELSE IF tag = "array8" THEN 4 ELSE 3

Header(code) ==
  LET tag == output[code].tag
      first == code + HeaderCells(tag) IN
  [first |-> first,
   count |-> IF tag = "list0" THEN 0 ELSE output[code + 2].n,
   last |-> IF tag = "list0" THEN code ELSE code + 1 + output[code + 1].n,
   constructor |-> IF tag = "array8" THEN output[code + 3].tag ELSE "none"]

\* The header is cut short, or its size is less than the rest of it takes.
BadHeader(code) ==
  \/ code + HeaderCells(output[code].tag) - 1 > Input.end
  \/ Header(code).last < Header(code).first - 1

\* An array32 has no constructor in ser.rs, has one of a byte in AMQP 1.0, and
\* composite() reads one of four: the size underflows, or bytes of the first
\* element become a constructor.
WideArray(code) ==
  \/ Fail("panic")
  \/ code + 2 <= Input.end /\ output[code + 2].n > 0 /\ Fail("garbled")

\* Faulty variants: the rest of the input is not moved past the window; an
\* array's constructor is read and forgotten.
NestSharing(h, parts) ==
  /\ windows' = Append(Advance(h.first - At), [at |-> h.first, end |-> h.last, constructor |-> h.constructor])
  /\ todo' = <<parts>> \o Others
  /\ UNCHANGED <<phase, decoded>>

NestForgetful(h, parts) ==
  IF h.last > Input.end THEN Fail("panic")
  ELSE /\ windows' = Append(Advance(h.last + 1 - At), [at |-> h.first, end |-> h.last, constructor |-> "none"])
       /\ todo' = <<parts>> \o Others
       /\ UNCHANGED <<phase, decoded>>

\* The window is split off the input, and the rest goes on after it.
Nest(h, parts) ==
  IF h.last > Input.end THEN Fail("panic")
  ELSE /\ windows' = Append(Advance(h.last + 1 - At), [at |-> h.first, end |-> h.last, constructor |-> h.constructor])
       /\ todo' = <<parts>> \o Others
       /\ UNCHANGED <<phase, decoded>>

\* The formats with a size and a count but for the wide array.
Sized == {"list0", "list8", "list32", "map8", "map32", "array8"}

\* deserialize_struct reads as many parts as the type has fields,
\* deserialize_seq as many as were counted; each skips a descriptor.
ReadSequence ==
  /\ Reading(Lists)
  /\ LET code == IF Peek = "described" THEN At + 1 ELSE At
         tag == TagAt(code) IN
     CASE tag \in Sized ->
            IF BadHeader(code) THEN Fail("panic")
            ELSE Nest(Header(code), IF Part.kind = "struct" THEN Part.items
                                    ELSE [i \in 1..Header(code).count |-> Part.items[1]])
       [] tag = "array32" -> WideArray(code)
       [] tag = "data" -> Fail("garbled")
       [] tag = "nothing" /\ Peek = "described" -> Fail("panic")
       [] OTHER -> Fail("err")
  /\ UNCHANGED <<writer, value, type, output, offsets>>

\* deserialize_map: no window, the entries are read from the input itself.
ReadMap ==
  /\ Reading({"map"})
  /\ CASE Peek = "nothing" -> Fail("panic")
       [] Peek \in Sized ->
            IF BadHeader(At) THEN Fail("panic")
            ELSE /\ windows' = Advance(Header(At).first - At)
                 /\ todo' = <<[i \in 1..2 * (Header(At).count \div 2) |->
                                IF i % 2 = 1 THEN Key ELSE Part.items[1]] \o Tail(Parts)>>
                            \o Tail(todo)
                 /\ UNCHANGED <<phase, decoded>>
       [] Peek = "array32" -> WideArray(At)
       [] Peek = "data" -> Fail("garbled")
       [] OTHER -> Fail("err")
  /\ UNCHANGED <<writer, value, type, output, offsets>>

Closing == phase = "read" /\ Parts = <<>> /\ Len(todo) > 1

\* Faulty variant: the parent goes on where the nested Deserializer stopped.
CloseWindowInPlace ==
  /\ Closing
  /\ windows' = [Front(windows) EXCEPT ![Len(windows) - 1].at = At]
  /\ todo' = Tail(todo)
  /\ UNCHANGED <<writer, value, type, phase, output, offsets, decoded>>

\* A nested Deserializer is dropped, with whatever it has not read.
CloseWindow ==
  /\ Closing
  /\ windows' = Front(windows)
  /\ todo' = Tail(todo)
  /\ UNCHANGED <<writer, value, type, phase, output, offsets, decoded>>

Return ==
  /\ phase = "read" /\ todo = <<<<>>>>
  /\ phase' = "ok"
  /\ UNCHANGED <<writer, value, type, todo, output, offsets, windows, decoded>>

Outcomes == {"ok", "err", "panic", "garbled"}
Done == phase \in Outcomes /\ UNCHANGED vars

Next ==
  \/ WriteScalar \/ WriteComposite \/ WriteEnd \/ PeerEmptyList \/ PeerArray
  \/ StartRead
  \/ ReadNumber \/ ReadStr \/ ReadTuple \/ ReadOption \/ ReadSequence \/ ReadMap \/ CloseWindow \/ Return
  \/ Done

Spec == Init /\ [][Next]_vars

-----------------------------------------------------------------------------
Tags ==
  {"described", "size", "count", "data", "list0", "list8", "list32", "map8", "map32"} \cup Arrays \cup Scalars

TypeOK ==
  /\ value \in Values /\ type \in Types /\ writer \in {"own", "peer"}
  /\ phase \in {"write", "read"} \cup Outcomes
  /\ todo \in Seq(Seq(IF phase = "write" THEN Values ELSE Types)) \ {<<>>}
  /\ output \in Seq([tag : Tags, n : Nat])
  /\ offsets \in Seq(Nat)
  /\ windows \in Seq([at : Nat, end : Nat, constructor : Tags])
  /\ decoded \in Seq(Nat)

\* The offsets remembered are those of the sizes still 0, outermost first:
\* whatever is nested in it, each composite gets its own size.  And the sizes
\* patched delimit cells that are all in the output and in every composite
\* around them: one size says nothing that another one contradicts.
SizesNest ==
  LET sizes == {i \in DOMAIN output : output[i].tag = "size"}
      closed == {i \in sizes : output[i].n # 0} IN
  /\ ToSet(offsets) = sizes \ closed
  /\ \A i, j \in DOMAIN offsets : i < j => offsets[i] < offsets[j]
  /\ \A i \in closed : i + output[i].n <= Len(output)
  /\ \A i \in closed, j \in sizes :
       i < j => \/ i + output[i].n < j
                \/ j \in closed /\ j + output[j].n <= i + output[i].n

\* A nested Deserializer's input lies inside its parent's, and the parent has
\* moved past all of it: whatever the nested one leaves unread, the parent
\* goes on with the next part.  None of them reads past its own input, nor
\* that past what came.
WindowsNest ==
  /\ \A i, j \in DOMAIN windows : i < j => windows[j].end < windows[i].at
  /\ \A i \in DOMAIN windows : windows[i].at <= windows[i].end + 1 /\ windows[i].end <= Len(output)

\* A value read is consumed whole, so what follows it is found: the next
\* section of a message, the payload behind a performative.  A value that came
\* in part only is never taken for a whole one.
ConsumedWhole ==
  phase = "ok" => Len(windows) = 1 /\ At = Len(output) + 1
=============================================================================
