-------------------------- MODULE CompositeReading --------------------------
(* What a reader is to get out of a value, by recursion over the value and   *)
(* the reader's type alone: the reference Composite is checked against.       *)
EXTENDS Composite

CONSTANT Height   \* of a type: how deep its parts nest

ASSUME HeightAssumption ==
  /\ Height \in [Types -> Nat]
  /\ \A t \in Types :
       /\ \A i \in DOMAIN t.items : Height[t.items[i]] < Height[t]
       /\ t.kind = "map" => Height[Key] < Height[t]

Missing == Node("missing", 0, <<>>)
Element(v) == Node("element", 0, <<v>>)   \* says nothing of its type
Nodes == Values \cup {Missing} \cup {Element(v) : v \in Values}

Got(leaves) == [phase |-> {"ok"}, leaves |-> leaves]
Bad(phases) == [phase |-> phases, leaves |-> <<>>]

\* One part after the other, the first failure counting.
Then(first, rest) ==
  IF first.phase # {"ok"} THEN first
  ELSE IF rest.phase # {"ok"} THEN rest
  ELSE Got(first.leaves \o rest.leaves)

\* The parts of a value v read as a type t: one for each field of a struct,
\* else as many as were written.  Fields the reader does not know are passed
\* over.
PartCount(v, t) ==
  CASE t.kind = "struct" -> Len(t.items)
    [] t.kind \in {"list", "map"} -> Len(v.items)
    [] OTHER -> 0
PartOf(v, i) ==
  IF i > Len(v.items) THEN Missing
  ELSE IF v.kind = "array8" THEN Element(v.items[i])
  ELSE v.items[i]
PartType(t, i) ==
  CASE t.kind = "struct" -> t.items[i]
    [] t.kind = "map" /\ i % 2 = 1 -> Key
    [] OTHER -> t.items[1]

\* Options the writer does not know are None.  Anything else missing is an
\* error, or a panic where it is a scalar, a map or a tuple; so is any other
\* value where a number of one format is asked for.
ExpectedOf(expected, v, t) ==
  IF t.kind = "tuple" THEN Bad({"panic"})
  ELSE IF v.kind = "element" THEN
    IF t.kind # "str" THEN Bad({"garbled"})
    ELSE IF v.items[1].kind = "str" THEN Got(<<v.items[1].n>>) ELSE Bad({"err"})
  ELSE IF t.kind = "option" THEN
    IF v.kind \in {"missing", "none"} THEN Got(<<0>>) ELSE expected[<<v, t.items[1], 0>>]
  ELSE IF v.kind = "missing" THEN
    Bad(IF t.kind \in Lists THEN {"err"} ELSE {"panic"})
  ELSE IF t.kind \in Numbers \cup {"str"} THEN
    IF v.kind = t.kind THEN Got(<<v.n>>) ELSE Bad(IF t.kind = "fixed" THEN {"panic"} ELSE {"err"})
  ELSE IF v.kind = "array32" THEN
    Bad(IF v.items = <<>> THEN {"panic"} ELSE {"panic", "garbled"})
  ELSE IF v.kind \in Scalars \/ (t.kind = "map" /\ v.kind = "struct") THEN Bad({"err"})
  \* A map takes what there is by twos, in no window of its own: an odd part is
  \* left in its parent's way and the data of an array are taken for
  \* constructors.  Anything may come of it.
  ELSE IF t.kind = "map" /\ (v.kind = "array8" \/ Len(v.items) % 2 # 0) THEN Bad(Outcomes)
  ELSE expected[<<v, t, 1>>]

\* What comes of reading a value as a type, and of its parts from the i-th on
\* where i is not 0.
Readings == Nodes \X Types \X Nat
Outcome(expected, v, t, i) ==
  IF i = 0 THEN ExpectedOf(expected, v, t)
  ELSE IF i > PartCount(v, t) THEN Got(<<>>)
  ELSE Then(expected[<<PartOf(v, i), PartType(t, i), 0>>], expected[<<v, t, i + 1>>])

Expected[reading \in Readings] == Outcome(Expected, reading[1], reading[2], reading[3])

\* Reading what was written, as any version of its type, yields the parts the
\* two versions share, each in its place, or fails as it should.
ReadsWhatWasWritten ==
  phase \in Outcomes /\ windows[1].end = Len(output) =>
    LET e == Expected[<<value, type, 0>>] IN
    /\ phase \in e.phase
    /\ e.phase = {"ok"} => decoded = e.leaves

\* serialize_seq writes the array format.
ArraysAreRead ==
  value.kind \in Arrays /\ type = Node("list", 0, <<Node("str", 0, <<>>)>>)
    => phase \notin {"err", "panic", "garbled"}
=============================================================================
