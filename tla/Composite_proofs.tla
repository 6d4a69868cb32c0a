-------------------------- MODULE Composite_proofs --------------------------
(***************************************************************************)
(* Theorems about Composite, for all trees of values and types: the sizes   *)
(* the Serializer patches in nest as the composites do; the nested          *)
(* Deserializers stay inside their inputs, whatever bytes they are given;   *)
(* and what they read is what CompositeReading expects of the value and the *)
(* type alone.                                                              *)
(***************************************************************************)
EXTENDS CompositeReading, SequenceTheorems, WellFoundedInduction, TLAPS

USE DEF Numbers

\* A stack of sequences, the first of which has been replaced.
LEMMA Replaced ==
  ASSUME NEW S, NEW stack \in Seq(Seq(S)), stack # <<>>, NEW s \in Seq(S)
  PROVE  /\ <<s>> \o Tail(stack) \in Seq(Seq(S))
         /\ Len(<<s>> \o Tail(stack)) = Len(stack)
         /\ <<s>> \o Tail(stack) # <<>>
<1>1. Tail(stack) \in Seq(Seq(S)) /\ Len(Tail(stack)) = Len(stack) - 1
  BY HeadTailProperties
<1>2. <<s>> \in Seq(Seq(S)) /\ Len(<<s>>) = 1
  OBVIOUS
<1>3. Len(stack) \in Nat /\ Len(stack) > 0
  BY LenProperties, EmptySeq
<1> QED BY <1>1, <1>2, <1>3, ConcatProperties

\* One more on the stack.
LEMMA Pushed ==
  ASSUME NEW S, NEW stack \in Seq(Seq(S)), NEW s \in Seq(S)
  PROVE  /\ <<s>> \o stack \in Seq(Seq(S))
         /\ Len(<<s>> \o stack) = Len(stack) + 1
         /\ <<s>> \o stack # <<>>
<1>1. <<s>> \in Seq(Seq(S)) /\ Len(<<s>>) = 1
  OBVIOUS
<1>2. Len(stack) \in Nat
  BY LenProperties
<1> QED BY <1>1, <1>2, ConcatProperties

Trees == IF phase = "write" THEN Values ELSE Types

\* What is left to do is on a stack of sequences of trees.
LEMMA Stack ==
  ASSUME todo \in Seq(Seq(Trees)), todo # <<>>
  PROVE  /\ Parts \in Seq(Trees)
         /\ Tail(todo) \in Seq(Seq(Trees)) /\ Len(Tail(todo)) = Len(todo) - 1
         /\ Parts # <<>> =>
              /\ Part \in Trees /\ Tail(Parts) \in Seq(Trees)
              /\ Others \in Seq(Seq(Trees)) /\ Others # <<>> /\ Len(Others) = Len(todo)
<1>1. /\ Parts \in Seq(Trees) /\ Tail(todo) \in Seq(Seq(Trees))
      /\ Len(Tail(todo)) = Len(todo) - 1
  BY HeadTailProperties DEF Parts
<1>2. ASSUME Parts # <<>>
      PROVE  Part \in Trees /\ Tail(Parts) \in Seq(Trees)
  BY <1>1, <1>2, HeadTailProperties DEF Part
<1> QED BY <1>1, <1>2, Replaced DEF Others

\* The parts of a value are values, and of a type types.
LEMMA ValueParts ==
  ASSUME NEW v \in Values
  PROVE  v.kind \in Scalars \cup Composites /\ v.n \in Nat /\ v.items \in Seq(Values)
<1>1. v \in [kind : Scalars \cup Composites, n : Nat, items : Seq(Values)]
  BY ValuesAssumption
<1> QED BY <1>1

LEMMA TypeParts ==
  ASSUME NEW t \in Types
  PROVE  t.items \in Seq(Types) /\ (t.kind \in {"option", "list", "map"} => t.items[1] \in Types)
<1>1. t \in [kind : {"int", "fixed", "str", "tuple", "option", "map"} \cup Lists, n : {0}, items : Seq(Types)]
  BY TypesAssumption
<1>2. t.items \in Seq(Types)
  BY <1>1
<1>3. t.kind \in {"option", "list", "map"} => Len(t.items) = 1
  BY TypesAssumption
<1> QED BY <1>2, <1>3, ElementOfSeq

-----------------------------------------------------------------------------
(* The sizes in the output.                                                  *)

Cells == [tag : Tags, n : Nat]

IsSize(out, i) == out[i].tag = "size"
IsOpen(out, i) == out[i].tag = "size" /\ out[i].n = 0
IsClosed(out, i) == out[i].tag = "size" /\ out[i].n # 0

\* SizesNest of any cells and offsets, a part at a time.
OffsetsOpen(out, offs) ==
  /\ \A k \in DOMAIN offs : offs[k] \in DOMAIN out /\ IsOpen(out, offs[k])
  /\ \A i \in DOMAIN out : IsOpen(out, i) => \E k \in DOMAIN offs : offs[k] = i
Increasing(offs) == \A i, j \in DOMAIN offs : i < j => offs[i] < offs[j]
Inside(out) == \A i \in DOMAIN out : IsClosed(out, i) => i + out[i].n <= Len(out)
Laminar(out) ==
  \A i, j \in DOMAIN out :
    IsClosed(out, i) /\ IsSize(out, j) /\ i < j =>
      \/ i + out[i].n < j
      \/ IsClosed(out, j) /\ j + out[j].n <= i + out[i].n
Nested(out, offs) == OffsetsOpen(out, offs) /\ Increasing(offs) /\ Inside(out) /\ Laminar(out)

LEMMA NestedMeans ==
  ASSUME output \in Seq(Cells), offsets \in Seq(Nat)
  PROVE  SizesNest <=> Nested(output, offsets)
<1> DEFINE sizes == {i \in DOMAIN output : output[i].tag = "size"}
           closed == {i \in sizes : output[i].n # 0}
<1>1. ToSet(offsets) = sizes \ closed <=> OffsetsOpen(output, offsets)
  <2>1. ASSUME ToSet(offsets) = sizes \ closed PROVE OffsetsOpen(output, offsets)
    BY <2>1 DEF ToSet, OffsetsOpen, IsOpen
  <2>2. ASSUME OffsetsOpen(output, offsets) PROVE ToSet(offsets) = sizes \ closed
    BY <2>2 DEF ToSet, OffsetsOpen, IsOpen
  <2> QED BY <2>1, <2>2
<1>2. (\A i \in closed : i + output[i].n <= Len(output)) <=> Inside(output)
  BY DEF Inside, IsClosed
<1>3. (\A i \in closed, j \in sizes :
         i < j => \/ i + output[i].n < j
                  \/ j \in closed /\ j + output[j].n <= i + output[i].n) <=> Laminar(output)
  BY DEF Laminar, IsClosed, IsSize
<1> QED BY <1>1, <1>2, <1>3 DEF SizesNest, Nested, Increasing

\* Cells written behind the others, with a size among them at most, which is
\* of the last of them.
Settled(more) ==
  \A i \in DOMAIN more :
    IsSize(more, i) =>
      /\ more[i].n # 0 /\ i + more[i].n <= Len(more)
      /\ \A j \in DOMAIN more : IsSize(more, j) => j = i

LEMMA Concat ==
  ASSUME NEW out \in Seq(Cells), NEW more \in Seq(Cells)
  PROVE  /\ out \o more \in Seq(Cells)
         /\ Len(out \o more) = Len(out) + Len(more) /\ Len(out) \in Nat /\ Len(more) \in Nat
         /\ DOMAIN out = 1..Len(out) /\ DOMAIN more = 1..Len(more)
         /\ DOMAIN (out \o more) = 1..(Len(out) + Len(more))
         /\ \A i \in DOMAIN out : out[i] \in Cells
         /\ \A i \in DOMAIN more : more[i] \in Cells
         /\ \A i \in 1..(Len(out) + Len(more)) :
              /\ i <= Len(out) => (out \o more)[i] = out[i]
              /\ i > Len(out) => (out \o more)[i] = more[i - Len(out)]
BY ConcatProperties, LenProperties, ElementOfSeq

LEMMA Grow ==
  ASSUME NEW out \in Seq(Cells), NEW offs \in Seq(Nat), NEW more \in Seq(Cells),
         Nested(out, offs), Settled(more)
  PROVE  Nested(out \o more, offs)
<1> DEFINE n == Len(out)
           grown == out \o more
<1>1. /\ Len(grown) = n + Len(more) /\ n \in Nat /\ Len(more) \in Nat
      /\ DOMAIN out = 1..n /\ DOMAIN more = 1..Len(more) /\ DOMAIN grown = 1..(n + Len(more))
      /\ \A i \in 1..(n + Len(more)) :
           /\ i <= n => i \in DOMAIN out /\ grown[i] = out[i]
           /\ i > n => i - n \in DOMAIN more /\ grown[i] = more[i - n]
  BY Concat
<1>2. /\ \A i \in DOMAIN out : out[i].n \in Nat
      /\ \A i \in DOMAIN more : more[i].n \in Nat
  BY Concat DEF Cells
<1> HIDE DEF n, grown
<1>3. OffsetsOpen(grown, offs)
  <2>1. ASSUME NEW k \in DOMAIN offs PROVE offs[k] \in DOMAIN grown /\ IsOpen(grown, offs[k])
    <3>1. offs[k] \in 1..n /\ IsOpen(out, offs[k])
      BY <1>1 DEF Nested, OffsetsOpen
    <3>2. offs[k] \in 1..(n + Len(more)) /\ offs[k] <= n
      BY <3>1, <1>1
    <3> QED BY <3>1, <3>2, <1>1 DEF IsOpen
  <2>2. ASSUME NEW i \in DOMAIN grown, IsOpen(grown, i) PROVE \E k \in DOMAIN offs : offs[k] = i
    <3>1. i \in 1..(n + Len(more))
      BY <1>1
    <3>2. ~(i > n)
      BY <3>1, <2>2, <1>1 DEF IsOpen, Settled, IsSize
    <3>3. i \in DOMAIN out /\ IsOpen(out, i)
      BY <3>1, <3>2, <2>2, <1>1 DEF IsOpen
    <3> QED BY <3>3 DEF Nested, OffsetsOpen
  <2> QED BY <2>1, <2>2 DEF OffsetsOpen
<1>4. Inside(grown)
  <2> SUFFICES ASSUME NEW i \in DOMAIN grown, IsClosed(grown, i)
               PROVE  i + grown[i].n <= Len(grown)
    BY DEF Inside
  <2>1. CASE i <= n
    <3>1. i \in DOMAIN out /\ grown[i] = out[i]
      BY <1>1, <2>1
    <3>2. i + out[i].n <= n
      BY <3>1 DEF Nested, Inside, IsClosed, n
    <3> QED BY <1>1, <1>2, <3>1, <3>2
  <2>2. CASE n < i
    <3>1. i - n \in DOMAIN more /\ grown[i] = more[i - n]
      BY <1>1, <2>2
    <3>2. (i - n) + more[i - n].n <= Len(more)
      BY <3>1 DEF Settled, IsSize, IsClosed
    <3> QED BY <1>1, <1>2, <3>1, <3>2
  <2> QED BY <1>1, <2>1, <2>2
<1>5. Laminar(grown)
  <2> SUFFICES ASSUME NEW i \in DOMAIN grown, NEW j \in DOMAIN grown,
                      IsClosed(grown, i), IsSize(grown, j), i < j
               PROVE  \/ i + grown[i].n < j
                      \/ IsClosed(grown, j) /\ j + grown[j].n <= i + grown[i].n
    BY DEF Laminar
  <2>1. CASE j <= n
    <3>0. i \in 1..(n + Len(more)) /\ j \in 1..(n + Len(more)) /\ i <= n
      BY <1>1, <2>1
    <3>1. i \in DOMAIN out /\ j \in DOMAIN out /\ grown[i] = out[i] /\ grown[j] = out[j]
      BY <1>1, <2>1, <3>0
    <3> QED BY <3>1 DEF Nested, Laminar, IsClosed, IsSize
  <2>2. CASE i <= n /\ n < j
    <3>1. i \in DOMAIN out /\ grown[i] = out[i]
      BY <1>1, <2>2
    <3>2. i + out[i].n <= n
      BY <3>1 DEF Nested, Inside, IsClosed, n
    <3> QED BY <3>1, <3>2, <2>2, <1>1, <1>2
  <2>3. CASE n < i
    <3>1. /\ i - n \in DOMAIN more /\ grown[i] = more[i - n]
          /\ j - n \in DOMAIN more /\ grown[j] = more[j - n]
      BY <1>1, <2>3
    <3>2. i - n = j - n
      BY <3>1 DEF Settled, IsSize, IsClosed
    <3> QED BY <3>2, <1>1
  <2> QED BY <2>1, <2>2, <2>3, <1>1
<1> QED BY <1>3, <1>4, <1>5 DEF Nested, grown

\* A size left open, and a count: the offset remembered is the latest.
LEMMA OpenOne ==
  ASSUME NEW out \in Seq(Cells), NEW offs \in Seq(Nat), NEW c \in Nat, Nested(out, offs)
  PROVE  LET more == <<Cell("size", 0), Cell("count", c)>> IN
         /\ Nested(out \o more, Append(offs, Len(out) + 1))
         /\ out \o more \in Seq(Cells) /\ Len(out \o more) = Len(out) + 2
<1> DEFINE n == Len(out)
           more == <<Cell("size", 0), Cell("count", c)>>
           grown == out \o more
           more_offs == Append(offs, n + 1)
           m == Len(offs)
<1>0. more \in Seq(Cells) /\ Len(more) = 2
  BY DEF Cells, Cell, Tags, Arrays, Scalars
<1>1. /\ grown \in Seq(Cells) /\ Len(grown) = n + 2 /\ n \in Nat
      /\ DOMAIN out = 1..n /\ DOMAIN grown = 1..(n + 2)
      /\ \A i \in 1..n : grown[i] = out[i] /\ out[i].n \in Nat
      /\ grown[n + 1] = more[1] /\ grown[n + 2] = more[2]
  <2>1. /\ grown \in Seq(Cells) /\ Len(grown) = n + 2 /\ n \in Nat
        /\ DOMAIN out = 1..n /\ DOMAIN grown = 1..(n + 2)
        /\ \A i \in 1..n : out[i] \in Cells
        /\ \A i \in 1..(n + 2) :
             /\ i <= n => grown[i] = out[i]
             /\ i > n => grown[i] = more[i - n]
    BY <1>0, Concat
  <2> HIDE DEF grown, n, more
  <2>2. \A i \in 1..n : out[i].n \in Nat
    BY <2>1 DEF Cells
  <2>3. \A i \in 1..n : grown[i] = out[i]
    BY <2>1
  <2>4. n + 1 \in 1..(n + 2) /\ n + 1 > n /\ (n + 1) - n = 1
    BY <2>1
  <2>5. n + 2 \in 1..(n + 2) /\ n + 2 > n /\ (n + 2) - n = 2
    BY <2>1
  <2> QED BY <2>1, <2>2, <2>3, <2>4, <2>5
<1>2. /\ more[1].tag = "size" /\ more[1].n = 0 /\ more[2].tag = "count"
  BY DEF Cell
<1>3. /\ m \in Nat /\ DOMAIN offs = 1..m /\ DOMAIN more_offs = 1..(m + 1)
      /\ \A k \in 1..m : more_offs[k] = offs[k]
      /\ more_offs[m + 1] = n + 1
  BY <1>1, AppendProperties, LenProperties
<1> HIDE DEF n, grown, more_offs, m, more
<1>4. \A i \in 1..(n + 2) : i \in 1..n \/ i = n + 1 \/ i = n + 2
  BY <1>1
<1>5. OffsetsOpen(grown, more_offs)
  <2>1. ASSUME NEW k \in DOMAIN more_offs
        PROVE  more_offs[k] \in DOMAIN grown /\ IsOpen(grown, more_offs[k])
    <3>1. CASE k = m + 1
      BY <3>1, <1>1, <1>2, <1>3 DEF IsOpen
    <3>2. CASE k # m + 1
      <4>1. k \in 1..m
        BY <3>2, <1>3
      <4>2. offs[k] \in 1..n /\ IsOpen(out, offs[k])
        BY <4>1, <1>1, <1>3 DEF Nested, OffsetsOpen
      <4>3. more_offs[k] = offs[k]
        BY <4>1, <1>3
      <4>4. offs[k] \in 1..(n + 2) /\ grown[offs[k]] = out[offs[k]]
        BY <4>2, <1>1
      <4> QED BY <4>2, <4>3, <4>4, <1>1 DEF IsOpen
    <3> QED BY <3>1, <3>2
  <2>2. ASSUME NEW i \in DOMAIN grown, IsOpen(grown, i)
        PROVE  \E k \in DOMAIN more_offs : more_offs[k] = i
    <3>1. CASE i = n + 1
      <4>1. m + 1 \in DOMAIN more_offs
        BY <1>3
      <4> QED BY <4>1, <3>1, <1>3
    <3>2. CASE i \in 1..n
      <4>1. IsOpen(out, i) /\ i \in DOMAIN out
        BY <3>2, <2>2, <1>1 DEF IsOpen
      <4>2. PICK k \in DOMAIN offs : offs[k] = i
        BY <4>1 DEF Nested, OffsetsOpen
      <4>3. k \in 1..m /\ k \in DOMAIN more_offs
        BY <4>2, <1>3
      <4> QED BY <4>2, <4>3, <1>3
    <3>3. i # n + 2
      BY <2>2, <1>1, <1>2 DEF IsOpen
    <3> QED BY <3>1, <3>2, <3>3, <1>4, <1>1
  <2> QED BY <2>1, <2>2 DEF OffsetsOpen
<1>6. Increasing(more_offs)
  <2> SUFFICES ASSUME NEW i \in 1..(m + 1), NEW j \in 1..(m + 1), i < j
               PROVE  more_offs[i] < more_offs[j]
    BY <1>3 DEF Increasing
  <2>1. i \in 1..m /\ i \in DOMAIN offs /\ more_offs[i] = offs[i]
    BY <1>3
  <2>2. offs[i] \in 1..n
    BY <2>1, <1>1 DEF Nested, OffsetsOpen
  <2>3. CASE j = m + 1
    BY <2>1, <2>2, <2>3, <1>1, <1>3
  <2>4. CASE j # m + 1
    <3>1. j \in 1..m /\ j \in DOMAIN offs /\ more_offs[j] = offs[j]
      BY <2>4, <1>3
    <3> QED BY <2>1, <3>1 DEF Nested, Increasing
  <2> QED BY <2>3, <2>4
<1>7. ASSUME NEW i \in DOMAIN grown, IsClosed(grown, i)
      PROVE  i \in 1..n /\ IsClosed(out, i) /\ grown[i] = out[i] /\ i + out[i].n <= n
  <2>1. i # n + 1 /\ i # n + 2
    BY <1>7, <1>1, <1>2 DEF IsClosed
  <2>2. i \in 1..n /\ IsClosed(out, i) /\ grown[i] = out[i]
    BY <2>1, <1>1, <1>4, <1>7 DEF IsClosed
  <2> QED BY <2>2, <1>1 DEF Nested, Inside, n
<1>8. Inside(grown)
  <2>1. ASSUME NEW i \in DOMAIN grown, IsClosed(grown, i) PROVE i + grown[i].n <= n + 2
    BY <2>1, <1>7, <1>1
  <2> QED BY <2>1, <1>1 DEF Inside
<1>9. Laminar(grown)
  <2> SUFFICES ASSUME NEW i \in DOMAIN grown, NEW j \in DOMAIN grown,
                      IsClosed(grown, i), IsSize(grown, j), i < j
               PROVE  \/ i + grown[i].n < j
                      \/ IsClosed(grown, j) /\ j + grown[j].n <= i + grown[i].n
    BY DEF Laminar
  <2>1. i \in 1..n /\ IsClosed(out, i) /\ grown[i] = out[i] /\ i + out[i].n <= n
    BY <1>7
  <2>2. CASE j \in 1..n
    <3>1. i \in DOMAIN out /\ j \in DOMAIN out /\ grown[j] = out[j]
      BY <2>1, <2>2, <1>1
    <3> QED BY <3>1, <2>1 DEF Nested, Laminar, IsClosed, IsSize
  <2>3. CASE j \notin 1..n
    <3>1. j = n + 1 \/ j = n + 2
      BY <2>3, <1>1, <1>4
    <3> QED BY <3>1, <2>1, <1>1
  <2> QED BY <2>2, <2>3
<1> QED BY <1>1, <1>5, <1>6, <1>8, <1>9 DEF Nested, grown, more_offs, n, more

\* The latest size patched with the length of what follows it.
LEMMA CloseOne ==
  ASSUME NEW out \in Seq(Cells), NEW offs \in Seq(Nat), offs # <<>>,
         Nested(out, offs), Last(offs) < Len(out)
  PROVE  LET patched == [out EXCEPT ![Last(offs)].n = Len(out) - Last(offs)] IN
         /\ Nested(patched, Front(offs))
         /\ patched \in Seq(Cells) /\ Len(patched) = Len(out)
         /\ Front(offs) \in Seq(Nat) /\ Len(Front(offs)) = Len(offs) - 1
         /\ \A k \in DOMAIN Front(offs) : k \in DOMAIN offs /\ Front(offs)[k] = offs[k]
<1> DEFINE n == Len(out)
           m == Len(offs)
           o == Last(offs)
           patched == [out EXCEPT ![o].n = n - o]
           rest == Front(offs)
<1>1. n \in Nat /\ DOMAIN out = 1..n /\ m \in Nat /\ m > 0 /\ DOMAIN offs = 1..m
  <2>1. n \in Nat /\ DOMAIN out = 1..n
    BY LenProperties
  <2>2. m \in Nat /\ DOMAIN offs = 1..m
    BY LenProperties
  <2>3. m # 0
    BY EmptySeq
  <2> QED BY <2>1, <2>2, <2>3
<1>2. o \in 1..n /\ IsOpen(out, o) /\ o < n /\ o = offs[m]
  <2>1. o = offs[m] /\ m \in DOMAIN offs
    BY <1>1 DEF Last
  <2>2. offs[m] \in DOMAIN out /\ IsOpen(out, offs[m])
    BY <2>1 DEF Nested, OffsetsOpen
  <2> QED BY <1>1, <2>1, <2>2
<1>3. \A i \in 1..n : out[i] \in Cells /\ out[i].n \in Nat
  <2>1. \A i \in 1..n : out[i] \in Cells
    BY <1>1, ElementOfSeq
  <2> QED BY <2>1 DEF Cells
<1>4. /\ rest \in Seq(Nat) /\ Len(rest) = m - 1 /\ DOMAIN rest = 1..(m - 1)
      /\ \A k \in 1..(m - 1) : rest[k] = offs[k]
  BY <1>1, SubSeqProperties DEF Front
<1>5. /\ DOMAIN patched = 1..n
      /\ \A i \in 1..n : i # o => patched[i] = out[i]
      /\ patched[o] = [out[o] EXCEPT !.n = n - o]
  BY <1>1, <1>2
<1>6. patched[o] \in Cells /\ patched[o].n = n - o /\ patched[o].tag = "size" /\ n - o \in Nat /\ n - o # 0
  <2>1. n - o \in Nat /\ n - o # 0
    BY <1>1, <1>2
  <2>2. out[o] \in Cells /\ out[o].tag = "size"
    BY <1>2, <1>3 DEF IsOpen
  <2> HIDE DEF patched, n, o
  <2> QED BY <2>1, <2>2, <1>5 DEF Cells
<1>7. patched \in Seq(Cells) /\ Len(patched) = n
  <2>1. patched \in [1..n -> Cells]
    BY <1>1, <1>3, <1>5, <1>6
  <2> QED BY <2>1, <1>1, IsASeq
<1> HIDE DEF n, m, o, patched, rest
<1>8. \A k \in 1..(m - 1) : k \in 1..m /\ offs[k] < o
  <2>1. ASSUME NEW k \in 1..(m - 1) PROVE k \in 1..m /\ m \in 1..m /\ k < m
    BY <1>1
  <2> QED BY <2>1, <1>1, <1>2 DEF Nested, Increasing
<1>9. OffsetsOpen(patched, rest)
  <2>1. ASSUME NEW k \in DOMAIN rest PROVE rest[k] \in DOMAIN patched /\ IsOpen(patched, rest[k])
    <3>1. k \in 1..(m - 1) /\ rest[k] = offs[k] /\ offs[k] < o /\ k \in DOMAIN offs
      BY <1>1, <1>4, <1>8
    <3>2. offs[k] \in 1..n /\ IsOpen(out, offs[k])
      BY <3>1, <1>1 DEF Nested, OffsetsOpen
    <3>3. offs[k] # o
      BY <3>1, <3>2, <1>2
    <3> QED BY <3>1, <3>2, <3>3, <1>5 DEF IsOpen
  <2>2. ASSUME NEW i \in DOMAIN patched, IsOpen(patched, i) PROVE \E k \in DOMAIN rest : rest[k] = i
    <3>1. i # o
      BY <2>2, <1>6 DEF IsOpen
    <3>2. i \in DOMAIN out /\ IsOpen(out, i)
      BY <3>1, <2>2, <1>1, <1>5 DEF IsOpen
    <3>3. PICK k \in DOMAIN offs : offs[k] = i
      BY <3>2 DEF Nested, OffsetsOpen
    <3>4. k # m
      BY <3>1, <3>3, <1>2
    <3>5. k \in 1..(m - 1)
      BY <3>4, <1>1
    <3> QED BY <3>3, <3>5, <1>4
  <2> QED BY <2>1, <2>2 DEF OffsetsOpen
<1>10. Increasing(rest)
  <2> SUFFICES ASSUME NEW i \in 1..(m - 1), NEW j \in 1..(m - 1), i < j PROVE rest[i] < rest[j]
    BY <1>4 DEF Increasing
  <2>1. i \in DOMAIN offs /\ j \in DOMAIN offs
    BY <1>1, <1>8
  <2> QED BY <2>1, <1>4 DEF Nested, Increasing
<1>11. Inside(patched)
  <2> SUFFICES ASSUME NEW i \in 1..n, IsClosed(patched, i) PROVE i + patched[i].n <= n
    BY <1>5, <1>7 DEF Inside
  <2>1. CASE i = o
    BY <2>1, <1>1, <1>2, <1>6
  <2>2. CASE i # o
    BY <2>2, <1>1, <1>5 DEF Nested, Inside, IsClosed, n
  <2> QED BY <2>1, <2>2
<1>12. Laminar(patched)
  <2> SUFFICES ASSUME NEW i \in 1..n, NEW j \in 1..n, IsClosed(patched, i), IsSize(patched, j), i < j
               PROVE  \/ i + patched[i].n < j
                      \/ IsClosed(patched, j) /\ j + patched[j].n <= i + patched[i].n
    BY <1>5 DEF Laminar
  <2>1. CASE i = o
    <3>1. patched[j] = out[j] /\ IsSize(out, j) /\ j \in DOMAIN out
      BY <2>1, <1>1, <1>2, <1>5 DEF IsSize
    <3>2. ~IsOpen(out, j)
      <4>1. SUFFICES ASSUME IsOpen(out, j) PROVE FALSE
        OBVIOUS
      <4>2. PICK k \in DOMAIN offs : offs[k] = j
        BY <3>1, <4>1 DEF Nested, OffsetsOpen
      <4>3. k = m \/ k \in 1..(m - 1)
        BY <1>1
      <4> QED BY <4>2, <4>3, <1>2, <1>8, <2>1
    <3>3. IsClosed(out, j) /\ j + out[j].n <= n
      BY <3>1, <3>2 DEF Nested, Inside, IsOpen, IsClosed, IsSize, n
    <3>4. o + (n - o) = n
      BY <1>1, <1>2
    <3> QED BY <3>1, <3>3, <3>4, <2>1, <1>6 DEF IsClosed
  <2>2. CASE i # o
    <3>1. i \in DOMAIN out /\ j \in DOMAIN out /\ IsClosed(out, i) /\ patched[i] = out[i]
      BY <2>2, <1>1, <1>5 DEF IsClosed
    <3>2. CASE j = o
      <4>1. IsSize(out, j) /\ ~IsClosed(out, j)
        BY <3>2, <1>2 DEF IsOpen, IsSize, IsClosed
      <4>2. i + out[i].n < j
        BY <3>1, <4>1 DEF Nested, Laminar
      <4> QED BY <3>1, <4>2
    <3>3. CASE j # o
      <4>1. patched[j] = out[j] /\ IsSize(out, j)
        BY <3>3, <1>5 DEF IsSize
      <4> QED BY <3>1, <4>1 DEF Nested, Laminar, IsClosed
    <3> QED BY <3>2, <3>3
  <2> QED BY <2>1, <2>2
<1>13. \A k \in DOMAIN rest : k \in DOMAIN offs /\ rest[k] = offs[k]
  BY <1>1, <1>4, <1>8
<1> QED BY <1>4, <1>7, <1>9, <1>10, <1>11, <1>12, <1>13 DEF Nested, n, m, o, patched, rest

-----------------------------------------------------------------------------
(* The invariant: as many parts' stacks as sizes are open, or windows; the   *)
(* sizes open are followed by their counts; no window starts before a cell.   *)

Opened ==
  /\ phase = "write" => Len(todo) = Len(offsets) + 1
  /\ \A k \in DOMAIN offsets : offsets[k] < Len(output)
  /\ Nested(output, offsets)

Windowed ==
  /\ phase = "write" => windows = <<>>
  /\ phase # "write" => Len(todo) = Len(windows)
  /\ \A i \in DOMAIN windows : 1 <= windows[i].at
  /\ WindowsNest

CompositeInv == TypeOK /\ Opened /\ Windowed

Frames == [at : Nat, end : Nat, constructor : Tags]

LEMMA InvInit == Init => CompositeInv
<1> SUFFICES ASSUME Init PROVE CompositeInv
  OBVIOUS
<1>1. PICK c \in Cases : value = c[1] /\ writer = c[2]
  BY DEF Init
<1>2. c \in Values \X {"own", "peer"} \X SUBSET Types
  BY CasesAssumption
<1>3. value \in Values /\ writer \in {"own", "peer"} /\ type \in Types
  BY <1>1, <1>2, TypesAssumption DEF Init
<1>4. todo \in Seq(Seq(Values)) /\ todo # <<>> /\ Len(todo) = 1
  BY <1>3 DEF Init
<1>5. /\ phase = "write" /\ output = <<>> /\ offsets = <<>> /\ windows = <<>> /\ decoded = <<>>
  BY DEF Init
<1>6. TypeOK
  BY <1>3, <1>4, <1>5 DEF TypeOK
<1>7. Nested(output, offsets)
  BY <1>5 DEF Nested, OffsetsOpen, Increasing, Inside, Laminar
<1>8. Opened
  BY <1>4, <1>5, <1>7 DEF Opened
<1>9. Windowed
  BY <1>5 DEF Windowed, WindowsNest
<1> QED BY <1>6, <1>8, <1>9 DEF CompositeInv

-----------------------------------------------------------------------------
(* Writing.                                                                  *)

\* A part written whole.
LEMMA PartWritten ==
  ASSUME CompositeInv, phase = "write", Parts # <<>>,
         NEW more \in Seq(Cells), Settled(more), output' = output \o more, todo' = Others,
         UNCHANGED <<writer, value, type, phase, offsets, windows, decoded>>
  PROVE  CompositeInv'
<1>1. /\ todo \in Seq(Seq(Values)) /\ todo # <<>> /\ output \in Seq(Cells) /\ offsets \in Seq(Nat)
  BY DEF CompositeInv, TypeOK, Cells
<1>2. todo' \in Seq(Seq(Values)) /\ todo' # <<>> /\ Len(todo') = Len(todo)
  BY <1>1, Stack DEF Trees
<1>3. output' \in Seq(Cells) /\ Len(output') >= Len(output) /\ Len(output) \in Nat /\ Len(output') \in Nat
  BY <1>1, Concat
<1>4. Nested(output', offsets)
  BY <1>1, Grow DEF CompositeInv, Opened
<1>5. TypeOK'
  BY <1>2, <1>3 DEF CompositeInv, TypeOK, Cells
<1>6. \A k \in DOMAIN offsets : offsets[k] < Len(output')
  <2>1. \A k \in DOMAIN offsets : offsets[k] \in Nat /\ offsets[k] < Len(output)
    BY <1>1, ElementOfSeq DEF CompositeInv, Opened
  <2> QED BY <2>1, <1>3
<1>7. Opened'
  BY <1>2, <1>4, <1>6 DEF CompositeInv, Opened
<1>8. Windowed'
  BY DEF CompositeInv, Windowed, WindowsNest
<1> QED BY <1>5, <1>7, <1>8 DEF CompositeInv

LEMMA StepWriteScalar == CompositeInv /\ WriteScalar => CompositeInv'
<1> SUFFICES ASSUME CompositeInv, WriteScalar PROVE CompositeInv'
  OBVIOUS
<1>1. /\ phase = "write" /\ Parts # <<>> /\ Part.kind \in Scalars /\ todo' = Others
      /\ output' = Append(output, Cell(Part.kind, Part.n))
      /\ UNCHANGED <<writer, value, type, phase, offsets, windows, decoded>>
  BY DEF WriteScalar, Writing
<1>2. todo \in Seq(Seq(Values)) /\ todo # <<>> /\ output \in Seq(Cells)
  BY <1>1 DEF CompositeInv, TypeOK, Cells
<1>3. Part.n \in Nat
  BY <1>1, <1>2, Stack, ValueParts DEF Trees
<1> DEFINE cell == Cell(Part.kind, Part.n)
<1>4. cell \in Cells /\ cell.tag # "size"
  BY <1>1, <1>3 DEF Cell, Cells, Tags, Scalars
<1> HIDE DEF cell
<1>5. <<cell>> \in Seq(Cells) /\ output' = output \o <<cell>>
  BY <1>1, <1>2, <1>4, AppendIsConcat DEF cell
<1>6. Settled(<<cell>>)
  BY <1>4 DEF Settled, IsSize
<1> QED BY <1>1, <1>5, <1>6, PartWritten

LEMMA NoSizes ==
  ASSUME NEW s \in Seq(Cells), NEW a \in Cells, a.tag # "size",
         \A i \in DOMAIN s : s[i].tag # "size"
  PROVE  Append(s, a) \in Seq(Cells) /\ Settled(Append(s, a))
<1>1. /\ Append(s, a) \in Seq(Cells) /\ Len(s) \in Nat /\ DOMAIN s = 1..Len(s)
      /\ DOMAIN Append(s, a) = 1..(Len(s) + 1)
      /\ \A i \in 1..Len(s) : Append(s, a)[i] = s[i]
      /\ Append(s, a)[Len(s) + 1] = a
  BY AppendProperties, LenProperties
<1>2. \A i \in DOMAIN Append(s, a) : Append(s, a)[i].tag # "size"
  <2> SUFFICES ASSUME NEW i \in 1..(Len(s) + 1) PROVE Append(s, a)[i].tag # "size"
    BY <1>1
  <2>1. i \in 1..Len(s) \/ i = Len(s) + 1
    BY <1>1
  <2> QED BY <2>1, <1>1
<1> QED BY <1>1, <1>2 DEF Settled, IsSize

LEMMA Described ==
  ASSUME NEW v \in Values, NEW tag \in Tags \ {"size"}
  PROVE  /\ Append(Descriptor(v), Cell(tag, 0)) \in Seq(Cells)
         /\ Settled(Append(Descriptor(v), Cell(tag, 0)))
<1> DEFINE code == Cell(tag, 0)
           first == Cell("described", 0)
<1>1. code \in Cells /\ code.tag # "size"
  BY DEF Cell, Cells
<1>2. first \in Cells /\ first.tag # "size"
  BY DEF Cell, Cells, Tags
<1>3. Descriptor(v) = IF v.kind = "struct" THEN <<first>> ELSE <<>>
  BY DEF Descriptor
<1> HIDE DEF code, first
<1>4. CASE v.kind = "struct"
  <2>1. <<first>> \in Seq(Cells) /\ \A i \in DOMAIN <<first>> : <<first>>[i].tag # "size"
    BY <1>2
  <2>2. Append(<<first>>, code) \in Seq(Cells) /\ Settled(Append(<<first>>, code))
    BY <1>1, <2>1, NoSizes
  <2> QED BY <1>3, <1>4, <2>2 DEF code
<1>5. CASE v.kind # "struct"
  <2>1. <<>> \in Seq(Cells) /\ \A i \in DOMAIN <<>> : <<>>[i].tag # "size"
    OBVIOUS
  <2>2. Append(<<>>, code) \in Seq(Cells) /\ Settled(Append(<<>>, code))
    BY <1>1, <2>1, NoSizes
  <2> QED BY <1>3, <1>5, <2>2 DEF code
<1> QED BY <1>4, <1>5

LEMMA StepPeerEmptyList == CompositeInv /\ PeerEmptyList => CompositeInv'
<1> SUFFICES ASSUME CompositeInv, PeerEmptyList PROVE CompositeInv'
  OBVIOUS
<1> DEFINE more == Append(Descriptor(Part), Cell("list0", 0))
<1>1. /\ phase = "write" /\ Parts # <<>> /\ todo' = Others /\ output' = output \o more
      /\ UNCHANGED <<writer, value, type, phase, offsets, windows, decoded>>
  BY DEF PeerEmptyList, Writing
<1>2. Part \in Values
  BY <1>1, Stack DEF CompositeInv, TypeOK, Trees
<1>3. more \in Seq(Cells) /\ Settled(more)
  BY <1>2, Described DEF Tags
<1> HIDE DEF more
<1> QED BY <1>1, <1>3, PartWritten

\* The cells of a peer's array.
LEMMA ArrayCells ==
  ASSUME CompositeInv, PeerArray
  PROVE  \E more \in Seq(Cells) :
           /\ output' = output \o more /\ Settled(more)
           /\ Len(more) >= 4 /\ more[1].tag \in Arrays /\ 2 + more[2].n = Len(more)
           /\ LET n == Len(Part.items) IN
              /\ Len(more) = 4 + n
              /\ more[1] = Cell(Part.kind, 0) /\ more[2] = Cell("size", n + 2) /\ more[3] = Cell("count", n)
              /\ more[4].tag = IF Part.items = <<>> THEN "str" ELSE Part.items[1].kind
              /\ \A k \in 5..(4 + n) : more[k] = Cell("data", Part.items[k - 4].n)
<1> DEFINE parts == Part.items
           n == Len(parts)
           shared == Cell(IF parts = <<>> THEN "str" ELSE parts[1].kind, 0)
           header == <<Cell(Part.kind, 0), Cell("size", n + 2), Cell("count", n), shared>>
           data == [i \in DOMAIN parts |-> Cell("data", parts[i].n)]
           more == header \o data
<1>1. /\ phase = "write" /\ Parts # <<>> /\ Part.kind \in Arrays /\ todo' = Others
      /\ \A i \in DOMAIN parts : parts[i].kind \in {"int", "fixed", "str"}
      /\ output' = output \o header \o data
      /\ UNCHANGED <<writer, value, type, phase, offsets, windows, decoded>>
  BY DEF PeerArray, Writing
<1>2. Part \in Values /\ output \in Seq(Cells)
  BY <1>1, Stack DEF CompositeInv, TypeOK, Trees, Cells
<1>3. parts \in Seq(Values) /\ n \in Nat /\ DOMAIN parts = 1..n
  BY <1>2, ValueParts, LenProperties
<1>4. \A i \in 1..n : parts[i].n \in Nat
  BY <1>3, ElementOfSeq, ValueParts
<1>5. /\ shared \in Cells /\ shared.tag # "size"
  <2>1. CASE parts = <<>>
    BY <2>1 DEF Cell, Cells, Tags, Scalars
  <2>2. CASE parts # <<>>
    <3>1. 1 \in DOMAIN parts
      BY <2>2, <1>3, EmptySeq
    <3>2. parts[1].kind \in {"int", "fixed", "str"}
      BY <3>1, <1>1
    <3>3. shared = Cell(parts[1].kind, 0)
      BY <2>2
    <3> HIDE DEF parts, shared
    <3> QED BY <3>2, <3>3 DEF Cell, Cells, Tags, Scalars
  <2> QED BY <2>1, <2>2
<1>6. Cell(Part.kind, 0) \in Cells /\ Cell(Part.kind, 0).tag # "size"
  BY <1>1 DEF Cell, Cells, Tags, Arrays
<1>7. Cell("size", n + 2) \in Cells /\ Cell("size", n + 2).n = n + 2
  BY <1>3 DEF Cell, Cells, Tags
<1>8. Cell("count", n) \in Cells /\ Cell("count", n).tag # "size"
  BY <1>3 DEF Cell, Cells, Tags
<1>9. \A i \in 1..n : Cell("data", parts[i].n) \in Cells /\ Cell("data", parts[i].n).tag # "size"
  BY <1>4 DEF Cell, Cells, Tags
<1> HIDE DEF Cell
<1>10. header \in Seq(Cells) /\ Len(header) = 4
  BY <1>5, <1>6, <1>7, <1>8
<1>11. data \in [1..n -> Cells]
  BY <1>3, <1>9
<1>12. data \in Seq(Cells) /\ Len(data) = n
  BY <1>3, <1>11, IsASeq, LenProperties
<1>13. /\ header[1].tag # "size" /\ header[3].tag # "size" /\ header[4].tag # "size"
       /\ header[2].n = n + 2
  BY <1>5, <1>6, <1>7, <1>8
<1>14. \A i \in 1..n : data[i].tag # "size"
  BY <1>3, <1>9
<1>21. /\ header[1] = Cell(Part.kind, 0) /\ header[2] = Cell("size", n + 2) /\ header[3] = Cell("count", n)
       /\ header[4] = shared
  OBVIOUS
<1>22. \A i \in 1..n : data[i] = Cell("data", parts[i].n)
  BY <1>3
<1>23. shared.tag = IF parts = <<>> THEN "str" ELSE parts[1].kind
  BY DEF Cell
<1> HIDE DEF header, data, n, parts, shared
<1>15. /\ more \in Seq(Cells) /\ Len(more) = 4 + n /\ DOMAIN more = 1..(4 + n)
       /\ \A i \in 1..(4 + n) :
            /\ i <= 4 => more[i] = header[i]
            /\ i > 4 => more[i] = data[i - 4]
  <2>1. /\ more \in Seq(Cells) /\ Len(more) = Len(header) + Len(data)
        /\ DOMAIN more = 1..(Len(header) + Len(data))
        /\ \A i \in 1..(Len(header) + Len(data)) :
             /\ i <= Len(header) => more[i] = header[i]
             /\ i > Len(header) => more[i] = data[i - Len(header)]
    BY <1>10, <1>12, Concat
  <2> HIDE DEF more
  <2> QED BY <2>1, <1>10, <1>12
<1> HIDE DEF more
<1>16. \A i \in 1..(4 + n) : more[i].tag = "size" => i = 2
  <2> SUFFICES ASSUME NEW i \in 1..(4 + n), i # 2 PROVE more[i].tag # "size"
    OBVIOUS
  <2>1. CASE i <= 4
    <3>1. i = 1 \/ i = 3 \/ i = 4
      BY <2>1, <1>3
    <3> QED BY <2>1, <3>1, <1>13, <1>15
  <2>2. CASE i > 4
    <3>1. i - 4 \in 1..n
      BY <2>2, <1>3
    <3> QED BY <2>2, <3>1, <1>14, <1>15
  <2> QED BY <2>1, <2>2, <1>3
<1>17. more[2].n = n + 2
  BY <1>3, <1>13, <1>15
<1>18. Settled(more)
  BY <1>3, <1>15, <1>16, <1>17 DEF Settled, IsSize
<1>19. output' = output \o more
  <2>1. output \in Seq(Cells) /\ header \in Seq(Cells) /\ data \in Seq(Cells)
    BY <1>2, <1>10, <1>12
  <2>2. (output \o header) \o data = output \o (header \o data)
    BY <2>1, ConcatAssociative, SMTT(20)
  <2>3. output' = (output \o header) \o data
    BY <1>1
  <2> QED BY <2>2, <2>3 DEF more
<1>20. Len(more) >= 4 /\ more[1].tag \in Arrays /\ 2 + more[2].n = Len(more)
  <2>1. header[1].tag \in Arrays
    BY <1>1 DEF header, Cell
  <2> QED BY <1>3, <1>15, <1>17, <2>1
<1>24. /\ more[1] = Cell(Part.kind, 0) /\ more[2] = Cell("size", n + 2) /\ more[3] = Cell("count", n)
       /\ more[4].tag = IF parts = <<>> THEN "str" ELSE parts[1].kind
  <2>1. /\ 1 \in 1..(4 + n) /\ 2 \in 1..(4 + n) /\ 3 \in 1..(4 + n) /\ 4 \in 1..(4 + n)
    BY <1>3
  <2>2. more[1] = header[1] /\ more[2] = header[2] /\ more[3] = header[3] /\ more[4] = header[4]
    BY <2>1, <1>15
  <2> QED BY <2>2, <1>21, <1>23
<1>25. ASSUME NEW k \in 5..(4 + n) PROVE more[k] = Cell("data", parts[k - 4].n)
  <2>1. k \in 1..(4 + n) /\ k > 4 /\ k - 4 \in 1..n
    BY <1>3
  <2> QED BY <2>1, <1>15, <1>22
<1> QED BY <1>15, <1>18, <1>19, <1>20, <1>24, <1>25 DEF n, parts

LEMMA StepPeerArray == CompositeInv /\ PeerArray => CompositeInv'
<1> SUFFICES ASSUME CompositeInv, PeerArray PROVE CompositeInv'
  OBVIOUS
<1>1. /\ phase = "write" /\ Parts # <<>> /\ todo' = Others
      /\ UNCHANGED <<writer, value, type, phase, offsets, windows, decoded>>
  BY DEF PeerArray, Writing
<1>2. PICK more \in Seq(Cells) : output' = output \o more /\ Settled(more)
  BY ArrayCells
<1> QED BY <1>1, <1>2, PartWritten

LEMMA FormatsAreTags ==
  ASSUME NEW v \in Values, v.kind \in Composites
  PROVE  \A f \in Formats(v) : f \in Tags \ {"size"}
BY DEF Formats, Composites, Arrays, Lists, Tags

LEMMA StepWriteComposite == CompositeInv /\ WriteComposite => CompositeInv'
<1> SUFFICES ASSUME CompositeInv, WriteComposite PROVE CompositeInv'
  OBVIOUS
<1>1. /\ phase = "write" /\ Parts # <<>> /\ Part.kind \in Composites
      /\ todo' = <<Part.items>> \o Others
      /\ UNCHANGED <<writer, value, type, phase, windows, decoded>>
  BY DEF WriteComposite, Writing
<1>2. PICK format \in Formats(Part) :
        LET before == output \o Append(Descriptor(Part), Cell(format, 0)) IN
        /\ output' = before \o <<Cell("size", 0), Cell("count", Len(Part.items))>>
        /\ offsets' = Append(offsets, Len(before) + 1)
  BY DEF WriteComposite
<1> DEFINE code == Append(Descriptor(Part), Cell(format, 0))
           before == output \o code
<1>3. /\ todo \in Seq(Seq(Values)) /\ todo # <<>> /\ output \in Seq(Cells) /\ offsets \in Seq(Nat)
      /\ Nested(output, offsets)
  BY <1>1 DEF CompositeInv, TypeOK, Opened, Cells
<1>4. /\ Part \in Values
      /\ Others \in Seq(Seq(Values)) /\ Len(Others) = Len(todo)
  BY <1>1, <1>3, Stack DEF Trees
<1>5. Part.items \in Seq(Values) /\ Len(Part.items) \in Nat
  BY <1>4, ValueParts, LenProperties
<1>6. todo' \in Seq(Seq(Values)) /\ todo' # <<>> /\ Len(todo') = Len(todo) + 1
  BY <1>1, <1>4, <1>5, Pushed
<1>7. code \in Seq(Cells) /\ Settled(code)
  BY <1>1, <1>4, FormatsAreTags, Described
<1> HIDE DEF code
<1>8. Nested(before, offsets) /\ before \in Seq(Cells) /\ Len(before) >= Len(output)
  BY <1>3, <1>7, Grow, Concat
<1>9. /\ output' = before \o <<Cell("size", 0), Cell("count", Len(Part.items))>>
      /\ offsets' = Append(offsets, Len(before) + 1)
  BY <1>2 DEF code
<1> HIDE DEF before
<1>10. /\ Nested(output', offsets') /\ output' \in Seq(Cells) /\ Len(output') = Len(before) + 2
  BY <1>3, <1>5, <1>8, <1>9, OpenOne
<1>11. Len(before) \in Nat /\ Len(output) \in Nat
  BY <1>3, <1>8, LenProperties
<1>12. /\ offsets' \in Seq(Nat) /\ Len(offsets') = Len(offsets) + 1
       /\ DOMAIN offsets' = 1..(Len(offsets) + 1) /\ DOMAIN offsets = 1..Len(offsets)
       /\ \A k \in 1..Len(offsets) : offsets'[k] = offsets[k] /\ offsets[k] \in Nat
       /\ offsets'[Len(offsets) + 1] = Len(before) + 1 /\ Len(offsets) \in Nat
  <2>1. /\ Len(offsets) \in Nat /\ DOMAIN offsets = 1..Len(offsets)
        /\ \A k \in 1..Len(offsets) : offsets[k] \in Nat
    BY <1>3, LenProperties, ElementOfSeq
  <2>2. /\ offsets' \in Seq(Nat) /\ Len(offsets') = Len(offsets) + 1
        /\ \A k \in 1..Len(offsets) : offsets'[k] = offsets[k]
        /\ offsets'[Len(offsets) + 1] = Len(before) + 1
    BY <1>3, <1>9, <1>11, AppendProperties
  <2>3. DOMAIN offsets' = 1..(Len(offsets) + 1)
    BY <2>2, LenProperties
  <2> QED BY <2>1, <2>2, <2>3
<1>13. \A k \in DOMAIN offsets' : offsets'[k] < Len(output')
  <2> SUFFICES ASSUME NEW k \in 1..(Len(offsets) + 1) PROVE offsets'[k] < Len(output')
    BY <1>12
  <2>1. CASE k = Len(offsets) + 1
    BY <2>1, <1>10, <1>11, <1>12
  <2>2. CASE k # Len(offsets) + 1
    <3>1. k \in 1..Len(offsets)
      BY <2>2, <1>12
    <3>2. offsets[k] < Len(output)
      BY <3>1, <1>12 DEF CompositeInv, Opened
    <3> QED BY <3>1, <3>2, <1>8, <1>10, <1>11, <1>12
  <2> QED BY <2>1, <2>2
<1>14. TypeOK'
  BY <1>1, <1>6, <1>10, <1>12 DEF CompositeInv, TypeOK, Cells
<1>15. Opened'
  BY <1>1, <1>6, <1>10, <1>12, <1>13 DEF CompositeInv, Opened
<1>16. Windowed'
  BY <1>1 DEF CompositeInv, Windowed, WindowsNest
<1> QED BY <1>14, <1>15, <1>16 DEF CompositeInv

LEMMA StepWriteEnd == CompositeInv /\ WriteEnd => CompositeInv'
<1> SUFFICES ASSUME CompositeInv, WriteEnd PROVE CompositeInv'
  OBVIOUS
<1>1. /\ phase = "write" /\ Len(todo) > 1 /\ todo' = Tail(todo) /\ offsets' = Front(offsets)
      /\ output' = [output EXCEPT ![Last(offsets)].n = Len(output) - Last(offsets)]
      /\ UNCHANGED <<writer, value, type, phase, windows, decoded>>
  BY DEF WriteEnd, Ending
<1>2. /\ todo \in Seq(Seq(Values)) /\ todo # <<>> /\ output \in Seq(Cells) /\ offsets \in Seq(Nat)
      /\ Nested(output, offsets) /\ Len(todo) = Len(offsets) + 1
      /\ \A k \in DOMAIN offsets : offsets[k] < Len(output)
  BY <1>1 DEF CompositeInv, TypeOK, Opened, Cells
<1>3. todo' \in Seq(Seq(Values)) /\ Len(todo') = Len(todo) - 1
  BY <1>1, <1>2, HeadTailProperties
<1>4. Len(todo) \in Nat /\ Len(offsets) \in Nat /\ DOMAIN offsets = 1..Len(offsets)
  BY <1>2, LenProperties
<1>5. todo' # <<>> /\ offsets # <<>> /\ Len(offsets) \in DOMAIN offsets
  <2>1. Len(todo') > 0 /\ Len(offsets) > 0
    BY <1>1, <1>2, <1>3, <1>4
  <2>2. Len(offsets) \in DOMAIN offsets
    BY <2>1, <1>4
  <2>3. todo' # <<>>
    BY <2>1, <1>3, EmptySeq
  <2>4. offsets # <<>>
    BY <2>1, <1>2, EmptySeq
  <2> QED BY <2>2, <2>3, <2>4
<1>6. Last(offsets) < Len(output)
  BY <1>2, <1>5 DEF Last
<1>7. /\ Nested(output', offsets') /\ output' \in Seq(Cells) /\ Len(output') = Len(output)
      /\ offsets' \in Seq(Nat) /\ Len(offsets') = Len(offsets) - 1
      /\ \A k \in DOMAIN offsets' : k \in DOMAIN offsets /\ offsets'[k] = offsets[k]
  BY <1>1, <1>2, <1>5, <1>6, CloseOne
<1>8. TypeOK'
  BY <1>1, <1>3, <1>5, <1>7 DEF CompositeInv, TypeOK, Cells
<1>9. Opened'
  BY <1>1, <1>2, <1>3, <1>4, <1>7 DEF Opened
<1>10. Windowed'
  BY <1>1 DEF CompositeInv, Windowed, WindowsNest
<1> QED BY <1>8, <1>9, <1>10 DEF CompositeInv

-----------------------------------------------------------------------------
(* Reading.                                                                  *)

\* What the invariant says of a Deserializer at work.
LEMMA AtWork ==
  ASSUME CompositeInv, phase = "read"
  PROVE  /\ todo \in Seq(Seq(Types)) /\ todo # <<>>
         /\ windows \in Seq(Frames) /\ Len(windows) = Len(todo) /\ Len(windows) \in Nat
         /\ Len(windows) > 0 /\ DOMAIN windows = 1..Len(windows)
         /\ Input \in Frames /\ At \in Nat /\ Input.end \in Nat
         /\ 1 <= At /\ At <= Input.end + 1
         /\ Input.end <= Len(output) /\ output \in Seq(Cells) /\ Len(output) \in Nat
         /\ DOMAIN output = 1..Len(output)
<1>1. /\ todo \in Seq(Seq(Types)) /\ todo # <<>> /\ windows \in Seq(Frames)
      /\ Len(todo) = Len(windows) /\ output \in Seq(Cells)
  BY DEF CompositeInv, TypeOK, Windowed, Frames, Cells
<1>2. /\ Len(windows) \in Nat /\ Len(windows) > 0 /\ DOMAIN windows = 1..Len(windows)
      /\ Len(output) \in Nat /\ DOMAIN output = 1..Len(output)
  BY <1>1, LenProperties, EmptySeq
<1>3. Len(windows) \in DOMAIN windows /\ Input = windows[Len(windows)]
  BY <1>2 DEF Input, Last
<1>4. Input \in Frames
  BY <1>1, <1>2, <1>3, ElementOfSeq
<1>5. At \in Nat /\ Input.end \in Nat
  BY <1>4 DEF Frames, At
<1>6. 1 <= At /\ At <= Input.end + 1 /\ Input.end <= Len(output)
  BY <1>3 DEF CompositeInv, Windowed, WindowsNest, At
<1> QED BY <1>1, <1>2, <1>4, <1>5, <1>6

\* A cell seen is one of the input's.
LEMMA Seen ==
  ASSUME CompositeInv, phase = "read", NEW i \in Nat, At <= i
  PROVE  TagAt(i) # "nothing" =>
           /\ i <= Input.end /\ i \in DOMAIN output /\ TagAt(i) = output[i].tag
           /\ output[i] \in Cells
BY AtWork, ElementOfSeq DEF TagAt

\* The read ends where it is.
LEMMA Ended ==
  ASSUME CompositeInv, phase = "read", phase' \in Outcomes,
         UNCHANGED <<writer, value, type, todo, output, offsets, windows, decoded>>
  PROVE  CompositeInv'
<1>1. phase' # "write"
  BY DEF Outcomes
<1>2. TypeOK'
  BY <1>1 DEF CompositeInv, TypeOK
<1>3. Opened' /\ Windowed'
  BY <1>1 DEF CompositeInv, Opened, Windowed, WindowsNest
<1> QED BY <1>2, <1>3 DEF CompositeInv

\* The running Deserializer goes on inside its input.
LEMMA Advanced ==
  ASSUME CompositeInv, phase = "read", NEW n \in Nat
  PROVE  /\ Advance(n) \in Seq(Frames) /\ Len(Advance(n)) = Len(windows)
         /\ \A i \in DOMAIN windows :
              /\ Advance(n)[i].end = windows[i].end
              /\ Advance(n)[i].at = IF i = Len(windows) THEN At + n ELSE windows[i].at
<1> DEFINE m == Len(windows)
           moved == [Input EXCEPT !.at = At + n]
<1>1. /\ windows \in Seq(Frames) /\ m \in Nat /\ m > 0 /\ DOMAIN windows = 1..m
      /\ Input \in Frames /\ At \in Nat /\ Input = windows[m]
  BY AtWork DEF Input, Last
<1>2. Advance(n) = [windows EXCEPT ![m] = moved]
  BY DEF Advance, At, Input, Last
<1>3. moved \in Frames /\ moved.at = At + n /\ moved.end = Input.end
  <2>1. At + n \in Nat
    BY <1>1
  <2> QED BY <1>1, <2>1 DEF Frames
<1> HIDE DEF moved
<1>4. m \in 1..m
  BY <1>1
<1>5. Advance(n) \in Seq(Frames) /\ Len(Advance(n)) = m
  BY <1>1, <1>2, <1>3, <1>4, ExceptSeq
<1>6. \A i \in 1..m : Advance(n)[i] = IF i = m THEN moved ELSE windows[i]
  BY <1>1, <1>2
<1> QED BY <1>1, <1>3, <1>5, <1>6

\* Windows that are the same but for the place of the last of them.
LEMMA MovedOn ==
  ASSUME CompositeInv, phase = "read",
         UNCHANGED <<writer, value, type, phase, output, offsets>>,
         todo' \in Seq(Seq(Types)), todo' # <<>>, Len(todo') = Len(todo),
         decoded' \in Seq(Nat),
         NEW n \in Nat, At + n <= Input.end + 1, windows' = Advance(n)
  PROVE  CompositeInv'
<1> DEFINE m == Len(windows)
<1>1. /\ windows \in Seq(Frames) /\ m \in Nat /\ m > 0 /\ DOMAIN windows = 1..m /\ m = Len(todo)
      /\ Input = windows[m] /\ At \in Nat /\ At >= 1 /\ Input.end \in Nat
  BY AtWork DEF Input, Last
<1>2. /\ windows' \in Seq(Frames) /\ Len(windows') = m
      /\ \A i \in 1..m :
           /\ windows'[i].end = windows[i].end
           /\ windows'[i].at = IF i = m THEN At + n ELSE windows[i].at
  BY <1>1, Advanced
<1>3. DOMAIN windows' = 1..m
  BY <1>2, LenProperties
<1>4. \A i \in 1..m : windows[i] \in Frames
  BY <1>1, ElementOfSeq
<1>5. \A i \in 1..m : windows[i].at \in Nat /\ windows[i].end \in Nat
  BY <1>4 DEF Frames
<1>6. TypeOK'
  BY <1>2 DEF CompositeInv, TypeOK, Frames
<1>7. Opened'
  BY DEF CompositeInv, Opened
<1>8. /\ \A i, j \in 1..m : i < j => windows[j].end < windows[i].at
      /\ \A i \in 1..m : /\ windows[i].at <= windows[i].end + 1 /\ windows[i].end <= Len(output)
                         /\ 1 <= windows[i].at
  BY <1>1 DEF CompositeInv, Windowed, WindowsNest
<1> HIDE DEF m
<1>9. \A i, j \in 1..m : i < j => windows'[j].end < windows'[i].at
  <2> SUFFICES ASSUME NEW i \in 1..m, NEW j \in 1..m, i < j PROVE windows'[j].end < windows'[i].at
    OBVIOUS
  <2>1. i # m
    BY <1>1
  <2> QED BY <2>1, <1>2, <1>8
<1>10. \A i \in 1..m : /\ windows'[i].at <= windows'[i].end + 1 /\ windows'[i].end <= Len(output)
                       /\ 1 <= windows'[i].at
  <2> SUFFICES ASSUME NEW i \in 1..m
               PROVE  /\ windows'[i].at <= windows'[i].end + 1 /\ windows'[i].end <= Len(output)
                      /\ 1 <= windows'[i].at
    OBVIOUS
  <2>1. CASE i = m
    <3>1. windows'[i].end = Input.end /\ windows'[i].at = At + n
      BY <2>1, <1>1, <1>2
    <3>2. Input.end <= Len(output)
      BY <2>1, <1>1, <1>8
    <3> QED BY <3>1, <3>2, <1>1
  <2>2. CASE i # m
    BY <2>2, <1>2, <1>8
  <2> QED BY <2>1, <2>2
<1>11. Windowed'
  BY <1>1, <1>2, <1>3, <1>9, <1>10 DEF Windowed, WindowsNest, m
<1> QED BY <1>6, <1>7, <1>11 DEF CompositeInv

\* A part read from the next cell, and what is left to do after a part.
LEMMA PartDone ==
  ASSUME CompositeInv, phase = "read", Parts # <<>>
  PROVE  Others \in Seq(Seq(Types)) /\ Others # <<>> /\ Len(Others) = Len(todo)
BY AtWork, Stack DEF Trees

LEMMA StepTake ==
  ASSUME CompositeInv, phase = "read", Parts # <<>>, Peek # "nothing", Take,
         UNCHANGED <<writer, value, type, output, offsets>>
  PROVE  CompositeInv'
<1>1. At \in Nat /\ Input.end \in Nat
  BY AtWork
<1>2. At <= Input.end /\ output[At] \in Cells
  BY <1>1, Seen DEF Peek
<1>3. At + 1 <= Input.end + 1
  BY <1>1, <1>2
<1>4. decoded' \in Seq(Nat)
  <2>1. output[At].n \in Nat
    BY <1>2 DEF Cells
  <2> QED BY <2>1, AppendProperties DEF Take, CompositeInv, TypeOK
<1>5. todo' \in Seq(Seq(Types)) /\ todo' # <<>> /\ Len(todo') = Len(todo)
  BY PartDone DEF Take
<1> QED BY <1>3, <1>4, <1>5, MovedOn DEF Take

\* What is read of a number is decided by the next cell.
LEMMA NumberRead ==
  ASSUME ReadNumber
  PROVE  /\ Part.kind \in Numbers
         /\ Peek = "nothing" => Fail("panic")
         /\ Peek = "data" => Fail("garbled")
         /\ Peek = Part.kind => Take
         /\ Peek \notin {"nothing", "data", Part.kind} =>
              Fail(IF Part.kind = "fixed" THEN "panic" ELSE "err")
<1>1. Part.kind \in Numbers
  BY DEF ReadNumber, Reading
<1>2. Part.kind # "nothing" /\ Part.kind # "data" /\ "data" # "nothing"
  BY <1>1
<1>3. CASE Peek = "nothing"
  BY <1>1, <1>2, <1>3 DEF ReadNumber
<1>4. CASE Peek = Part.kind
  BY <1>1, <1>2, <1>4 DEF ReadNumber
<1>5. CASE Peek = "data"
  BY <1>1, <1>2, <1>5 DEF ReadNumber
<1>6. CASE Peek \notin {"nothing", "data", Part.kind}
  BY <1>1, <1>6 DEF ReadNumber
<1> QED BY <1>1, <1>3, <1>4, <1>5, <1>6

LEMMA StepReadNumber == CompositeInv /\ ReadNumber => CompositeInv'
<1> SUFFICES ASSUME CompositeInv, ReadNumber PROVE CompositeInv'
  OBVIOUS
<1>1. phase = "read" /\ Parts # <<>> /\ UNCHANGED <<writer, value, type, output, offsets>>
  BY DEF ReadNumber, Reading
<1>2. (Peek # "nothing" /\ Take) \/ Fail("panic") \/ Fail("garbled") \/ Fail("err")
  BY NumberRead
<1>3. CASE Peek # "nothing" /\ Take
  BY <1>1, <1>3, StepTake
<1>4. CASE Fail("panic") \/ Fail("garbled") \/ Fail("err")
  BY <1>1, <1>4, Ended DEF Fail, Outcomes
<1> QED BY <1>2, <1>3, <1>4

LEMMA StepReadStr == CompositeInv /\ ReadStr => CompositeInv'
<1> SUFFICES ASSUME CompositeInv, ReadStr PROVE CompositeInv'
  OBVIOUS
<1>1. phase = "read" /\ Parts # <<>> /\ UNCHANGED <<writer, value, type, output, offsets>>
  BY DEF ReadStr, Reading
<1>2. (Peek # "nothing" /\ Take) \/ Fail("panic") \/ Fail("err")
  BY DEF ReadStr
<1>3. CASE Peek # "nothing" /\ Take
  BY <1>1, <1>3, StepTake
<1>4. CASE Fail("panic") \/ Fail("err")
  BY <1>1, <1>4, Ended DEF Fail, Outcomes
<1> QED BY <1>2, <1>3, <1>4

LEMMA StepReadTuple == CompositeInv /\ ReadTuple => CompositeInv'
BY Ended DEF ReadTuple, Reading, Fail, Outcomes

LEMMA StepReturn == CompositeInv /\ Return => CompositeInv'
BY Ended DEF Return, Outcomes

LEMMA StayedPut ==
  ASSUME CompositeInv, phase = "read"
  PROVE  Advance(0) = windows
<1> DEFINE m == Len(windows)
<1>1. /\ windows \in Seq(Frames) /\ m \in Nat /\ m > 0 /\ DOMAIN windows = 1..m
      /\ Input \in Frames /\ At \in Nat /\ Input = windows[m]
  BY AtWork DEF Input, Last
<1>2. Advance(0) = [windows EXCEPT ![m] = [Input EXCEPT !.at = At + 0]]
  BY DEF Advance, At, Input, Last
<1>3. [Input EXCEPT !.at = At + 0] = Input
  BY <1>1 DEF At, Frames
<1> QED BY <1>1, <1>2, <1>3

\* The first of the stacks of parts replaced.
LEMMA PartReplaced ==
  ASSUME CompositeInv, phase = "read", NEW s \in Seq(Types)
  PROVE  /\ <<s>> \o Tail(todo) \in Seq(Seq(Types)) /\ <<s>> \o Tail(todo) # <<>>
         /\ Len(<<s>> \o Tail(todo)) = Len(todo)
BY AtWork, Replaced

LEMMA StepReadOption == CompositeInv /\ ReadOption => CompositeInv'
<1> SUFFICES ASSUME CompositeInv, ReadOption PROVE CompositeInv'
  OBVIOUS
<1>1. /\ phase = "read" /\ Parts # <<>> /\ Part.kind = "option"
      /\ UNCHANGED <<writer, value, type, output, offsets>>
  BY DEF ReadOption, Reading
<1>2. Part \in Types /\ Tail(Parts) \in Seq(Types)
  BY <1>1, AtWork, Stack DEF Trees
<1>3. decoded \in Seq(Nat) /\ Append(decoded, 0) \in Seq(Nat)
  BY AppendProperties DEF CompositeInv, TypeOK
<1>4. CASE Peek \in {"nothing", "none"}
  <2>1. /\ decoded' = Append(decoded, 0) /\ todo' = Others /\ UNCHANGED phase
        /\ windows' = IF Peek = "none" THEN Advance(1) ELSE windows
    BY <1>4 DEF ReadOption
  <2>2. todo' \in Seq(Seq(Types)) /\ todo' # <<>> /\ Len(todo') = Len(todo)
    BY <1>1, <2>1, PartDone
  <2>3. At \in Nat /\ Input.end \in Nat /\ At <= Input.end + 1
    BY <1>1, AtWork
  <2>4. CASE Peek = "none"
    <3>1. At <= Input.end
      BY <1>1, <2>3, <2>4, Seen DEF Peek
    <3> QED BY <1>1, <1>3, <2>1, <2>2, <2>3, <2>4, <3>1, MovedOn
  <2>5. CASE Peek # "none"
    <3>1. windows' = Advance(0) /\ At + 0 <= Input.end + 1
      BY <1>1, <2>1, <2>3, <2>5, StayedPut
    <3> QED BY <1>1, <1>3, <2>1, <2>2, <3>1, MovedOn
  <2> QED BY <2>4, <2>5
<1>5. CASE Peek = "data"
  <2>1. Fail("garbled")
    BY <1>5 DEF ReadOption
  <2> QED BY <1>1, <2>1, Ended DEF Fail, Outcomes
<1>6. CASE Peek \notin {"nothing", "none", "data"}
  <2>1. todo' = <<Part.items \o Tail(Parts)>> \o Tail(todo) /\ UNCHANGED <<phase, decoded, windows>>
    BY <1>6 DEF ReadOption
  <2>2. Part.items \o Tail(Parts) \in Seq(Types)
    BY <1>2, TypeParts, ConcatProperties
  <2>3. todo' \in Seq(Seq(Types)) /\ todo' # <<>> /\ Len(todo') = Len(todo)
    BY <1>1, <2>1, <2>2, PartReplaced
  <2>4. windows' = Advance(0) /\ At + 0 <= Input.end + 1
    BY <1>1, <2>1, StayedPut, AtWork
  <2> QED BY <1>1, <1>3, <2>1, <2>3, <2>4, MovedOn
<1> QED BY <1>4, <1>5, <1>6

\* A header that is not cut short is read from the input alone, and leaves a
\* window behind it.
LEMMA HeaderRead ==
  ASSUME CompositeInv, phase = "read", NEW code \in Nat, At <= code, code <= Input.end,
         ~BadHeader(code)
  PROVE  LET h == Header(code) IN
         /\ h.first \in Nat /\ h.last \in Nat /\ h.count \in Nat /\ h.constructor \in Tags
         /\ code < h.first /\ h.first <= Input.end + 1 /\ h.first <= h.last + 1
<1> DEFINE cells == HeaderCells(output[code].tag)
           h == Header(code)
<1>1. /\ Input.end \in Nat /\ Input.end <= Len(output) /\ At >= 1 /\ At \in Nat
      /\ DOMAIN output = 1..Len(output) /\ output \in Seq(Cells) /\ Len(output) \in Nat
  BY AtWork
<1>2. \A i \in 1..Len(output) : output[i].n \in Nat /\ output[i].tag \in Tags
  <2>1. \A i \in 1..Len(output) : output[i] \in Cells
    BY <1>1, ElementOfSeq
  <2> QED BY <2>1 DEF Cells
<1>3. /\ cells \in {1, 3, 4} /\ (output[code].tag # "list0" => cells \in {3, 4})
      /\ (output[code].tag = "array8" => cells = 4)
  BY DEF HeaderCells
<1>4. code + cells - 1 <= Input.end /\ h.last >= h.first - 1
  <2>1. /\ ~(code + cells - 1 > Input.end) /\ ~(h.last < h.first - 1)
    BY DEF BadHeader
  <2>2. h.first = code + cells
    BY DEF Header
  <2>3. h.last \in Int
    <3>1. CASE output[code].tag = "list0"
      BY <3>1 DEF Header
    <3>2. CASE output[code].tag # "list0"
      <4>1. h.last = code + 1 + output[code + 1].n
        BY <3>2 DEF Header
      <4>2. code + 1 \in 1..Len(output)
        BY <1>1, <1>3, <2>1, <3>2
      <4> QED BY <4>1, <4>2, <1>2
    <3> QED BY <3>1, <3>2
  <2> HIDE DEF h, cells
  <2> QED BY <1>1, <1>3, <2>1, <2>2, <2>3
<1>5. h.first = code + cells
  BY DEF Header
<1>6. CASE output[code].tag = "list0"
  <2>1. h.count = 0 /\ h.last = code /\ h.constructor = "none"
    BY <1>6 DEF Header
  <2>2. "none" \in Tags
    BY DEF Tags, Scalars
  <2> HIDE DEF h, cells
  <2> QED BY <1>1, <1>3, <1>4, <1>5, <2>1, <2>2 DEF h
<1>7. CASE output[code].tag # "list0"
  <2>1. /\ h.count = output[code + 2].n /\ h.last = code + 1 + output[code + 1].n
        /\ h.constructor = IF output[code].tag = "array8" THEN output[code + 3].tag ELSE "none"
    BY <1>7 DEF Header
  <2>2. code + 1 \in 1..Len(output) /\ code + 2 \in 1..Len(output)
    BY <1>1, <1>3, <1>4, <1>7
  <2>3. output[code].tag = "array8" => code + 3 \in 1..Len(output)
    BY <1>1, <1>3, <1>4
  <2>4. "none" \in Tags
    BY DEF Tags, Scalars
  <2>5. output[code + 1].n \in Nat /\ output[code + 2].n \in Nat
    BY <1>2, <2>2
  <2>6. h.constructor \in Tags
    BY <1>2, <2>1, <2>3, <2>4
  <2> HIDE DEF h, cells
  <2>7. cells \in {3, 4} /\ h.first \in Nat /\ code < h.first /\ h.first <= Input.end + 1
    BY <1>1, <1>3, <1>4, <1>5, <1>7
  <2>8. h.last \in Nat /\ h.count \in Nat
    BY <2>1, <2>5
  <2>9. h.first <= h.last + 1
    BY <1>4, <2>7, <2>8
  <2> QED BY <2>6, <2>7, <2>8, <2>9 DEF h
<1> QED BY <1>6, <1>7

\* A nested Deserializer for part of the input, the rest of which goes on
\* behind it.
LEMMA StepNest ==
  ASSUME CompositeInv, phase = "read", Parts # <<>>,
         UNCHANGED <<writer, value, type, output, offsets>>,
         NEW h, h.first \in Nat, h.last \in Nat, h.constructor \in Tags,
         At < h.first, h.first <= h.last + 1,
         NEW parts \in Seq(Types), Nest(h, parts)
  PROVE  CompositeInv'
<1>1. CASE h.last > Input.end
  BY <1>1, Ended DEF Nest, Fail, Outcomes
<1>2. CASE ~(h.last > Input.end)
  <2> DEFINE m == Len(windows)
             n == h.last + 1 - At
             new == [at |-> h.first, end |-> h.last, constructor |-> h.constructor]
             moved == Advance(n)
  <2>1. /\ windows' = Append(moved, new) /\ todo' = <<parts>> \o Others
        /\ UNCHANGED <<phase, decoded>>
    BY <1>2 DEF Nest
  <2>2. /\ m \in Nat /\ m > 0 /\ DOMAIN windows = 1..m /\ m = Len(todo) /\ windows \in Seq(Frames)
        /\ Input = windows[m] /\ At \in Nat /\ At >= 1 /\ Input.end \in Nat
        /\ Input.end <= Len(output) /\ Len(output) \in Nat
    BY AtWork DEF Input, Last
  <2>3. n \in Nat /\ At + n = h.last + 1
    <3>1. At \in Nat
      BY <2>2
    <3> HIDE DEF At
    <3> QED BY <3>1
  <2>4. new \in Frames /\ new.at = h.first /\ new.end = h.last
    BY DEF Frames
  <2>5. /\ moved \in Seq(Frames) /\ Len(moved) = m
        /\ \A i \in 1..m :
             /\ moved[i].end = windows[i].end
             /\ moved[i].at = IF i = m THEN h.last + 1 ELSE windows[i].at
    <3> HIDE DEF n
    <3>1. /\ moved \in Seq(Frames) /\ Len(moved) = m
          /\ \A i \in DOMAIN windows :
               /\ moved[i].end = windows[i].end
               /\ moved[i].at = IF i = m THEN At + n ELSE windows[i].at
      BY <2>3, Advanced
    <3> QED BY <2>2, <2>3, <3>1
  <2> HIDE DEF moved, new, n
  <2>6. /\ windows' \in Seq(Frames) /\ Len(windows') = m + 1 /\ DOMAIN windows' = 1..(m + 1)
        /\ \A i \in 1..m : windows'[i] = moved[i]
        /\ windows'[m + 1] = new
    <3>1. Append(moved, new) \in Seq(Frames)
      BY <2>4, <2>5, AppendProperties
    <3>2. /\ Len(Append(moved, new)) = m + 1
          /\ \A i \in 1..m : Append(moved, new)[i] = moved[i]
          /\ Append(moved, new)[m + 1] = new
      BY <2>4, <2>5, AppendProperties
    <3> QED BY <2>1, <3>1, <3>2, LenProperties
  <2>7. Others \in Seq(Seq(Types)) /\ Len(Others) = Len(todo)
    BY PartDone
  <2>8. todo' \in Seq(Seq(Types)) /\ todo' # <<>> /\ Len(todo') = Len(todo) + 1
    BY <2>1, <2>7, Pushed
  <2>9. TypeOK'
    BY <2>1, <2>6, <2>8 DEF CompositeInv, TypeOK, Frames
  <2>10. Opened'
    BY <2>1 DEF CompositeInv, Opened
  <2>11. /\ \A i, j \in 1..m : i < j => windows[j].end < windows[i].at
         /\ \A i \in 1..m : /\ windows[i].at <= windows[i].end + 1 /\ windows[i].end <= Len(output)
                            /\ 1 <= windows[i].at
    BY <2>2 DEF CompositeInv, Windowed, WindowsNest
  <2>12. \A i \in 1..m : windows[i].at \in Nat /\ windows[i].end \in Nat
    <3>1. \A i \in 1..m : windows[i] \in Frames
      BY <2>2, ElementOfSeq
    <3> QED BY <3>1 DEF Frames
  <2> HIDE DEF m
  <2>13. \A i, j \in 1..(m + 1) : i < j => windows'[j].end < windows'[i].at
    <3> SUFFICES ASSUME NEW i \in 1..(m + 1), NEW j \in 1..(m + 1), i < j
                 PROVE  windows'[j].end < windows'[i].at
      OBVIOUS
    <3>0. i \in 1..m
      BY <2>2
    <3>1. i \in 1..m /\ windows'[i].at = IF i = m THEN h.last + 1 ELSE windows[i].at
      BY <3>0, <2>5, <2>6
    <3>2. CASE j = m + 1
      <4>1. windows'[j].end = h.last
        BY <2>4, <2>6, <3>2
      <4>2. CASE i = m
        BY <3>1, <4>1, <4>2
      <4>3. CASE i # m
        <5>1. m \in 1..m /\ i < m
          BY <2>2, <3>1, <4>3
        <5>2. Input.end < windows[i].at
          BY <2>2, <2>11, <3>1, <5>1
        <5> QED BY <1>2, <2>2, <2>12, <3>1, <4>1, <4>3, <5>2
      <4> QED BY <4>2, <4>3
    <3>3. CASE j # m + 1
      <4>0. j \in 1..m /\ i # m
        BY <2>2, <3>3
      <4>1. j \in 1..m /\ i # m /\ windows'[j].end = windows[j].end
        BY <2>5, <2>6, <4>0
      <4>2. windows[j].end < windows[i].at
        BY <2>11, <3>0, <4>1
      <4> QED BY <3>1, <4>1, <4>2
    <3> QED BY <3>2, <3>3
  <2>14. \A i \in 1..(m + 1) :
           /\ windows'[i].at <= windows'[i].end + 1 /\ windows'[i].end <= Len(output)
           /\ 1 <= windows'[i].at
    <3> SUFFICES ASSUME NEW i \in 1..(m + 1)
                 PROVE  /\ windows'[i].at <= windows'[i].end + 1 /\ windows'[i].end <= Len(output)
                        /\ 1 <= windows'[i].at
      OBVIOUS
    <3>1. CASE i = m + 1
      <4>1. windows'[i].at = h.first /\ windows'[i].end = h.last
        BY <2>4, <2>6, <3>1
      <4> QED BY <1>2, <2>2, <4>1
    <3>2. CASE i = m
      <4>1. m \in 1..m
        BY <2>2
      <4>2. windows'[i].at = h.last + 1 /\ windows'[i].end = Input.end
        BY <2>2, <2>5, <2>6, <3>2, <4>1
      <4> QED BY <1>2, <2>2, <4>2
    <3>3. CASE i # m /\ i # m + 1
      <4>0. i \in 1..m
        BY <2>2, <3>3
      <4>1. i \in 1..m /\ windows'[i].at = windows[i].at /\ windows'[i].end = windows[i].end
        BY <4>0, <2>5, <2>6, <3>3
      <4> QED BY <2>11, <4>1
    <3> QED BY <3>1, <3>2, <3>3
  <2>15. Windowed'
    BY <2>1, <2>2, <2>6, <2>8, <2>13, <2>14 DEF Windowed, WindowsNest
  <2> QED BY <2>9, <2>10, <2>15 DEF CompositeInv
<1> QED BY <1>1, <1>2

\* Parts of one type, as many as were counted.
LEMMA SameType ==
  ASSUME NEW n \in Nat, NEW t \in Types, t.kind = "list"
  PROVE  [i \in 1..n |-> t.items[1]] \in Seq(Types)
<1>1. t.items[1] \in Types
  BY TypeParts
<1>2. [i \in 1..n |-> t.items[1]] \in [1..n -> Types]
  BY <1>1
<1> QED BY <1>2, IsASeq

LEMMA StepReadSequence == CompositeInv /\ ReadSequence => CompositeInv'
<1> SUFFICES ASSUME CompositeInv, ReadSequence PROVE CompositeInv'
  OBVIOUS
<1> DEFINE code == IF Peek = "described" THEN At + 1 ELSE At
           tag == TagAt(code)
           h == Header(code)
           parts == IF Part.kind = "struct" THEN Part.items ELSE [i \in 1..h.count |-> Part.items[1]]
<1>1. /\ phase = "read" /\ Parts # <<>> /\ Part.kind \in Lists
      /\ UNCHANGED <<writer, value, type, output, offsets>>
  BY DEF ReadSequence, Reading
<1>2. Part \in Types
  BY <1>1, AtWork, Stack DEF Trees
<1>3. At \in Nat /\ code \in Nat /\ At <= code /\ code <= At + 1
  BY <1>1, AtWork
<1>4. \/ tag \in Sized /\ BadHeader(code) /\ Fail("panic")
      \/ tag \in Sized /\ ~BadHeader(code) /\ Nest(h, parts)
      \/ WideArray(code)
      \/ Fail("garbled") \/ Fail("panic") \/ Fail("err")
  BY DEF ReadSequence
<1>5. CASE Fail("garbled") \/ Fail("panic") \/ Fail("err") \/ WideArray(code)
  BY <1>1, <1>5, Ended DEF WideArray, Fail, Outcomes
<1>6. CASE tag \in Sized /\ ~BadHeader(code) /\ Nest(h, parts)
  <2>1. code <= Input.end
    BY <1>1, <1>3, <1>6, Seen DEF Sized
  <2> HIDE DEF code
  <2>2. /\ h.first \in Nat /\ h.last \in Nat /\ h.count \in Nat /\ h.constructor \in Tags
        /\ code < h.first /\ h.first <= h.last + 1
    BY <1>1, <1>3, <1>6, <2>1, HeaderRead
  <2>3. parts \in Seq(Types)
    <3>1. CASE Part.kind = "struct"
      BY <1>2, <3>1, TypeParts
    <3>2. CASE Part.kind # "struct"
      BY <1>1, <1>2, <2>2, <3>2, SameType DEF Lists
    <3> QED BY <3>1, <3>2
  <2>4. At < h.first
    BY <1>3, <2>2
  <2> HIDE DEF h, parts
  <2> QED BY <1>1, <1>6, <2>2, <2>3, <2>4, StepNest
<1> QED BY <1>4, <1>5, <1>6

LEMMA StepReadMap == CompositeInv /\ ReadMap => CompositeInv'
<1> SUFFICES ASSUME CompositeInv, ReadMap PROVE CompositeInv'
  OBVIOUS
<1> DEFINE h == Header(At)
           n == 2 * (h.count \div 2)
           entries == [i \in 1..n |-> IF i % 2 = 1 THEN Key ELSE Part.items[1]]
<1>1. /\ phase = "read" /\ Parts # <<>> /\ Part.kind = "map"
      /\ UNCHANGED <<writer, value, type, output, offsets>>
  BY DEF ReadMap, Reading
<1>2. Part \in Types /\ Tail(Parts) \in Seq(Types)
  BY <1>1, AtWork, Stack DEF Trees
<1>3. At \in Nat
  BY <1>1, AtWork
<1>4. \/ /\ Peek \in Sized /\ ~BadHeader(At)
         /\ windows' = Advance(h.first - At)
         /\ todo' = <<entries \o Tail(Parts)>> \o Tail(todo)
         /\ UNCHANGED <<phase, decoded>>
      \/ WideArray(At)
      \/ Fail("garbled") \/ Fail("panic") \/ Fail("err")
  BY DEF ReadMap
<1>5. CASE Fail("garbled") \/ Fail("panic") \/ Fail("err") \/ WideArray(At)
  BY <1>1, <1>5, Ended DEF WideArray, Fail, Outcomes
<1>6. CASE /\ Peek \in Sized /\ ~BadHeader(At)
           /\ windows' = Advance(h.first - At)
           /\ todo' = <<entries \o Tail(Parts)>> \o Tail(todo)
           /\ UNCHANGED <<phase, decoded>>
  <2>1. At <= Input.end
    BY <1>1, <1>3, <1>6, Seen DEF Sized, Peek
  <2>2. h.first \in Nat /\ h.count \in Nat /\ At < h.first /\ h.first <= Input.end + 1
    BY <1>1, <1>3, <1>6, <2>1, HeaderRead
  <2> HIDE DEF h
  <2>3. n \in Nat
    BY <2>2
  <2>4. Part.items[1] \in Types /\ Key \in Types
    BY <1>1, <1>2, TypeParts, TypesAssumption
  <2>5. entries \in [1..n -> Types]
    BY <2>4
  <2>6. entries \in Seq(Types)
    BY <2>3, <2>5, IsASeq
  <2> HIDE DEF entries, n
  <2>7. entries \o Tail(Parts) \in Seq(Types)
    BY <1>2, <2>6, ConcatProperties
  <2>8. todo' \in Seq(Seq(Types)) /\ todo' # <<>> /\ Len(todo') = Len(todo)
    BY <1>1, <1>6, <2>7, PartReplaced
  <2>9. h.first - At \in Nat /\ At + (h.first - At) <= Input.end + 1
    <3>1. h.first - At \in Nat /\ At + (h.first - At) = h.first
      BY <1>3, <2>2
    <3> QED BY <2>2, <3>1
  <2>10. decoded' \in Seq(Nat)
    BY <1>6 DEF CompositeInv, TypeOK
  <2> QED BY <1>1, <1>6, <2>8, <2>9, <2>10, MovedOn
<1> QED BY <1>4, <1>5, <1>6

LEMMA StepCloseWindow == CompositeInv /\ CloseWindow => CompositeInv'
<1> SUFFICES ASSUME CompositeInv, CloseWindow PROVE CompositeInv'
  OBVIOUS
<1> DEFINE m == Len(windows)
<1>1. /\ phase = "read" /\ Len(todo) > 1 /\ todo' = Tail(todo) /\ windows' = Front(windows)
      /\ UNCHANGED <<writer, value, type, phase, output, offsets, decoded>>
  BY DEF CloseWindow, Closing
<1>2. /\ todo \in Seq(Seq(Types)) /\ todo # <<>> /\ windows \in Seq(Frames) /\ m = Len(todo)
      /\ m \in Nat /\ DOMAIN windows = 1..m
  BY <1>1, AtWork
<1>3. todo' \in Seq(Seq(Types)) /\ Len(todo') = m - 1
  BY <1>1, <1>2, HeadTailProperties
<1>4. todo' # <<>>
  <2>1. Len(todo') > 0
    BY <1>1, <1>2, <1>3
  <2> QED BY <2>1, <1>3, EmptySeq
<1>5. /\ windows' \in Seq(Frames) /\ Len(windows') = m - 1 /\ DOMAIN windows' = 1..(m - 1)
      /\ \A i \in 1..(m - 1) : windows'[i] = windows[i] /\ i \in 1..m
  <2>1. m - 1 \in Nat /\ m - 1 <= m
    BY <1>1, <1>2
  <2>2. /\ Front(windows) \in Seq(Frames) /\ Len(Front(windows)) = m - 1
        /\ \A i \in 1..(m - 1) : Front(windows)[i] = windows[i]
    BY <1>2, <2>1, SubSeqProperties DEF Front
  <2>3. \A i \in 1..(m - 1) : i \in 1..m
    BY <1>2
  <2> QED BY <1>1, <2>2, <2>3, LenProperties
<1>6. TypeOK'
  BY <1>1, <1>3, <1>4, <1>5 DEF CompositeInv, TypeOK, Frames
<1>7. Opened'
  BY <1>1 DEF CompositeInv, Opened
<1>8. Windowed'
  BY <1>1, <1>2, <1>3, <1>5 DEF CompositeInv, Windowed, WindowsNest
<1> QED BY <1>6, <1>7, <1>8 DEF CompositeInv

LEMMA StepStartRead == CompositeInv /\ StartRead => CompositeInv'
<1> SUFFICES ASSUME CompositeInv, StartRead PROVE CompositeInv'
  OBVIOUS
<1>1. /\ phase = "write" /\ todo = <<<<>>>> /\ phase' = "read" /\ todo' = <<<<type'>>>>
      /\ UNCHANGED <<writer, value, output, offsets, decoded>>
  BY DEF StartRead
<1>2. PICK cut \in Cuts :
        /\ cut <= Len(output)
        /\ windows' = <<[at |-> 1, end |-> Len(output) - cut, constructor |-> "none"]>>
  BY DEF StartRead
<1>3. type' \in Types
  <2>1. PICK c \in Cases : type' \in c[3]
    BY DEF StartRead
  <2>2. c \in Values \X {"own", "peer"} \X SUBSET Types
    BY CasesAssumption
  <2> QED BY <2>1, <2>2
<1>4. todo' \in Seq(Seq(Types)) /\ todo' # <<>> /\ Len(todo') = 1
  BY <1>1, <1>3
<1> DEFINE end == Len(output) - cut
           whole == [at |-> 1, end |-> end, constructor |-> "none"]
<1>5. Len(output) \in Nat /\ end \in Nat /\ end <= Len(output)
  BY <1>2, CutsAssumption, LenProperties DEF CompositeInv, TypeOK
<1>6. whole \in Frames /\ whole.at = 1 /\ whole.end = end
  BY <1>5 DEF Frames, Tags, Scalars
<1> HIDE DEF whole
<1>7. windows' = <<whole>>
  BY <1>2 DEF whole
<1>8. /\ windows' \in Seq(Frames) /\ Len(windows') = 1 /\ DOMAIN windows' = {1}
      /\ windows'[1] = whole
  BY <1>6, <1>7
<1>9. TypeOK'
  BY <1>1, <1>3, <1>4, <1>8 DEF CompositeInv, TypeOK, Frames
<1>10. Opened'
  BY <1>1 DEF CompositeInv, Opened
<1> HIDE DEF end
<1>11. Windowed'
  BY <1>1, <1>4, <1>5, <1>6, <1>8 DEF Windowed, WindowsNest
<1> QED BY <1>9, <1>10, <1>11 DEF CompositeInv

LEMMA StepStutter == CompositeInv /\ (Done \/ UNCHANGED vars) => CompositeInv'
<1> SUFFICES ASSUME CompositeInv, UNCHANGED vars PROVE CompositeInv'
  BY DEF Done
<1>1. UNCHANGED <<writer, value, type, phase, todo, output, offsets, windows, decoded>>
  BY DEF vars
<1>2. TypeOK'
  BY <1>1 DEF CompositeInv, TypeOK
<1>3. Opened'
  BY <1>1 DEF CompositeInv, Opened
<1>4. Windowed'
  BY <1>1 DEF CompositeInv, Windowed, WindowsNest
<1> QED BY <1>2, <1>3, <1>4 DEF CompositeInv

LEMMA InvStep == CompositeInv /\ [Next]_vars => CompositeInv'
<1> SUFFICES ASSUME CompositeInv, [Next]_vars PROVE CompositeInv'
  OBVIOUS
<1>1. CASE WriteScalar \/ WriteComposite \/ WriteEnd
  BY <1>1, StepWriteScalar, StepWriteComposite, StepWriteEnd
<1>2. CASE PeerEmptyList \/ PeerArray
  BY <1>2, StepPeerEmptyList, StepPeerArray
<1>3. CASE StartRead
  BY <1>3, StepStartRead
<1>4. CASE ReadNumber \/ ReadStr \/ ReadTuple \/ ReadOption
  BY <1>4, StepReadNumber, StepReadStr, StepReadTuple, StepReadOption
<1>5. CASE ReadSequence \/ ReadMap \/ CloseWindow \/ Return
  BY <1>5, StepReadSequence, StepReadMap, StepCloseWindow, StepReturn
<1>6. CASE Done \/ UNCHANGED vars
  BY <1>6, StepStutter
<1> QED BY <1>1, <1>2, <1>3, <1>4, <1>5, <1>6 DEF Next

\* Both at once, and what they rest on: there is a nested Deserializer for each
\* level of the recursion, and an offset for each composite being written.
THEOREM CompositeInvariant == Spec => []CompositeInv
BY InvInit, InvStep, PTL DEF Spec

\* Whatever is written, and by whom: every part of a composite, however deep,
\* gets its own size from SerializeStruct::end and its siblings, and the sizes
\* delimit parts that lie in one another or apart.
THEOREM Sizes == Spec => []SizesNest
<1>1. CompositeInv => SizesNest
  BY NestedMeans DEF CompositeInv, TypeOK, Opened, Cells
<1> QED BY <1>1, CompositeInvariant, PTL

\* Whatever type the bytes are read as, and however many of them came, the
\* nested Deserializers of de.rs stay inside their windows, and each goes on
\* behind the one it made.
THEOREM Windows == Spec => []WindowsNest
<1>1. CompositeInv => WindowsNest
  BY DEF CompositeInv, Windowed
<1> QED BY <1>1, CompositeInvariant, PTL

-----------------------------------------------------------------------------
(* A value is consumed whole: what is written is one value, whose size, if    *)
(* it has one, ends where the output does; and the outermost Deserializer     *)
(* reads it in one step.                                                      *)

Code(out) == IF out[1].tag = "described" THEN 2 ELSE 1
Measured == {"list8", "list32", "map8", "map32", "array8", "array32"}

\* Its outermost composite is being written, after which nothing follows.
Begun(out, offs, stack) ==
  /\ Len(out) >= Code(out) + 2 /\ out[Code(out)].tag \in Measured
  /\ offs[1] = Code(out) + 1
  /\ stack[Len(stack)] = <<>>

Complete(out) ==
  /\ Len(out) >= Code(out)
  /\ out[Code(out)].tag \in Scalars \cup {"list0"} => Len(out) = Code(out)
  /\ out[Code(out)].tag \in Measured => Code(out) + 1 + out[Code(out) + 1].n = Len(out)

WholeInv ==
  /\ phase = "write" =>
       \/ todo = <<<<value>>>> /\ output = <<>> /\ offsets = <<>>
       \/ Len(todo) > 1 /\ Begun(output, offsets, todo)
       \/ todo = <<<<>>>> /\ Complete(output)
  /\ phase # "write" => Complete(output) /\ type.kind \in {"int", "fixed", "str"} \cup Lists
  /\ phase = "read" =>
       \/ todo = <<<<type>>>> /\ Len(windows) = 1 /\ At = 1 /\ Input.constructor = "none"
       \/ todo[Len(todo)] = <<>> /\ windows[1].at = Len(output) + 1
  /\ phase = "ok" => Len(windows) = 1 /\ windows[1].at = Len(output) + 1

\* The outermost parts stay as they are while inner ones are worked on.
LEMMA Outermost ==
  ASSUME NEW S, NEW stack \in Seq(Seq(S)), Len(stack) > 1, NEW s \in Seq(S), NEW t \in Seq(S)
  PROVE  LET one == <<s>> \o Tail(stack)
             two == <<t>> \o one
             less == Tail(stack) IN
         /\ Len(one) = Len(stack) /\ one[Len(one)] = stack[Len(stack)]
         /\ Len(two) = Len(stack) + 1 /\ two[Len(two)] = stack[Len(stack)]
         /\ Len(less) = Len(stack) - 1 /\ less[Len(less)] = stack[Len(stack)]
<1> DEFINE n == Len(stack)
           less == Tail(stack)
           one == <<s>> \o less
           two == <<t>> \o one
<1>1. n \in Nat /\ stack # <<>>
  BY LenProperties, EmptySeq
<1>2. /\ less \in Seq(Seq(S)) /\ Len(less) = n - 1
      /\ \A i \in 1..(n - 1) : less[i] = stack[i + 1]
  BY <1>1, HeadTailProperties
<1>3. less[n - 1] = stack[n]
  BY <1>1, <1>2
<1> HIDE DEF n, less
<1>4. <<s>> \in Seq(Seq(S)) /\ Len(<<s>>) = 1 /\ <<t>> \in Seq(Seq(S)) /\ Len(<<t>>) = 1
  OBVIOUS
<1>5. /\ one \in Seq(Seq(S)) /\ Len(one) = 1 + (n - 1)
      /\ \A i \in 1..(1 + (n - 1)) : one[i] = IF i <= 1 THEN <<s>>[i] ELSE less[i - 1]
  BY <1>2, <1>4, ConcatProperties
<1>6. one[n] = stack[n] /\ Len(one) = n
  <2>1. n \in 1..(1 + (n - 1)) /\ ~(n <= 1)
    BY <1>1 DEF n
  <2> QED BY <1>1, <1>3, <1>5, <2>1
<1> HIDE DEF one
<1>7. /\ Len(two) = 1 + n
      /\ \A i \in 1..(1 + n) : two[i] = IF i <= 1 THEN <<t>>[i] ELSE one[i - 1]
  <2>1. one \in Seq(Seq(S)) /\ <<t>> \in Seq(Seq(S)) /\ Len(one) = n /\ Len(<<t>>) = 1
    BY <1>4, <1>5, <1>6
  <2>2. /\ Len(<<t>> \o one) = Len(<<t>>) + Len(one)
        /\ \A i \in 1..(Len(<<t>>) + Len(one)) :
             (<<t>> \o one)[i] = IF i <= Len(<<t>>) THEN <<t>>[i] ELSE one[i - Len(<<t>>)]
    BY <2>1, ConcatProperties
  <2> QED BY <2>1, <2>2
<1>8. two[n + 1] = stack[n]
  <2>1. n + 1 \in 1..(1 + n) /\ ~(n + 1 <= 1) /\ (n + 1) - 1 = n
    BY <1>1 DEF n
  <2> QED BY <1>6, <1>7, <2>1
<1> QED BY <1>1, <1>2, <1>3, <1>6, <1>7, <1>8 DEF n, one, less

LEMMA BegunGrows ==
  ASSUME NEW out \in Seq(Cells), NEW more \in Seq(Cells), NEW offs, NEW stack,
         NEW offs2, NEW stack2, offs2[1] = offs[1], stack2[Len(stack2)] = stack[Len(stack)],
         Begun(out, offs, stack)
  PROVE  Begun(out \o more, offs2, stack2)
<1> DEFINE grown == out \o more
<1>1. /\ Len(grown) = Len(out) + Len(more) /\ Len(out) \in Nat /\ Len(more) \in Nat
      /\ \A i \in 1..(Len(out) + Len(more)) : i <= Len(out) => grown[i] = out[i]
  BY Concat
<1>2. Code(out) \in {1, 2} /\ Len(out) >= Code(out) + 2
  BY DEF Begun, Code
<1> HIDE DEF grown
<1>3. grown[1] = out[1] /\ grown[Code(out)] = out[Code(out)]
  BY <1>1, <1>2
<1>4. Code(grown) = Code(out)
  BY <1>3 DEF Code
<1> QED BY <1>1, <1>2, <1>3, <1>4 DEF Begun, grown

LEMMA WholeInit == Init => WholeInv
BY DEF Init, WholeInv

\* What is written next is the value, or a part of it.
LEMMA WholePart ==
  ASSUME CompositeInv, WholeInv, phase = "write", Parts # <<>>,
         NEW more \in Seq(Cells), output' = output \o more, todo' = Others,
         output = <<>> => Complete(more),
         UNCHANGED <<writer, value, type, phase, offsets, windows, decoded>>
  PROVE  WholeInv'
<1>1. /\ todo \in Seq(Seq(Values)) /\ todo # <<>> /\ output \in Seq(Cells)
  BY DEF CompositeInv, TypeOK, Cells
<1>2. Parts \in Seq(Values) /\ Tail(Parts) \in Seq(Values)
  BY <1>1, Stack DEF Trees
<1>3. CASE todo = <<<<value>>>> /\ output = <<>>
  <2>1. todo' = <<<<>>>>
    BY <1>3 DEF Others, Parts
  <2>2. output' = more
    BY <1>3, ConcatEmptySeq
  <2> QED BY <1>3, <2>1, <2>2 DEF WholeInv
<1>4. CASE Len(todo) > 1 /\ Begun(output, offsets, todo)
  <2>1. Len(todo') = Len(todo) /\ todo'[Len(todo')] = todo[Len(todo)]
    BY <1>1, <1>2, <1>4, Outermost DEF Others
  <2>2. Begun(output', offsets', todo')
    BY <1>1, <1>4, <2>1, BegunGrows
  <2> QED BY <1>4, <2>1, <2>2 DEF WholeInv
<1>5. todo # <<<<>>>>
  BY DEF Parts
<1> QED BY <1>3, <1>4, <1>5 DEF WholeInv

LEMMA WholeWriteScalar == CompositeInv /\ WholeInv /\ WriteScalar => WholeInv'
<1> SUFFICES ASSUME CompositeInv, WholeInv, WriteScalar PROVE WholeInv'
  OBVIOUS
<1> DEFINE cell == Cell(Part.kind, Part.n)
<1>1. /\ phase = "write" /\ Parts # <<>> /\ Part.kind \in Scalars /\ todo' = Others
      /\ output' = Append(output, cell)
      /\ UNCHANGED <<writer, value, type, phase, offsets, windows, decoded>>
  BY DEF WriteScalar, Writing
<1>2. output \in Seq(Cells) /\ Part \in Values
  BY <1>1, Stack DEF CompositeInv, TypeOK, Trees, Cells
<1>3. cell \in Cells /\ cell.tag \in Scalars
  BY <1>1, <1>2, ValueParts DEF Cell, Cells, Tags
<1> HIDE DEF cell
<1>4. <<cell>> \in Seq(Cells) /\ output' = output \o <<cell>>
  BY <1>1, <1>2, <1>3, AppendIsConcat
<1>5. Code(<<cell>>) = 1
  BY <1>3 DEF Code, Scalars
<1>6. Complete(<<cell>>)
  BY <1>3, <1>5 DEF Complete, Scalars, Measured
<1> QED BY <1>1, <1>4, <1>6, WholePart

\* A descriptor if there is one, and a format code.
LEMMA Leads ==
  ASSUME NEW v \in Values, NEW tag \in Tags \ {"described"}
  PROVE  LET out == Append(Descriptor(v), Cell(tag, 0)) IN
         /\ Len(out) \in {1, 2} /\ Code(out) = Len(out) /\ out[Code(out)].tag = tag
<1> DEFINE code == Cell(tag, 0)
           first == Cell("described", 0)
<1>1. code \in Cells /\ code.tag = tag
  BY DEF Cell, Cells, Tags
<1>2. first \in Cells /\ first.tag = "described"
  BY DEF Cell, Cells, Tags
<1>3. Descriptor(v) = IF v.kind = "struct" THEN <<first>> ELSE <<>>
  BY DEF Descriptor
<1> HIDE DEF code, first
<1>4. CASE v.kind = "struct"
  <2> DEFINE out == Append(<<first>>, code)
  <2>1. <<first>> \in Seq(Cells) /\ Len(<<first>>) = 1
    BY <1>2
  <2>2. Len(out) = 2 /\ out[1] = first /\ out[2] = code
    BY <1>1, <2>1, AppendProperties
  <2> HIDE DEF out
  <2>3. Code(out) = 2
    BY <1>2, <2>2 DEF Code
  <2> QED BY <1>1, <1>3, <1>4, <2>2, <2>3 DEF out, code
<1>5. CASE v.kind # "struct"
  <2> DEFINE out == Append(<<>>, code)
  <2>1. Len(out) = 1 /\ out[1] = code
    BY <1>1
  <2> HIDE DEF out
  <2>2. Code(out) = 1
    BY <1>1, <2>1 DEF Code
  <2> QED BY <1>1, <1>3, <1>5, <2>1, <2>2 DEF out, code
<1> QED BY <1>4, <1>5

LEMMA WholePeerEmptyList == CompositeInv /\ WholeInv /\ PeerEmptyList => WholeInv'
<1> SUFFICES ASSUME CompositeInv, WholeInv, PeerEmptyList PROVE WholeInv'
  OBVIOUS
<1> DEFINE more == Append(Descriptor(Part), Cell("list0", 0))
<1>1. /\ phase = "write" /\ Parts # <<>> /\ todo' = Others /\ output' = output \o more
      /\ UNCHANGED <<writer, value, type, phase, offsets, windows, decoded>>
  BY DEF PeerEmptyList, Writing
<1>2. Part \in Values
  BY <1>1, Stack DEF CompositeInv, TypeOK, Trees
<1>3. more \in Seq(Cells)
  BY <1>2, Described DEF Tags
<1>4. Len(more) \in {1, 2} /\ Code(more) = Len(more) /\ more[Code(more)].tag = "list0"
  BY <1>2, Leads DEF Tags
<1> HIDE DEF more
<1>5. Complete(more)
  BY <1>4 DEF Complete, Measured
<1> QED BY <1>1, <1>3, <1>5, WholePart

LEMMA WholePeerArray == CompositeInv /\ WholeInv /\ PeerArray => WholeInv'
<1> SUFFICES ASSUME CompositeInv, WholeInv, PeerArray PROVE WholeInv'
  OBVIOUS
<1>1. /\ phase = "write" /\ Parts # <<>> /\ todo' = Others
      /\ UNCHANGED <<writer, value, type, phase, offsets, windows, decoded>>
  BY DEF PeerArray, Writing
<1>2. PICK more \in Seq(Cells) :
        /\ output' = output \o more
        /\ Len(more) >= 4 /\ more[1].tag \in Arrays /\ 2 + more[2].n = Len(more)
  BY ArrayCells
<1>3. Code(more) = 1
  BY <1>2 DEF Code, Arrays
<1>4. Complete(more)
  BY <1>2, <1>3 DEF Complete, Arrays, Scalars
<1> QED BY <1>1, <1>2, <1>4, WholePart

LEMMA OnNothing ==
  ASSUME NEW S, NEW s \in Seq(S)
  PROVE  Len(<<s>> \o <<<<>>>>) = 2 /\ (<<s>> \o <<<<>>>>)[2] = <<>>
<1> DEFINE top == <<s>>
           rest == <<<<>>>>
<1>1. top \in Seq(Seq(S)) /\ Len(top) = 1
  OBVIOUS
<1>2. rest \in Seq(Seq(S)) /\ Len(rest) = 1 /\ rest[1] = <<>>
  OBVIOUS
<1> HIDE DEF top, rest
<1>3. /\ Len(top \o rest) = Len(top) + Len(rest)
      /\ \A i \in 1..(Len(top) + Len(rest)) :
           (top \o rest)[i] = IF i <= Len(top) THEN top[i] ELSE rest[i - Len(top)]
  BY <1>1, <1>2, ConcatProperties
<1>4. Len(top \o rest) = 2 /\ (top \o rest)[2] = rest[1]
  BY <1>1, <1>2, <1>3
<1> QED BY <1>2, <1>4 DEF top, rest

LEMMA WholeWriteComposite == CompositeInv /\ WholeInv /\ WriteComposite => WholeInv'
<1> SUFFICES ASSUME CompositeInv, WholeInv, WriteComposite PROVE WholeInv'
  OBVIOUS
<1>1. /\ phase = "write" /\ Parts # <<>> /\ Part.kind \in Composites
      /\ todo' = <<Part.items>> \o Others
      /\ UNCHANGED <<writer, value, type, phase, windows, decoded>>
  BY DEF WriteComposite, Writing
<1>2. PICK format \in Formats(Part) :
        LET before == output \o Append(Descriptor(Part), Cell(format, 0)) IN
        /\ output' = before \o <<Cell("size", 0), Cell("count", Len(Part.items))>>
        /\ offsets' = Append(offsets, Len(before) + 1)
  BY DEF WriteComposite
<1> DEFINE code == Append(Descriptor(Part), Cell(format, 0))
           before == output \o code
           more == <<Cell("size", 0), Cell("count", Len(Part.items))>>
<1>3. /\ todo \in Seq(Seq(Values)) /\ todo # <<>> /\ output \in Seq(Cells) /\ offsets \in Seq(Nat)
      /\ Len(todo) = Len(offsets) + 1 /\ Len(offsets) \in Nat
  BY <1>1, LenProperties DEF CompositeInv, TypeOK, Opened, Cells
<1>4. /\ Parts \in Seq(Values) /\ Part \in Values /\ Tail(Parts) \in Seq(Values)
      /\ Others \in Seq(Seq(Values)) /\ Len(Others) = Len(todo)
  BY <1>1, <1>3, Stack DEF Trees
<1>5. Part.items \in Seq(Values) /\ Len(Part.items) \in Nat
  BY <1>4, ValueParts, LenProperties
<1>6. format \in Measured /\ format \in Tags \ {"described"} /\ format \in Tags \ {"size"}
  BY <1>1, <1>2 DEF Formats, Measured, Composites, Arrays, Lists, Tags
<1>7. code \in Seq(Cells)
  BY <1>4, <1>6, Described
<1>8. Len(code) \in {1, 2} /\ Code(code) = Len(code) /\ code[Code(code)].tag = format
  BY <1>4, <1>6, Leads
<1>9. more \in Seq(Cells) /\ Len(more) = 2
  BY <1>5 DEF Cell, Cells, Tags
<1>10. /\ output' = before \o more /\ offsets' = Append(offsets, Len(before) + 1)
  BY <1>2
<1> HIDE DEF code, more
<1>11. CASE todo = <<<<value>>>> /\ output = <<>> /\ offsets = <<>>
  <2>1. Others = <<<<>>>>
    BY <1>11 DEF Others, Parts
  <2>2. Len(todo') = 2 /\ todo'[Len(todo')] = <<>>
    <3>1. todo' = <<Part.items>> \o <<<<>>>>
      BY <1>1, <2>1
    <3> QED BY <1>5, <3>1, OnNothing
  <2>3. before = code
    BY <1>7, <1>11, ConcatEmptySeq
  <2>4. /\ Len(output') = Len(code) + 2
        /\ \A i \in 1..(Len(code) + 2) : i <= Len(code) => output'[i] = code[i]
    <3>1. output' = code \o more
      BY <1>10, <2>3
    <3>2. /\ Len(code \o more) = Len(code) + Len(more)
          /\ \A i \in 1..(Len(code) + Len(more)) : i <= Len(code) => (code \o more)[i] = code[i]
      BY <1>7, <1>9, Concat
    <3> QED BY <1>9, <3>1, <3>2
  <2>5. offsets'[1] = Len(code) + 1
    BY <1>10, <1>11, <2>3
  <2>6. output'[1] = code[1] /\ output'[Len(code)] = code[Len(code)]
    BY <1>8, <2>4
  <2>7. Code(output') = Len(code)
    BY <1>8, <2>6 DEF Code
  <2>8. Begun(output', offsets', todo')
    BY <1>6, <1>8, <2>2, <2>4, <2>5, <2>6, <2>7 DEF Begun
  <2> QED BY <1>1, <2>2, <2>8 DEF WholeInv
<1>12. CASE Len(todo) > 1 /\ Begun(output, offsets, todo)
  <2>1. Len(todo') = Len(todo) + 1 /\ todo'[Len(todo')] = todo[Len(todo)]
    <3>1. todo' = <<Part.items>> \o (<<Tail(Parts)>> \o Tail(todo))
      BY <1>1 DEF Others
    <3> DEFINE two == <<Part.items>> \o (<<Tail(Parts)>> \o Tail(todo))
    <3>2. Len(two) = Len(todo) + 1 /\ two[Len(two)] = todo[Len(todo)]
      <4>1. todo \in Seq(Seq(Values)) /\ Len(todo) > 1
        BY <1>3, <1>12
      <4>2. Tail(Parts) \in Seq(Values) /\ Part.items \in Seq(Values)
        BY <1>4, <1>5
      <4> QED BY <4>1, <4>2, Outermost
    <3> HIDE DEF two
    <3>3. todo' = two
      BY <3>1 DEF two
    <3> QED BY <3>2, <3>3
  <2>2. offsets'[1] = offsets[1]
    <3>1. Len(before) \in Nat
      BY <1>3, <1>7, Concat
    <3>2. 1 \in 1..Len(offsets)
      BY <1>3, <1>12
    <3> QED BY <1>3, <1>10, <3>1, <3>2, AppendProperties
  <2>3. output' = output \o (code \o more) /\ code \o more \in Seq(Cells)
    <3>1. (output \o code) \o more = output \o (code \o more)
      <4>1. output \in Seq(Cells)
        BY <1>3
      <4>2. more \in Seq(Cells)
        BY <1>9
      <4> QED BY <1>7, <4>1, <4>2, ConcatAssociative
    <3>2. code \o more \in Seq(Cells)
      BY <1>7, <1>9, ConcatProperties
    <3> QED BY <1>10, <3>1, <3>2
  <2>4. Begun(output', offsets', todo')
    BY <1>3, <1>12, <2>1, <2>2, <2>3, BegunGrows
  <2>5. Len(todo') > 1
    BY <1>3, <1>12, <2>1
  <2> QED BY <1>1, <2>4, <2>5 DEF WholeInv
<1>13. todo # <<<<>>>>
  BY <1>1 DEF Parts
<1> QED BY <1>1, <1>11, <1>12, <1>13 DEF WholeInv

LEMMA WholeWriteEnd == CompositeInv /\ WholeInv /\ WriteEnd => WholeInv'
<1> SUFFICES ASSUME CompositeInv, WholeInv, WriteEnd PROVE WholeInv'
  OBVIOUS
<1> DEFINE o == Last(offsets)
           m == Len(offsets)
<1>1. /\ phase = "write" /\ Len(todo) > 1 /\ todo' = Tail(todo) /\ offsets' = Front(offsets)
      /\ output' = [output EXCEPT ![o].n = Len(output) - o]
      /\ UNCHANGED <<writer, value, type, phase, windows, decoded>>
  BY DEF WriteEnd, Ending
<1>2. /\ todo \in Seq(Seq(Values)) /\ todo # <<>> /\ output \in Seq(Cells) /\ offsets \in Seq(Nat)
      /\ Len(todo) = m + 1 /\ m \in Nat /\ DOMAIN offsets = 1..m
      /\ Len(output) \in Nat /\ DOMAIN output = 1..Len(output)
      /\ \A k \in 1..m : offsets[k] \in 1..Len(output)
      /\ \A i, j \in 1..m : i < j => offsets[i] < offsets[j]
  BY <1>1, LenProperties DEF CompositeInv, TypeOK, Opened, Cells, Nested, OffsetsOpen, Increasing
<1>3. Begun(output, offsets, todo)
  BY <1>1 DEF WholeInv
<1>4. /\ Len(todo') = m /\ todo'[Len(todo')] = <<>>
  BY <1>1, <1>2, <1>3, Outermost DEF Begun
<1>5. Code(output) \in {1, 2} /\ offsets[1] = Code(output) + 1 /\ Len(output) >= Code(output) + 2
  BY <1>3 DEF Code, Begun
<1>6. m \in 1..m /\ 1 \in 1..m /\ o = offsets[m] /\ o \in 1..Len(output) /\ o >= offsets[1]
  <2>1. m \in 1..m /\ 1 \in 1..m
    BY <1>1, <1>2
  <2>2. o = offsets[m]
    BY DEF Last
  <2>3. m = 1 \/ 1 < m
    BY <2>1
  <2> QED BY <1>2, <2>1, <2>2, <2>3
<1>7. /\ Len(output') = Len(output)
      /\ \A i \in 1..Len(output) : i # o => output'[i] = output[i]
      /\ output'[o] = [output[o] EXCEPT !.n = Len(output) - o]
      /\ output[o] \in Cells
  <2>1. DOMAIN output' = 1..Len(output)
    BY <1>1, <1>2
  <2>2. output' \in Seq(Cells)
    BY <1>1, StepWriteEnd DEF CompositeInv, TypeOK, Cells
  <2>3. Len(output') = Len(output)
    BY <1>2, <2>1, <2>2, LenProperties
  <2> QED BY <1>1, <1>2, <1>6, <2>3, ElementOfSeq
<1>8. Code(output') = Code(output) /\ output'[Code(output)] = output[Code(output)]
  <2>1. Code(output) \in {1, 2} /\ o \in Int /\ o >= Code(output) + 1
    BY <1>5, <1>6
  <2>2. Len(output) \in Nat /\ Len(output) >= Code(output) + 2
    BY <1>2, <1>5
  <2> HIDE DEF o
  <2>3. 1 \in 1..Len(output) /\ 1 # o /\ Code(output) \in 1..Len(output) /\ Code(output) # o
    BY <2>1, <2>2
  <2> QED BY <1>7, <2>3 DEF Code
<1>9. CASE m = 1
  <2>1. todo' \in Seq(Seq(Values)) /\ Len(todo') = 1 /\ todo'[1] = <<>>
    BY <1>1, <1>2, <1>4, <1>9, HeadTailProperties
  <2>2. todo' = <<<<>>>>
    BY <2>1, SeqEqual
  <2>3. o = Code(output) + 1
    BY <1>5, <1>6, <1>9
  <2>4. output'[o].n = Len(output) - o
    BY <1>7 DEF Cells
  <2>5. output[Code(output)].tag \in Measured
    BY <1>3 DEF Begun
  <2>6. /\ Code(output') \in {1, 2} /\ Len(output') >= Code(output')
        /\ output'[Code(output')].tag \in Measured
    BY <1>2, <1>5, <1>7, <1>8, <2>5
  <2>7. Code(output') + 1 + output'[Code(output') + 1].n = Len(output')
    <3>1. Code(output') + 1 = o
      BY <1>8, <2>3
    <3>2. o + (Len(output) - o) = Len(output)
      BY <1>2, <1>6
    <3> QED BY <1>7, <2>4, <3>1, <3>2
  <2>8. output'[Code(output')].tag \notin Scalars \cup {"list0"}
    BY <2>6 DEF Measured, Scalars
  <2>9. Complete(output')
    BY <2>6, <2>7, <2>8 DEF Complete
  <2> QED BY <1>1, <2>2, <2>9 DEF WholeInv
<1>10. CASE m # 1
  <2>1. m > 1 /\ Len(todo') > 1
    BY <1>4, <1>6, <1>10
  <2>2. offsets'[1] = offsets[1]
    <3>1. m - 1 \in Nat /\ m - 1 <= m /\ 1 \in 1..(m - 1)
      BY <1>2, <2>1
    <3> QED BY <1>1, <1>2, <3>1, SubSeqProperties DEF Front
  <2>3. Begun(output', offsets', todo')
    BY <1>3, <1>4, <1>7, <1>8, <2>2 DEF Begun
  <2> QED BY <1>1, <2>1, <2>3 DEF WholeInv
<1> QED BY <1>9, <1>10

LEMMA WholeStartRead == CompositeInv /\ WholeInv /\ StartRead => WholeInv'
<1> SUFFICES ASSUME CompositeInv, WholeInv, StartRead PROVE WholeInv'
  OBVIOUS
<1>1. /\ phase = "write" /\ todo = <<<<>>>> /\ phase' = "read" /\ todo' = <<<<type'>>>>
      /\ UNCHANGED <<writer, value, output, offsets, decoded>>
  BY DEF StartRead
<1>2. PICK cut \in Cuts :
        windows' = <<[at |-> 1, end |-> Len(output) - cut, constructor |-> "none"]>>
  BY DEF StartRead
<1>3. type'.kind \in {"int", "fixed", "str"} \cup Lists
  BY TopLevelAssumption DEF StartRead
<1>4. Complete(output')
  BY <1>1 DEF WholeInv
<1>5. Len(windows') = 1 /\ At' = 1 /\ Input'.constructor = "none"
  BY <1>2 DEF At, Input, Last
<1> QED BY <1>1, <1>3, <1>4, <1>5 DEF WholeInv

LEMMA WholeEnded ==
  ASSUME WholeInv, phase = "read", phase' \in {"err", "panic", "garbled"},
         UNCHANGED <<type, output>>
  PROVE  WholeInv'
BY DEF WholeInv

\* A step of a nested Deserializer, or of the outermost one when it has read
\* its value, leaves the outermost where it is.
LEMMA WholeInside ==
  ASSUME WholeInv, phase = "read", phase' = "read", UNCHANGED <<type, output>>,
         todo[Len(todo)] = <<>>, windows[1].at = Len(output) + 1,
         todo'[Len(todo')] = todo[Len(todo)], windows'[1].at = windows[1].at
  PROVE  WholeInv'
BY DEF WholeInv

\* When there is a part to read, it is the value or one inside it.
LEMMA Where ==
  ASSUME CompositeInv, WholeInv, phase = "read", Parts # <<>>
  PROVE  \/ /\ todo = <<<<type>>>> /\ Len(windows) = 1 /\ At = 1 /\ Input.constructor = "none"
            /\ Part = type /\ Others = <<<<>>>>
         \/ /\ todo[Len(todo)] = <<>> /\ windows[1].at = Len(output) + 1
            /\ Len(todo) > 1 /\ Len(windows) > 1
<1>1. /\ todo \in Seq(Seq(Types)) /\ todo # <<>> /\ Len(windows) = Len(todo)
      /\ Len(todo) \in Nat /\ Len(todo) > 0
  BY AtWork
<1>2. CASE todo = <<<<type>>>> /\ Len(windows) = 1 /\ At = 1 /\ Input.constructor = "none"
  BY <1>2 DEF Part, Parts, Others
<1>3. CASE todo[Len(todo)] = <<>> /\ windows[1].at = Len(output) + 1
  <2>1. Len(todo) # 1
    BY <1>1, <1>3, HeadTailProperties DEF Parts
  <2> QED BY <1>1, <1>3, <2>1
<1> QED BY <1>2, <1>3 DEF WholeInv

\* The place of the outermost, when another one is at work.
LEMMA OutermostStays ==
  ASSUME CompositeInv, phase = "read", NEW n \in Nat, Len(windows) > 1
  PROVE  Advance(n)[1].at = windows[1].at
<1>1. Len(windows) \in Nat /\ DOMAIN windows = 1..Len(windows)
  BY AtWork
<1>2. 1 \in DOMAIN windows /\ 1 # Len(windows)
  BY <1>1
<1> QED BY <1>2, Advanced

LEMMA WholeTake ==
  ASSUME CompositeInv, WholeInv, phase = "read", Parts # <<>>, Peek # "nothing", Take,
         Input.constructor = "none" => Peek \in Scalars,
         UNCHANGED <<writer, value, type, output, offsets>>
  PROVE  WholeInv'
<1>1. windows' = Advance(1) /\ todo' = Others /\ phase' = "read"
  BY DEF Take
<1>2. /\ todo \in Seq(Seq(Types)) /\ Parts \in Seq(Types) /\ Tail(Parts) \in Seq(Types)
  BY AtWork, Stack DEF Trees
<1>3. CASE /\ todo = <<<<type>>>> /\ Len(windows) = 1 /\ At = 1 /\ Input.constructor = "none"
           /\ Others = <<<<>>>>
  <2>1. output[1].tag \in Scalars
    BY <1>3, Seen DEF Peek
  <2>2. Code(output) = 1
    BY <2>1 DEF Code, Scalars
  <2>3. Len(output) = 1
    BY <1>3, <2>1, <2>2 DEF WholeInv, Complete
  <2>4. windows'[1].at = 2
    <3>1. 1 \in DOMAIN windows
      BY <1>3, AtWork
    <3> QED BY <1>1, <1>3, <3>1, Advanced
  <2>5. todo'[Len(todo')] = <<>>
    BY <1>1, <1>3
  <2> QED BY <1>1, <2>3, <2>4, <2>5 DEF WholeInv
<1>4. CASE /\ todo[Len(todo)] = <<>> /\ windows[1].at = Len(output) + 1
           /\ Len(todo) > 1 /\ Len(windows) > 1
  <2>1. todo'[Len(todo')] = todo[Len(todo)]
    BY <1>1, <1>2, <1>4, Outermost DEF Others
  <2>2. windows'[1].at = windows[1].at
    BY <1>1, <1>4, OutermostStays
  <2> QED BY <1>1, <1>4, <2>1, <2>2, WholeInside
<1> QED BY <1>3, <1>4, Where

LEMMA WholeReadNumber == CompositeInv /\ WholeInv /\ ReadNumber => WholeInv'
<1> SUFFICES ASSUME CompositeInv, WholeInv, ReadNumber PROVE WholeInv'
  OBVIOUS
<1>1. phase = "read" /\ Parts # <<>> /\ UNCHANGED <<writer, value, type, output, offsets>>
  BY DEF ReadNumber, Reading
<1>2. (Peek \in Numbers /\ Take) \/ Fail("panic") \/ Fail("garbled") \/ Fail("err")
  BY NumberRead
<1>3. CASE Peek \in Numbers /\ Take
  BY <1>1, <1>3, WholeTake DEF Scalars
<1>4. CASE Fail("panic") \/ Fail("garbled") \/ Fail("err")
  BY <1>1, <1>4, WholeEnded DEF Fail
<1> QED BY <1>2, <1>3, <1>4

LEMMA WholeReadStr == CompositeInv /\ WholeInv /\ ReadStr => WholeInv'
<1> SUFFICES ASSUME CompositeInv, WholeInv, ReadStr PROVE WholeInv'
  OBVIOUS
<1>1. phase = "read" /\ Parts # <<>> /\ UNCHANGED <<writer, value, type, output, offsets>>
  BY DEF ReadStr, Reading
<1>2. \/ Peek # "nothing" /\ (Input.constructor = "none" => Peek = "str") /\ Take
      \/ Fail("panic") \/ Fail("err")
  BY DEF ReadStr
<1>3. CASE Peek # "nothing" /\ (Input.constructor = "none" => Peek = "str") /\ Take
  BY <1>1, <1>3, WholeTake DEF Scalars
<1>4. CASE Fail("panic") \/ Fail("err")
  BY <1>1, <1>4, WholeEnded DEF Fail
<1> QED BY <1>2, <1>3, <1>4

LEMMA WholeReadOption == CompositeInv /\ WholeInv /\ ReadOption => WholeInv'
<1> SUFFICES ASSUME CompositeInv, WholeInv, ReadOption PROVE WholeInv'
  OBVIOUS
<1>1. /\ phase = "read" /\ Parts # <<>> /\ Part.kind = "option"
      /\ UNCHANGED <<writer, value, type, output, offsets>>
  BY DEF ReadOption, Reading
<1>2. /\ todo \in Seq(Seq(Types)) /\ Part \in Types /\ Parts \in Seq(Types) /\ Tail(Parts) \in Seq(Types)
  BY <1>1, AtWork, Stack DEF Trees
<1>3. CASE Peek = "data"
  BY <1>1, <1>3, WholeEnded DEF ReadOption, Fail
<1>4. CASE Peek # "data"
  <2>1. phase' = "read" /\ (windows' = windows \/ windows' = Advance(1))
    BY <1>1, <1>4 DEF ReadOption
  <2>2. todo' = Others \/ todo' = <<Part.items \o Tail(Parts)>> \o Tail(todo)
    BY <1>4 DEF ReadOption
  <2>3. /\ todo[Len(todo)] = <<>> /\ windows[1].at = Len(output) + 1
        /\ Len(todo) > 1 /\ Len(windows) > 1
    BY <1>1, Where DEF WholeInv, Lists
  <2>4. windows'[1].at = windows[1].at
    BY <1>1, <2>1, <2>3, OutermostStays
  <2>5. Part.items \o Tail(Parts) \in Seq(Types)
    BY <1>2, TypeParts, ConcatProperties
  <2>6. todo'[Len(todo')] = todo[Len(todo)]
    <3>1. CASE todo' = Others
      BY <1>2, <2>3, <3>1, Outermost DEF Others
    <3>2. CASE todo' = <<Part.items \o Tail(Parts)>> \o Tail(todo)
      BY <1>2, <2>3, <2>5, <3>2, Outermost
    <3> QED BY <2>2, <3>1, <3>2
  <2> QED BY <1>1, <2>1, <2>3, <2>4, <2>6, WholeInside
<1> QED BY <1>3, <1>4

LEMMA WholeReadMap == CompositeInv /\ WholeInv /\ ReadMap => WholeInv'
<1> SUFFICES ASSUME CompositeInv, WholeInv, ReadMap PROVE WholeInv'
  OBVIOUS
<1> DEFINE h == Header(At)
           n == 2 * (h.count \div 2)
           entries == [i \in 1..n |-> IF i % 2 = 1 THEN Key ELSE Part.items[1]]
           more == entries \o Tail(Parts)
<1>1. /\ phase = "read" /\ Parts # <<>> /\ Part.kind = "map"
      /\ UNCHANGED <<writer, value, type, output, offsets>>
  BY DEF ReadMap, Reading
<1>2. Part \in Types /\ Tail(Parts) \in Seq(Types) /\ todo \in Seq(Seq(Types))
  BY <1>1, AtWork, Stack DEF Trees
<1>3. \/ /\ Peek \in Sized /\ ~BadHeader(At)
         /\ windows' = Advance(h.first - At)
         /\ todo' = <<more>> \o Tail(todo)
         /\ UNCHANGED <<phase, decoded>>
      \/ WideArray(At)
      \/ Fail("garbled") \/ Fail("panic") \/ Fail("err")
  BY DEF ReadMap
<1>4. CASE Fail("garbled") \/ Fail("panic") \/ Fail("err") \/ WideArray(At)
  BY <1>1, <1>4, WholeEnded DEF WideArray, Fail
<1>5. CASE /\ Peek \in Sized /\ ~BadHeader(At)
           /\ windows' = Advance(h.first - At)
           /\ todo' = <<more>> \o Tail(todo)
           /\ UNCHANGED <<phase, decoded>>
  <2>1. At \in Nat /\ At <= Input.end
    BY <1>1, <1>5, AtWork, Seen DEF Sized, Peek
  <2>2. h.first \in Nat /\ h.count \in Nat /\ At < h.first
    BY <1>1, <1>5, <2>1, HeaderRead
  <2> HIDE DEF h
  <2>3. n \in Nat /\ h.first - At \in Nat
    BY <2>1, <2>2
  <2>4. Part.items[1] \in Types /\ Key \in Types
    BY <1>1, <1>2, TypeParts, TypesAssumption
  <2>5. entries \in Seq(Types)
    BY <2>3, <2>4, IsASeq
  <2> HIDE DEF entries
  <2>6. more \in Seq(Types)
    BY <1>2, <2>5, ConcatProperties
  <2> HIDE DEF more
  <2>7. /\ todo[Len(todo)] = <<>> /\ windows[1].at = Len(output) + 1
        /\ Len(todo) > 1 /\ Len(windows) > 1
    BY <1>1, Where DEF WholeInv, Lists
  <2>8. todo'[Len(todo')] = todo[Len(todo)]
    BY <1>2, <1>5, <2>6, <2>7, Outermost
  <2>9. windows'[1].at = windows[1].at
    BY <1>1, <1>5, <2>3, <2>7, OutermostStays
  <2> QED BY <1>1, <1>5, <2>7, <2>8, <2>9, WholeInside
<1> QED BY <1>3, <1>4, <1>5

\* The outermost Deserializer moves past the composite it enters; another one
\* leaves the outermost where it is.
LEMMA WholeReadSequence == CompositeInv /\ WholeInv /\ ReadSequence => WholeInv'
<1> SUFFICES ASSUME CompositeInv, WholeInv, ReadSequence PROVE WholeInv'
  OBVIOUS
<1> DEFINE code == IF Peek = "described" THEN At + 1 ELSE At
           tag == TagAt(code)
           h == Header(code)
           parts == IF Part.kind = "struct" THEN Part.items ELSE [i \in 1..h.count |-> Part.items[1]]
           new == [at |-> h.first, end |-> h.last, constructor |-> h.constructor]
           n == h.last + 1 - At
<1>1. /\ phase = "read" /\ Parts # <<>> /\ Part.kind \in Lists
      /\ UNCHANGED <<writer, value, type, output, offsets>>
  BY DEF ReadSequence, Reading
<1>2. /\ Part \in Types /\ Tail(Parts) \in Seq(Types) /\ todo \in Seq(Seq(Types))
      /\ windows \in Seq(Frames) /\ Len(windows) \in Nat /\ DOMAIN windows = 1..Len(windows)
      /\ Len(windows) > 0
  BY <1>1, AtWork, Stack DEF Trees
<1>3. At \in Nat /\ code \in Nat /\ At <= code /\ code <= At + 1
  BY <1>1, AtWork
<1>4. \/ tag \in Sized /\ ~BadHeader(code) /\ Nest(h, parts)
      \/ WideArray(code)
      \/ Fail("garbled") \/ Fail("panic") \/ Fail("err")
  BY DEF ReadSequence
<1>5. CASE Fail("garbled") \/ Fail("panic") \/ Fail("err") \/ WideArray(code)
  BY <1>1, <1>5, WholeEnded DEF WideArray, Fail
<1>6. CASE tag \in Sized /\ ~BadHeader(code) /\ Nest(h, parts) /\ ~(h.last > Input.end)
  <2>1. /\ windows' = Append(Advance(n), new) /\ todo' = <<parts>> \o Others
        /\ UNCHANGED <<phase, decoded>>
    BY <1>6 DEF Nest
  <2>2. code <= Input.end /\ tag = output[code].tag
    BY <1>1, <1>3, <1>6, Seen DEF Sized
  <2> HIDE DEF code
  <2>3. /\ h.first \in Nat /\ h.last \in Nat /\ h.count \in Nat /\ h.constructor \in Tags
        /\ code < h.first /\ h.first <= h.last + 1
    BY <1>1, <1>3, <1>6, <2>2, HeaderRead
  <2>4. parts \in Seq(Types)
    <3>1. CASE Part.kind = "struct"
      BY <1>2, <3>1, TypeParts
    <3>2. CASE Part.kind # "struct"
      BY <1>1, <1>2, <2>3, <3>2, SameType DEF Lists
    <3> QED BY <3>1, <3>2
  <2> HIDE DEF parts
  <2>5. n \in Nat /\ new \in Frames
    <3> HIDE DEF h
    <3> QED BY <1>3, <2>3 DEF Frames
  <2>6. windows'[1] = Advance(n)[1]
    <3>1. /\ Advance(n) \in Seq(Frames) /\ Len(Advance(n)) = Len(windows)
      BY <1>1, <2>5, Advanced
    <3>2. 1 \in 1..Len(Advance(n))
      BY <1>2, <3>1
    <3> HIDE DEF n, new
    <3> QED BY <2>1, <2>5, <3>1, <3>2, AppendProperties
  <2>7. CASE /\ todo = <<<<type>>>> /\ Len(windows) = 1 /\ At = 1 /\ Others = <<<<>>>>
    <3>1. todo'[Len(todo')] = <<>>
      BY <2>1, <2>4, <2>7, OnNothing
    <3>2. code = Code(output)
      <4>1. Peek # "nothing" => Peek = output[1].tag
        BY <1>1, <1>3, <2>7, Seen DEF Peek
      <4>2. At <= Input.end
        BY <1>1, <1>3, <2>2, AtWork
      <4>3. Peek # "nothing" \/ output[At].tag = "nothing"
        BY <4>2 DEF Peek, TagAt
      <4>4. output[1].tag # "nothing"
        <5>1. 1 \in 1..Len(output) /\ output \in Seq(Cells)
          BY <1>1, <2>7, <4>2, AtWork
        <5>2. output[1] \in Cells
          BY <5>1, ElementOfSeq
        <5> QED BY <5>2 DEF Cells, Tags, Arrays, Scalars
      <4> QED BY <2>7, <4>1, <4>3, <4>4 DEF code, Code
    <3>3. h.last = Len(output)
      <4>1. CASE tag = "list0"
        BY <1>1, <2>2, <3>2, <4>1 DEF Header, WholeInv, Complete
      <4>2. CASE tag # "list0"
        <5>1. tag \in Measured
          BY <1>6, <4>2 DEF Sized, Measured
        <5> QED BY <1>1, <2>2, <3>2, <4>2, <5>1 DEF Header, WholeInv, Complete
      <4> QED BY <4>1, <4>2
    <3>4. windows'[1].at = Len(output) + 1
      <4>1. Advance(n)[1].at = At + n
        <5>1. 1 \in DOMAIN windows /\ 1 = Len(windows)
          BY <1>2, <2>7
        <5> HIDE DEF n
        <5> QED BY <1>1, <2>5, <5>1, Advanced
      <4> HIDE DEF h
      <4>2. At + n = Len(output) + 1
        BY <1>3, <2>3, <3>3
      <4> QED BY <2>6, <4>1, <4>2
    <3> QED BY <1>1, <2>1, <3>1, <3>4 DEF WholeInv
  <2>8. CASE /\ todo[Len(todo)] = <<>> /\ windows[1].at = Len(output) + 1
             /\ Len(todo) > 1 /\ Len(windows) > 1
    <3>1. todo'[Len(todo')] = todo[Len(todo)]
      <4>1. todo' = <<parts>> \o (<<Tail(Parts)>> \o Tail(todo))
        BY <2>1 DEF Others
      <4> DEFINE two == <<parts>> \o (<<Tail(Parts)>> \o Tail(todo))
      <4>2. two[Len(two)] = todo[Len(todo)]
        BY <1>2, <2>4, <2>8, Outermost
      <4> HIDE DEF two
      <4>3. todo' = two
        BY <4>1 DEF two
      <4> QED BY <4>2, <4>3
    <3>2. windows'[1].at = windows[1].at
      BY <1>1, <2>5, <2>6, <2>8, OutermostStays
    <3> QED BY <1>1, <2>1, <2>8, <3>1, <3>2, WholeInside
  <2> QED BY <1>1, <2>7, <2>8, Where
<1>7. CASE Nest(h, parts) /\ h.last > Input.end
  BY <1>1, <1>7, WholeEnded DEF Nest, Fail
<1> QED BY <1>4, <1>5, <1>6, <1>7

LEMMA WholeReadTuple == CompositeInv /\ WholeInv /\ ReadTuple => WholeInv'
BY WholeEnded DEF ReadTuple, Reading, Fail

LEMMA WholeCloseWindow == CompositeInv /\ WholeInv /\ CloseWindow => WholeInv'
<1> SUFFICES ASSUME CompositeInv, WholeInv, CloseWindow PROVE WholeInv'
  OBVIOUS
<1> DEFINE m == Len(windows)
<1>1. /\ phase = "read" /\ Len(todo) > 1 /\ todo' = Tail(todo) /\ windows' = Front(windows)
      /\ UNCHANGED <<writer, value, type, phase, output, offsets, decoded>>
  BY DEF CloseWindow, Closing
<1>2. todo \in Seq(Seq(Types)) /\ windows \in Seq(Frames) /\ m = Len(todo) /\ m \in Nat
  BY <1>1, AtWork
<1>3. todo[Len(todo)] = <<>> /\ windows[1].at = Len(output) + 1
  BY <1>1 DEF WholeInv
<1>4. todo'[Len(todo')] = todo[Len(todo)]
  BY <1>1, <1>2, Outermost
<1>5. windows'[1] = windows[1]
  <2>1. m - 1 \in Nat /\ m - 1 <= m /\ 1 \in 1..(m - 1)
    BY <1>1, <1>2
  <2> QED BY <1>1, <1>2, <2>1, SubSeqProperties DEF Front
<1> QED BY <1>1, <1>3, <1>4, <1>5, WholeInside

LEMMA WholeReturn == CompositeInv /\ WholeInv /\ Return => WholeInv'
<1> SUFFICES ASSUME CompositeInv, WholeInv, Return PROVE WholeInv'
  OBVIOUS
<1>1. /\ phase = "read" /\ phase' = "ok" /\ todo = <<<<>>>>
      /\ UNCHANGED <<writer, value, type, todo, output, offsets, windows, decoded>>
  BY DEF Return
<1>2. Len(windows) = 1
  BY <1>1, AtWork
<1>3. todo # <<<<type>>>>
  BY <1>1
<1>4. windows[1].at = Len(output) + 1
  BY <1>1, <1>3 DEF WholeInv
<1> QED BY <1>1, <1>2, <1>4 DEF WholeInv

LEMMA WholeStutter == WholeInv /\ (Done \/ UNCHANGED vars) => WholeInv'
BY DEF WholeInv, Done, vars, Input, At

LEMMA WholeStep == CompositeInv /\ WholeInv /\ [Next]_vars => WholeInv'
<1> SUFFICES ASSUME CompositeInv, WholeInv, [Next]_vars PROVE WholeInv'
  OBVIOUS
<1>1. CASE WriteScalar \/ WriteComposite \/ WriteEnd
  BY <1>1, WholeWriteScalar, WholeWriteComposite, WholeWriteEnd
<1>2. CASE PeerEmptyList \/ PeerArray
  BY <1>2, WholePeerEmptyList, WholePeerArray
<1>3. CASE StartRead
  BY <1>3, WholeStartRead
<1>4. CASE ReadNumber \/ ReadStr \/ ReadTuple \/ ReadOption
  BY <1>4, WholeReadNumber, WholeReadStr, WholeReadTuple, WholeReadOption
<1>5. CASE ReadSequence \/ ReadMap \/ CloseWindow \/ Return
  BY <1>5, WholeReadSequence, WholeReadMap, WholeCloseWindow, WholeReturn
<1>6. CASE Done \/ UNCHANGED vars
  BY <1>6, WholeStutter
<1> QED BY <1>1, <1>2, <1>3, <1>4, <1>5, <1>6 DEF Next

\* The outermost value's size, if it has one, ends where the output does, and
\* deserialize_struct or deserialize_seq takes all of it in one step.
THEOREM WholeInvariant == Spec => []WholeInv
BY CompositeInvariant, WholeInit, WholeStep, PTL DEF Spec

\* Whoever wrote the value, and whatever of the newer or older type the reader
\* asks for: a value de::deserialize returns was all of the bytes, and one
\* whose last bytes are still to come is not returned.
THEOREM Consumed == Spec => []ConsumedWhole
<1>1. WholeInv => ConsumedWhole
  BY DEF WholeInv, ConsumedWhole, At, Input, Last
<1> QED BY <1>1, WholeInvariant, PTL

-----------------------------------------------------------------------------
(* The reference: the recursion is well founded, as types are trees, so that *)
(* Expected satisfies the equation that defines it.                          *)

\* A set of numbers has a least one.
LEMMA LeastNumber ==
  ASSUME NEW T \in SUBSET Nat, T # {}
  PROVE  \E m \in T : \A n \in T : m <= n
<1>1. PICK m \in T : \A n \in T : ~(<<n, m>> \in OpToRel(<, Nat))
  BY NatLessThanWellFounded, WFMin
<1>2. ASSUME NEW n \in T PROVE m <= n
  <2>1. m \in Nat /\ n \in Nat
    OBVIOUS
  <2>2. OpToRel(<, Nat) = {nn \in Nat \X Nat : nn[1] < nn[2]}
    BY DEF OpToRel
  <2>3. ~(<<n, m>> \in {nn \in Nat \X Nat : nn[1] < nn[2]})
    BY <1>1, <2>2
  <2> QED BY <2>1, <2>3
<1> QED BY <1>2

\* How far a reading is from the end of the recursion: the depth of the type
\* first, then the parts still to be read.
Left(x) ==
  LET n == PartCount(x[1], x[2]) IN
  IF x[3] = 0 THEN n + 2 ELSE IF x[3] <= n THEN n + 2 - x[3] ELSE 0
Below(x, y) ==
  \/ Height[x[2]] < Height[y[2]]
  \/ Height[x[2]] = Height[y[2]] /\ Left(x) < Left(y)

LEMMA NodeParts ==
  ASSUME NEW v \in Nodes
  PROVE  /\ v.items \in Seq(Values)
         /\ v.kind \in Scalars \cup Composites \cup {"missing", "element"}
         /\ v.n \in Nat
         /\ v.kind = "element" => \E w \in Values : v = Element(w)
         /\ v.kind \in Scalars \cup Composites => v \in Values
         /\ v.kind = "missing" => v = Missing
<1>1. CASE v \in Values
  <2>1. v.kind \in Scalars \cup Composites /\ v.n \in Nat /\ v.items \in Seq(Values)
    BY <1>1, ValueParts
  <2>2. v.kind # "element" /\ v.kind # "missing"
    BY <2>1 DEF Scalars, Composites, Lists, Arrays
  <2> QED BY <2>1, <2>2, <1>1
<1>2. CASE v = Missing
  BY <1>2 DEF Missing, Node, Scalars, Composites, Lists, Arrays
<1>3. ASSUME NEW w \in Values, v = Element(w) PROVE /\ v.items \in Seq(Values) /\ v.n \in Nat /\ v.kind = "element"
  BY <1>3 DEF Element, Node
<1>4. "element" \notin Scalars \cup Composites
  BY DEF Scalars, Composites, Lists, Arrays
<1>5. CASE \E w \in Values : v = Element(w)
  BY <1>3, <1>4, <1>5
<1> QED BY <1>1, <1>2, <1>5 DEF Nodes

LEMMA PartRead ==
  ASSUME NEW v \in Nodes, NEW t \in Types
  PROVE  /\ PartCount(v, t) \in Nat
         /\ \A i \in 1..PartCount(v, t) :
              /\ PartOf(v, i) \in Nodes /\ PartType(t, i) \in Types
              /\ Height[PartType(t, i)] < Height[t]
<1>1. v.items \in Seq(Values) /\ Len(v.items) \in Nat
  BY NodeParts, LenProperties
<1>2. t.items \in Seq(Types) /\ Len(t.items) \in Nat /\ DOMAIN t.items = 1..Len(t.items)
  BY TypeParts, LenProperties
<1>3. PartCount(v, t) \in Nat
  BY <1>1, <1>2 DEF PartCount
<1>4. ASSUME NEW i \in 1..PartCount(v, t) PROVE PartOf(v, i) \in Nodes
  <2>1. i \in Nat /\ i >= 1
    BY <1>3
  <2>2. CASE i > Len(v.items)
    BY <2>2 DEF PartOf, Nodes
  <2>3. CASE ~(i > Len(v.items))
    <3>1. v.items[i] \in Values
      BY <2>1, <2>3, <1>1, ElementOfSeq
    <3> QED BY <3>1, <2>3 DEF PartOf, Nodes
  <2> QED BY <2>2, <2>3
<1>5. ASSUME NEW i \in 1..PartCount(v, t)
      PROVE  PartType(t, i) \in Types /\ Height[PartType(t, i)] < Height[t]
  <2>1. CASE t.kind = "struct"
    <3>1. i \in DOMAIN t.items
      BY <2>1, <1>2 DEF PartCount
    <3>2. t.items[i] \in Types
      BY <3>1, <1>2, ElementOfSeq
    <3> QED BY <2>1, <3>1, <3>2, HeightAssumption DEF PartType
  <2>2. CASE t.kind = "map" /\ i % 2 = 1
    BY <2>2, HeightAssumption, TypesAssumption DEF PartType
  <2>3. CASE t.kind \in {"list", "map"} /\ ~(t.kind = "map" /\ i % 2 = 1)
    <3>0. Len(t.items) = 1
      BY <2>3, TypesAssumption
    <3>1. 1 \in DOMAIN t.items
      BY <3>0, <1>2
    <3>2. t.items[1] \in Types
      BY <3>1, <1>2, ElementOfSeq
    <3> QED BY <2>3, <3>1, <3>2, HeightAssumption DEF PartType
  <2>4. CASE t.kind \notin {"struct", "list", "map"}
    BY <2>4 DEF PartCount
  <2> QED BY <2>1, <2>2, <2>3, <2>4
<1> QED BY <1>3, <1>4, <1>5

LEMMA Measures ==
  ASSUME NEW x \in Readings
  PROVE  /\ x[1] \in Nodes /\ x[2] \in Types /\ x[3] \in Nat
         /\ x = <<x[1], x[2], x[3]>>
         /\ Height[x[2]] \in Nat /\ Left(x) \in Nat
<1>1. x[1] \in Nodes /\ x[2] \in Types /\ x[3] \in Nat /\ x = <<x[1], x[2], x[3]>>
  BY DEF Readings
<1>2. PartCount(x[1], x[2]) \in Nat
  BY <1>1, PartRead
<1> QED BY <1>1, <1>2, HeightAssumption DEF Left

\* Whatever is true of some reading is true of one with none below it.
LEMMA LeastReading ==
  ASSUME NEW T \in SUBSET Readings, T # {}
  PROVE  \E y \in T : \A x \in T : ~Below(x, y)
<1> DEFINE heights == {Height[x[2]] : x \in T}
<1>1. PICK h \in heights : \A n \in heights : h <= n
  <2>1. heights \in SUBSET Nat /\ heights # {}
    BY Measures
  <2> QED BY <2>1, LeastNumber
<1> DEFINE low == {x \in T : Height[x[2]] = h}
           lefts == {Left(x) : x \in low}
<1>2. PICK k \in lefts : \A n \in lefts : k <= n
  <2>1. lefts \in SUBSET Nat /\ lefts # {}
    BY <1>1, Measures
  <2> QED BY <2>1, LeastNumber
<1>3. PICK y \in low : Left(y) = k
  BY <1>2
<1>4. ASSUME NEW x \in T, Below(x, y) PROVE FALSE
  <2>1. /\ Height[x[2]] \in Nat /\ Left(x) \in Nat
        /\ Height[y[2]] \in Nat /\ Left(y) \in Nat
    BY <1>3, Measures
  <2>2. Height[x[2]] \in heights /\ h <= Height[x[2]] /\ Height[y[2]] = h
    BY <1>1, <1>3
  <2>3. Height[x[2]] = h /\ Left(x) < Left(y)
    BY <2>1, <2>2, <1>4 DEF Below
  <2>4. Left(x) \in lefts
    BY <2>3
  <2> QED BY <2>1, <2>3, <2>4, <1>2, <1>3
<1> QED BY <1>3, <1>4

Body(f, x) == Outcome(f, x[1], x[2], x[3])

\* The readings that the outcome of a reading is made of are below it.
LEMMA OutcomeBelow ==
  ASSUME NEW x \in Readings
  PROVE  LET v == x[1]
             t == x[2]
             i == x[3] IN
         /\ i # 0 /\ i <= PartCount(v, t) =>
              /\ <<PartOf(v, i), PartType(t, i), 0>> \in Readings
              /\ Below(<<PartOf(v, i), PartType(t, i), 0>>, x)
              /\ <<v, t, i + 1>> \in Readings /\ Below(<<v, t, i + 1>>, x)
         /\ i = 0 /\ t.kind = "option" =>
              <<v, t.items[1], 0>> \in Readings /\ Below(<<v, t.items[1], 0>>, x)
         /\ i = 0 => <<v, t, 1>> \in Readings /\ Below(<<v, t, 1>>, x)
<1> DEFINE v == x[1]
           t == x[2]
           i == x[3]
           n == PartCount(v, t)
<1>1. v \in Nodes /\ t \in Types /\ i \in Nat /\ n \in Nat /\ Height[t] \in Nat
  BY Measures, PartRead
<1>2. ASSUME i # 0, i <= n
      PROVE  /\ <<PartOf(v, i), PartType(t, i), 0>> \in Readings
             /\ Below(<<PartOf(v, i), PartType(t, i), 0>>, x)
             /\ <<v, t, i + 1>> \in Readings /\ Below(<<v, t, i + 1>>, x)
  <2>1. i \in 1..n
    BY <1>1, <1>2
  <2>2. PartOf(v, i) \in Nodes /\ PartType(t, i) \in Types /\ Height[PartType(t, i)] < Height[t]
    BY <2>1, <1>1, PartRead
  <2>3. Left(<<v, t, i + 1>>) < Left(x)
    <3>1. Left(x) = n + 2 - i
      BY <2>1, <1>1 DEF Left
    <3>2. Left(<<v, t, i + 1>>) = IF i + 1 <= n THEN n + 2 - (i + 1) ELSE 0
      BY <2>1, <1>1 DEF Left
    <3> QED BY <3>1, <3>2, <2>1, <1>1
  <2>4. Below(<<v, t, i + 1>>, x)
    BY <2>3 DEF Below
  <2> QED BY <2>2, <2>4, <1>1 DEF Below, Readings
<1>3. ASSUME t.kind = "option"
      PROVE  <<v, t.items[1], 0>> \in Readings /\ Below(<<v, t.items[1], 0>>, x)
  <2>1. t.items \in Seq(Types) /\ Len(t.items) = 1
    BY <1>1, <1>3, TypeParts, TypesAssumption
  <2>2. t.items[1] \in Types /\ 1 \in DOMAIN t.items
    BY <2>1, ElementOfSeq, LenProperties
  <2>3. Height[t.items[1]] < Height[t]
    BY <2>2, <1>1, HeightAssumption
  <2> QED BY <2>2, <2>3, <1>1 DEF Below, Readings
<1>4. ASSUME i = 0
      PROVE  <<v, t, 1>> \in Readings /\ Below(<<v, t, 1>>, x)
  <2>1. Left(x) = n + 2
    BY <1>4 DEF Left
  <2>2. Left(<<v, t, 1>>) = IF 1 <= n THEN n + 2 - 1 ELSE 0
    BY DEF Left
  <2>3. Left(<<v, t, 1>>) < Left(x)
    BY <2>1, <2>2, <1>1
  <2> QED BY <2>3, <1>1 DEF Below, Readings
<1> QED BY <1>2, <1>3, <1>4

LEMMA OutcomeLocal ==
  ASSUME NEW x \in Readings, NEW f, NEW g,
         \A y \in Readings : Below(y, x) => f[y] = g[y]
  PROVE  Body(f, x) = Body(g, x)
<1> DEFINE v == x[1]
           t == x[2]
           i == x[3]
<1>1. CASE i = 0
  <2>1. t.kind = "option" => f[<<v, t.items[1], 0>>] = g[<<v, t.items[1], 0>>]
    BY <1>1, OutcomeBelow
  <2>2. f[<<v, t, 1>>] = g[<<v, t, 1>>]
    BY <1>1, OutcomeBelow
  <2>3. ExpectedOf(f, v, t) = ExpectedOf(g, v, t)
    BY <2>1, <2>2 DEF ExpectedOf
  <2> QED BY <1>1, <2>3 DEF Body, Outcome
<1>2. CASE i # 0 /\ i <= PartCount(v, t)
  <2>1. /\ f[<<PartOf(v, i), PartType(t, i), 0>>] = g[<<PartOf(v, i), PartType(t, i), 0>>]
        /\ f[<<v, t, i + 1>>] = g[<<v, t, i + 1>>]
    BY <1>2, OutcomeBelow
  <2> QED BY <1>2, <2>1 DEF Body, Outcome
<1>3. CASE i # 0 /\ ~(i <= PartCount(v, t))
  <2>1. i \in Nat /\ PartCount(v, t) \in Nat
    BY Measures, PartRead
  <2> QED BY <1>3, <2>1 DEF Body, Outcome
<1> QED BY <1>1, <1>2, <1>3

\* A function that satisfies the equation for every reading below one.
Solves(f, y) == \A x \in Readings : Below(x, y) => f[x] = Body(f, x)
Solution(y) == CHOOSE f : Solves(f, y)

LEMMA BelowBelow ==
  ASSUME NEW x \in Readings, NEW y \in Readings, NEW z \in Readings, Below(x, y), Below(y, z)
  PROVE  Below(x, z)
<1>1. /\ Height[x[2]] \in Nat /\ Height[y[2]] \in Nat /\ Height[z[2]] \in Nat
      /\ Left(x) \in Nat /\ Left(y) \in Nat /\ Left(z) \in Nat
  BY Measures
<1> QED BY <1>1 DEF Below

LEMMA SolutionsAgree ==
  ASSUME NEW y \in Readings, NEW f, NEW g, Solves(f, y), Solves(g, y)
  PROVE  \A x \in Readings : Below(x, y) => f[x] = g[x]
<1> DEFINE T == {x \in Readings : Below(x, y) /\ f[x] # g[x]}
<1> SUFFICES ASSUME T # {} PROVE FALSE
  OBVIOUS
<1>1. PICK x \in T : \A z \in T : ~Below(z, x)
  BY LeastReading
<1>2. \A z \in Readings : Below(z, x) => f[z] = g[z]
  BY <1>1, BelowBelow
<1>3. Body(f, x) = Body(g, x)
  BY <1>1, <1>2, OutcomeLocal
<1> QED BY <1>1, <1>3 DEF Solves

\* The solutions put together.
Joined == [x \in Readings |-> Body(Solution(x), x)]

LEMMA JoinedSolves ==
  ASSUME NEW x \in Readings, Solves(Solution(x), x),
         \A z \in Readings : Below(z, x) => Solves(Solution(z), z)
  PROVE  Joined[x] = Body(Joined, x)
<1>1. ASSUME NEW z \in Readings, Below(z, x)
      PROVE  Joined[z] = Solution(x)[z]
  <2>1. Solves(Solution(x), z)
    BY <1>1, BelowBelow DEF Solves
  <2>2. \A w \in Readings : Below(w, z) => Solution(z)[w] = Solution(x)[w]
    BY <1>1, <2>1, SolutionsAgree
  <2>3. Body(Solution(z), z) = Body(Solution(x), z)
    BY <2>2, OutcomeLocal
  <2>4. Solution(x)[z] = Body(Solution(x), z)
    BY <1>1 DEF Solves
  <2> QED BY <2>3, <2>4 DEF Joined
<1>2. Body(Joined, x) = Body(Solution(x), x)
  BY <1>1, OutcomeLocal
<1> QED BY <1>2 DEF Joined

LEMMA Solvable ==
  ASSUME NEW x \in Readings
  PROVE  Solves(Solution(x), x)
<1> DEFINE T == {y \in Readings : ~Solves(Solution(y), y)}
<1> SUFFICES ASSUME T # {} PROVE FALSE
  OBVIOUS
<1>1. PICK y \in T : \A z \in T : ~Below(z, y)
  BY LeastReading
<1>2. ASSUME NEW z \in Readings, Below(z, y) PROVE Joined[z] = Body(Joined, z)
  <2>1. Solves(Solution(z), z)
    BY <1>1, <1>2
  <2>2. \A w \in Readings : Below(w, z) => Solves(Solution(w), w)
    BY <1>1, <1>2, BelowBelow
  <2> QED BY <2>1, <2>2, JoinedSolves
<1>3. Solves(Joined, y)
  BY <1>2 DEF Solves
<1>4. Solves(Solution(y), y)
  BY <1>3 DEF Solution
<1> QED BY <1>1, <1>4

\* The reference does satisfy its equation.
LEMMA ExpectedDef ==
  ASSUME NEW x \in Readings
  PROVE  Expected[x] = Outcome(Expected, x[1], x[2], x[3])
<1> DEFINE Def(f) == f = [r \in Readings |-> Outcome(f, r[1], r[2], r[3])]
<1>1. \A r \in Readings : Joined[r] = Outcome(Joined, r[1], r[2], r[3])
  BY Solvable, JoinedSolves DEF Body
<1>2. Def(Joined)
  BY <1>1 DEF Joined
<1>3. Expected = CHOOSE f : Def(f)
  BY DEF Expected
<1>4. Def(Expected)
  BY <1>2, <1>3
<1> QED BY <1>4

Results == [phase : SUBSET Outcomes, leaves : Seq(Nat)]

LEMMA Gets ==
  /\ \A l \in Seq(Nat) : Got(l) \in Results
  /\ \A p \in SUBSET Outcomes : Bad(p) \in Results
BY EmptySeq DEF Got, Bad, Results, Outcomes

LEMMA ThenResults ==
  ASSUME NEW a \in Results, NEW b \in Results
  PROVE  Then(a, b) \in Results
<1>1. a.leaves \o b.leaves \in Seq(Nat)
  BY ConcatProperties DEF Results
<1> QED BY <1>1, Gets DEF Then

LEMMA ExpectedIs ==
  ASSUME NEW x \in Readings
  PROVE  Expected[x] \in Results
<1> DEFINE T == {y \in Readings : Expected[y] \notin Results}
<1> SUFFICES ASSUME T # {} PROVE FALSE
  OBVIOUS
<1>1. PICK y \in T : \A z \in T : ~Below(z, y)
  BY LeastReading
<1> DEFINE v == y[1]
           t == y[2]
           i == y[3]
<1>2. v \in Nodes /\ t \in Types /\ i \in Nat /\ PartCount(v, t) \in Nat
  BY <1>1, Measures, PartRead
<1>3. CASE i = 0
  <2>1. t.kind = "option" => Expected[<<v, t.items[1], 0>>] \in Results
    BY <1>1, <1>3, OutcomeBelow
  <2>2. Expected[<<v, t, 1>>] \in Results
    BY <1>1, <1>3, OutcomeBelow
  <2>3. v.kind = "element" => <<v.items[1].n>> \in Seq(Nat)
    <3> SUFFICES ASSUME NEW w \in Values, v = Element(w) PROVE <<v.items[1].n>> \in Seq(Nat)
      BY <1>2, NodeParts
    <3>1. v.items[1] = w /\ w.n \in Nat
      BY ValueParts DEF Element, Node
    <3> QED BY <3>1
  <2>4. <<v.n>> \in Seq(Nat) /\ <<0>> \in Seq(Nat)
    BY <1>2, NodeParts
  <2>5. /\ {"panic"} \in SUBSET Outcomes /\ {"garbled"} \in SUBSET Outcomes /\ {"err"} \in SUBSET Outcomes
        /\ {"panic", "garbled"} \in SUBSET Outcomes /\ Outcomes \in SUBSET Outcomes
    BY DEF Outcomes
  <2>6. ExpectedOf(Expected, v, t) \in Results
    BY <2>1, <2>2, <2>3, <2>4, <2>5, Gets DEF ExpectedOf
  <2> QED BY <1>1, <1>3, <2>6, ExpectedDef DEF Outcome
<1>4. CASE i # 0 /\ i <= PartCount(v, t)
  <2>1. /\ Expected[<<PartOf(v, i), PartType(t, i), 0>>] \in Results
        /\ Expected[<<v, t, i + 1>>] \in Results
    BY <1>1, <1>4, OutcomeBelow
  <2>2. Outcome(Expected, v, t, i) \in Results
    BY <1>2, <1>4, <2>1, ThenResults DEF Outcome
  <2> QED BY <1>1, <2>2, ExpectedDef
<1>5. CASE i # 0 /\ i > PartCount(v, t)
  <2>1. Outcome(Expected, v, t, i) = Got(<<>>)
    BY <1>5 DEF Outcome
  <2>2. <<>> \in Seq(Nat)
    OBVIOUS
  <2> QED BY <1>1, <2>1, <2>2, Gets, ExpectedDef
<1> QED BY <1>2, <1>3, <1>4, <1>5

\* Joining results is associative.
LEMMA ThenThen ==
  ASSUME NEW a \in Results, NEW b \in Results, NEW c \in Results
  PROVE  Then(Then(a, b), c) = Then(a, Then(b, c))
<1>1. \A l, m, n \in Seq(Nat) : (l \o m) \o n = l \o (m \o n)
  <2> SUFFICES ASSUME NEW l \in Seq(Nat), NEW m \in Seq(Nat), NEW n \in Seq(Nat)
               PROVE  (l \o m) \o n = l \o (m \o n)
    OBVIOUS
  <2> QED BY ConcatAssociative, SMTT(20)
<1>2. a.leaves \in Seq(Nat) /\ b.leaves \in Seq(Nat) /\ c.leaves \in Seq(Nat)
  BY DEF Results
<1>3. (a.leaves \o b.leaves) \o c.leaves = a.leaves \o (b.leaves \o c.leaves)
  BY <1>1, <1>2
<1> QED BY <1>3 DEF Then, Got

LEMMA ThenNothing ==
  ASSUME NEW a \in Results
  PROVE  Then(Got(<<>>), a) = a
<1>1. a.leaves \in Seq(Nat) /\ a = [phase |-> a.phase, leaves |-> a.leaves]
  BY DEF Results
<1>2. <<>> \o a.leaves = a.leaves
  BY <1>1, ConcatEmptySeq
<1> QED BY <1>1, <1>2 DEF Then, Got

-----------------------------------------------------------------------------
(* What is written: where each value lies in the output.                     *)

\* The stack of what is to be done counted from the outermost composite.
Lv(stack, j) == stack[Len(stack) + 1 - j]

LEMMA Levels ==
  ASSUME NEW S, NEW stack \in Seq(Seq(S)), stack # <<>>, NEW s \in Seq(S)
  PROVE  LET d == Len(stack) IN
         /\ d \in Nat /\ d >= 1 /\ Lv(stack, d) = Head(stack)
         /\ \A j \in 1..d : Lv(stack, j) \in Seq(S)
         /\ Len(<<s>> \o Tail(stack)) = d /\ Lv(<<s>> \o Tail(stack), d) = s
         /\ \A j \in 1..(d - 1) : Lv(<<s>> \o Tail(stack), j) = Lv(stack, j)
         /\ Len(<<s>> \o stack) = d + 1 /\ Lv(<<s>> \o stack, d + 1) = s
         /\ \A j \in 1..d : Lv(<<s>> \o stack, j) = Lv(stack, j)
         /\ Len(Tail(stack)) = d - 1
         /\ \A j \in 1..(d - 1) : Lv(Tail(stack), j) = Lv(stack, j)
<1> DEFINE d == Len(stack)
           less == Tail(stack)
           one == <<s>> \o less
           two == <<s>> \o stack
<1>1. d \in Nat /\ d >= 1 /\ stack[1] = Head(stack) /\ \A i \in 1..d : stack[i] \in Seq(S)
  <2>1. d \in Nat /\ d # 0
    BY LenProperties, EmptySeq
  <2> QED BY <2>1, ElementOfSeq, HeadTailProperties
<1>2. /\ less \in Seq(Seq(S)) /\ Len(less) = d - 1
      /\ \A i \in 1..(d - 1) : less[i] = stack[i + 1]
  BY HeadTailProperties
<1>3. <<s>> \in Seq(Seq(S)) /\ Len(<<s>>) = 1 /\ <<s>>[1] = s
  OBVIOUS
<1>4. /\ Len(one) = 1 + (d - 1)
      /\ \A i \in 1..(1 + (d - 1)) : one[i] = IF i <= 1 THEN <<s>>[i] ELSE less[i - 1]
  BY <1>2, <1>3, ConcatProperties
<1>5. /\ Len(two) = 1 + d
      /\ \A i \in 1..(1 + d) : two[i] = IF i <= 1 THEN <<s>>[i] ELSE stack[i - 1]
  BY <1>3, ConcatProperties
<1> HIDE DEF d, less, one, two
<1>6. Lv(stack, d) = Head(stack) /\ \A j \in 1..d : Lv(stack, j) \in Seq(S)
  <2>1. (d + 1) - d = 1 /\ \A j \in 1..d : (d + 1) - j \in 1..d
    BY <1>1
  <2> QED BY <2>1, <1>1 DEF Lv, d
<1>7. Len(one) = d /\ Lv(one, d) = s /\ \A j \in 1..(d - 1) : Lv(one, j) = Lv(stack, j)
  <2>1. Len(one) = d
    BY <1>1, <1>4
  <2>2. (d + 1) - d = 1 /\ 1 \in 1..(1 + (d - 1))
    BY <1>1
  <2>3. ASSUME NEW j \in 1..(d - 1) PROVE one[(d + 1) - j] = stack[(d + 1) - j]
    <3>1. (d + 1) - j \in 1..(1 + (d - 1)) /\ ~((d + 1) - j <= 1) /\ ((d + 1) - j) - 1 \in 1..(d - 1)
          /\ (((d + 1) - j) - 1) + 1 = (d + 1) - j
      BY <1>1
    <3> QED BY <3>1, <1>2, <1>4
  <2> QED BY <2>1, <2>2, <2>3, <1>3, <1>4 DEF Lv, d
<1>8. Len(two) = d + 1 /\ Lv(two, d + 1) = s /\ \A j \in 1..d : Lv(two, j) = Lv(stack, j)
  <2>1. Len(two) = d + 1
    BY <1>1, <1>5
  <2>2. ((d + 1) + 1) - (d + 1) = 1 /\ 1 \in 1..(1 + d)
    BY <1>1
  <2>3. ASSUME NEW j \in 1..d PROVE two[((d + 1) + 1) - j] = stack[(d + 1) - j]
    <3>1. ((d + 1) + 1) - j \in 1..(1 + d) /\ ~(((d + 1) + 1) - j <= 1) /\ (((d + 1) + 1) - j) - 1 = (d + 1) - j
      BY <1>1
    <3> QED BY <3>1, <1>5
  <2> QED BY <2>1, <2>2, <2>3, <1>3, <1>5 DEF Lv, d
<1>9. Len(less) = d - 1 /\ \A j \in 1..(d - 1) : Lv(less, j) = Lv(stack, j)
  <2>1. ASSUME NEW j \in 1..(d - 1) PROVE less[((d - 1) + 1) - j] = stack[(d + 1) - j]
    <3>1. ((d - 1) + 1) - j \in 1..(d - 1) /\ (((d - 1) + 1) - j) + 1 = (d + 1) - j
      BY <1>1
    <3> QED BY <3>1, <1>2
  <2> QED BY <2>1, <1>2 DEF Lv, d
<1> QED BY <1>1, <1>6, <1>7, <1>8, <1>9 DEF d, less, one, two

\* What becomes of the stack when the innermost parts are others, when a
\* composite is begun, and when one is at its end.
Exchanges(stack2, stack, s) == stack2 = <<s>> \o Tail(stack)
Descends(stack2, stack, s, t) == stack2 = <<t>> \o (<<s>> \o Tail(stack))
Ascends(stack2, stack) == stack2 = Tail(stack)

LEMMA LevelExchanged ==
  ASSUME NEW S, NEW stack \in Seq(Seq(S)), stack # <<>>, NEW s \in Seq(S),
         NEW stack2, Exchanges(stack2, stack, s)
  PROVE  LET d == Len(stack) IN
         /\ d \in Nat /\ d >= 1 /\ Lv(stack, d) = Head(stack)
         /\ Len(stack2) = d /\ Lv(stack2, d) = s
         /\ \A j \in 1..(d - 1) : Lv(stack2, j) = Lv(stack, j)
         /\ stack2 \in Seq(Seq(S)) /\ stack2 # <<>>
<1>1. stack2 = <<s>> \o Tail(stack)
  BY DEF Exchanges
<1>2. stack2 \in Seq(Seq(S)) /\ stack2 # <<>>
  BY <1>1, Replaced
<1> QED BY <1>1, <1>2, Levels

LEMMA LevelBegun ==
  ASSUME NEW S, NEW stack \in Seq(Seq(S)), stack # <<>>, NEW s \in Seq(S), NEW t \in Seq(S),
         NEW stack2, Descends(stack2, stack, s, t)
  PROVE  LET d == Len(stack) IN
         /\ d \in Nat /\ d >= 1 /\ Lv(stack, d) = Head(stack)
         /\ Len(stack2) = d + 1 /\ Lv(stack2, d + 1) = t /\ Lv(stack2, d) = s
         /\ \A j \in 1..(d - 1) : Lv(stack2, j) = Lv(stack, j)
<1> DEFINE one == <<s>> \o Tail(stack)
           d == Len(stack)
<1>1. Exchanges(one, stack, s)
  BY DEF Exchanges
<1>2. stack2 = <<t>> \o one
  BY DEF Descends
<1> HIDE DEF one
<1>3. /\ d \in Nat /\ d >= 1 /\ Lv(stack, d) = Head(stack) /\ Len(one) = d /\ Lv(one, d) = s
      /\ \A j \in 1..(d - 1) : Lv(one, j) = Lv(stack, j)
      /\ one \in Seq(Seq(S)) /\ one # <<>>
  BY <1>1, LevelExchanged
<1> HIDE DEF d
<1>4. Len(<<t>> \o one) = d + 1 /\ Lv(<<t>> \o one, d + 1) = t
  BY <1>3, Levels
<1>5. \A j \in 1..d : Lv(<<t>> \o one, j) = Lv(one, j)
  BY <1>3, Levels
<1>6. d \in 1..d /\ \A j \in 1..(d - 1) : j \in 1..d
  BY <1>3
<1> QED BY <1>2, <1>3, <1>4, <1>5, <1>6 DEF d

LEMMA LevelEnded ==
  ASSUME NEW S, NEW stack \in Seq(Seq(S)), stack # <<>>, NEW stack2, Ascends(stack2, stack)
  PROVE  LET d == Len(stack) IN
         /\ d \in Nat /\ d >= 1 /\ Lv(stack, d) = Head(stack)
         /\ Len(stack2) = d - 1
         /\ \A j \in 1..(d - 1) : Lv(stack2, j) = Lv(stack, j)
<1>1. <<>> \in Seq(S)
  OBVIOUS
<1> QED BY <1>1, Levels DEF Ascends

\* How a value lies in the cells p to q - 1; its parts are among those of L.
Coded(v, p) == IF v.kind = "struct" THEN p + 1 ELSE p

LiesAsScalar(out, v, p, q) ==
  v.kind \in Scalars /\ q = p + 1 /\ out[p] = Cell(v.kind, v.n)

LiesAsEmpty(out, v, c, q) ==
  v.kind \in Lists /\ v.items = <<>> /\ q = c + 1 /\ out[c].tag = "list0"

Chained(L, items, pos, c, q) ==
  /\ pos \in [1..(Len(items) + 1) -> Nat]
  /\ pos[1] = c /\ pos[Len(items) + 1] = q
  /\ \A i \in 1..Len(items) : <<items[i], pos[i], pos[i + 1]>> \in L
  /\ \A i \in 1..(Len(items) + 1) : pos[i] <= q

LiesAsSized(L, out, v, c, q) ==
  /\ v.kind \in Lists \cup {"map"}
  /\ out[c].tag \in IF v.kind = "map" THEN {"map8", "map32"} ELSE {"list8", "list32"}
  /\ c + 3 <= q
  /\ out[c + 1].tag = "size" /\ out[c + 1].n = q - c - 2
  /\ out[c + 2] = Cell("count", Len(v.items))
  /\ \E pos : Chained(L, v.items, pos, c + 3, q)

LiesAsArray8(out, v, p, q) ==
  LET n == Len(v.items) IN
  /\ v.kind = "array8" /\ q = p + 4 + n
  /\ out[p].tag = "array8" /\ out[p + 1] = Cell("size", n + 2) /\ out[p + 2] = Cell("count", n)
  /\ out[p + 3].tag = IF n = 0 THEN "str" ELSE v.items[1].kind
  /\ out[p + 3].tag \in {"int", "fixed", "str"}
  /\ \A i \in 1..n : v.items[i].kind = out[p + 3].tag
  /\ \A k \in (p + 4)..(p + 3 + n) : out[k] = Cell("data", v.items[k - p - 3].n)

LiesAsArray32(out, v, p, q) ==
  v.kind = "array32" /\ p + 3 <= q /\ out[p].tag = "array32" /\ out[p + 2] = Cell("count", Len(v.items))

Lies(L, out, v, p, q) ==
  /\ v \in Values /\ p \in Nat /\ q \in Nat
  /\ 1 <= p /\ Coded(v, p) < q /\ q <= Len(out) + 1
  /\ v.kind = "struct" => out[p].tag = "described"
  /\ \/ LiesAsScalar(out, v, p, q)
     \/ LiesAsEmpty(out, v, Coded(v, p), q)
     \/ LiesAsSized(L, out, v, Coded(v, p), q)
     \/ LiesAsArray8(out, v, p, q)
     \/ LiesAsArray32(out, v, p, q)

Laid(L, out) == L \subseteq Values \X Nat \X Nat /\ \A s \in L : Lies(L, out, s[1], s[2], s[3])

\* What lies somewhere stays as it is when more is written, or a size that
\* was open.
LEMMA LiesStill ==
  ASSUME NEW out \in Seq(Cells), NEW out2 \in Seq(Cells), Len(out2) >= Len(out),
         \A i \in 1..Len(out) : IsOpen(out, i) \/ out2[i] = out[i],
         NEW L, NEW L2, L \subseteq L2, NEW v, NEW p, NEW q, Lies(L, out, v, p, q)
  PROVE  Lies(L2, out2, v, p, q)
<1> DEFINE c == Coded(v, p)
           n == Len(v.items)
<1>1. /\ v \in Values /\ p \in Nat /\ q \in Nat /\ 1 <= p /\ c < q /\ q <= Len(out) + 1
      /\ Len(out) \in Nat /\ Len(out2) \in Nat /\ c \in Nat /\ p <= c /\ q <= Len(out2) + 1
      /\ v.kind = "struct" => p < c
  BY LenProperties DEF Lies, Coded
<1>2. n \in Nat
  BY <1>1, ValueParts, LenProperties
<1>3. \A i \in 1..Len(out) : out[i].tag # "size" \/ out[i].n # 0 => out2[i] = out[i]
  BY DEF IsOpen
<1> HIDE DEF c, n
<1>4. v.kind = "struct" => out2[p].tag = "described"
  <2>1. ASSUME v.kind = "struct" PROVE out2[p].tag = "described"
    <3>1. p \in 1..Len(out) /\ out[p].tag = "described"
      BY <2>1, <1>1 DEF Lies
    <3> QED BY <3>1, <1>3
  <2> QED BY <2>1
<1>5. CASE LiesAsScalar(out, v, p, q)
  <2>1. p \in 1..Len(out)
    BY <1>1
  <2>2. out[p].tag # "size"
    BY <1>5 DEF LiesAsScalar, Cell, Scalars
  <2>3. LiesAsScalar(out2, v, p, q)
    BY <1>5, <2>1, <2>2, <1>3 DEF LiesAsScalar
  <2> QED BY <2>3, <1>1, <1>4 DEF Lies, c
<1>6. CASE LiesAsEmpty(out, v, c, q)
  <2>1. c \in 1..Len(out)
    BY <1>1
  <2>2. LiesAsEmpty(out2, v, c, q)
    BY <1>6, <2>1, <1>3 DEF LiesAsEmpty
  <2> QED BY <2>2, <1>1, <1>4 DEF Lies, c
<1>7. CASE LiesAsSized(L, out, v, c, q)
  <2>0. /\ c + 3 <= q /\ out[c + 1].n = q - c - 2 /\ out[c + 2] = Cell("count", Len(v.items))
        /\ out[c].tag \in {"map8", "map32", "list8", "list32"}
    BY <1>7 DEF LiesAsSized
  <2>1. c \in 1..Len(out) /\ c + 1 \in 1..Len(out) /\ c + 2 \in 1..Len(out)
    BY <1>1, <2>0
  <2>2. out[c].tag # "size" /\ out[c + 2].tag # "size" /\ out[c + 1].n # 0
    BY <1>1, <2>0 DEF Cell
  <2>3. out2[c] = out[c] /\ out2[c + 1] = out[c + 1] /\ out2[c + 2] = out[c + 2]
    BY <2>1, <2>2, <1>3
  <2>4. LiesAsSized(L2, out2, v, c, q)
    BY <1>7, <2>3 DEF LiesAsSized, Chained
  <2> QED BY <2>4, <1>1, <1>4 DEF Lies, c
<1>8. CASE LiesAsArray8(out, v, p, q)
  <2>1. /\ q = p + 4 + n /\ out[p].tag = "array8" /\ out[p + 1] = Cell("size", n + 2)
        /\ out[p + 2] = Cell("count", n) /\ out[p + 3].tag \in {"int", "fixed", "str"}
        /\ \A k \in (p + 4)..(p + 3 + n) : out[k] = Cell("data", v.items[k - p - 3].n)
    BY <1>8 DEF LiesAsArray8, n
  <2>2. /\ p \in 1..Len(out) /\ p + 1 \in 1..Len(out) /\ p + 2 \in 1..Len(out) /\ p + 3 \in 1..Len(out)
        /\ \A k \in (p + 4)..(p + 3 + n) : k \in 1..Len(out)
    <3>0. n \in Nat
      BY <1>2
    <3>1. p \in Nat /\ Len(out) \in Nat /\ 1 <= p /\ q - 1 <= Len(out) /\ q \in Nat
      BY <1>1
    <3>2. q = p + 4 + n
      BY <2>1
    <3> QED BY ONLY <3>0, <3>1, <3>2
  <2>3. /\ out[p].tag # "size" /\ out[p + 1].n # 0 /\ out[p + 2].tag # "size" /\ out[p + 3].tag # "size"
        /\ \A k \in (p + 4)..(p + 3 + n) : out[k].tag # "size"
    <3>1. out[p + 1].n = n + 2 /\ out[p + 2].tag = "count"
      BY <2>1 DEF Cell
    <3>2. ASSUME NEW k \in (p + 4)..(p + 3 + n) PROVE out[k].tag = "data"
      <4>1. out[k] = Cell("data", v.items[k - p - 3].n)
        BY <2>1
      <4> QED BY <4>1 DEF Cell
    <3>3. n + 2 # 0
      BY <1>2
    <3>4. out[p].tag = "array8" /\ out[p + 3].tag \in {"int", "fixed", "str"}
      BY <2>1
    <3> QED BY <3>1, <3>2, <3>3, <3>4
  <2>4. /\ out2[p] = out[p] /\ out2[p + 1] = out[p + 1] /\ out2[p + 2] = out[p + 2] /\ out2[p + 3] = out[p + 3]
        /\ \A k \in (p + 4)..(p + 3 + n) : out2[k] = out[k]
    BY <2>2, <2>3, <1>3
  <2>5. LiesAsArray8(out2, v, p, q)
    BY <1>8, <2>4 DEF LiesAsArray8, n
  <2> QED BY <2>5, <1>1, <1>4 DEF Lies, c
<1>9. CASE LiesAsArray32(out, v, p, q)
  <2>1. p \in 1..Len(out) /\ p + 2 \in 1..Len(out)
    BY <1>1, <1>9 DEF LiesAsArray32
  <2>2. out[p].tag # "size" /\ out[p + 2].tag # "size"
    BY <1>9 DEF LiesAsArray32, Cell
  <2>3. LiesAsArray32(out2, v, p, q)
    BY <1>9, <2>1, <2>2, <1>3 DEF LiesAsArray32
  <2> QED BY <2>3, <1>1, <1>4 DEF Lies, c
<1> QED BY <1>5, <1>6, <1>7, <1>8, <1>9 DEF Lies, c

LEMMA LaidStill ==
  ASSUME NEW out \in Seq(Cells), NEW out2 \in Seq(Cells), Len(out2) >= Len(out),
         \A i \in 1..Len(out) : IsOpen(out, i) \/ out2[i] = out[i],
         NEW L, Laid(L, out), NEW v, NEW p, NEW q, Lies(L, out2, v, p, q)
  PROVE  Laid(L \cup {<<v, p, q>>}, out2)
<1> DEFINE M == L \cup {<<v, p, q>>}
<1>1. v \in Values /\ p \in Nat /\ q \in Nat
  BY DEF Lies
<1>2. M \subseteq Values \X Nat \X Nat
  BY <1>1 DEF Laid
<1>3. ASSUME NEW s \in L PROVE Lies(M, out2, s[1], s[2], s[3])
  <2>1. Lies(L, out, s[1], s[2], s[3])
    BY DEF Laid
  <2> QED BY <2>1, LiesStill
<1>4. Lies(M, out2, v, p, q)
  <2>1. \A i \in 1..Len(out2) : IsOpen(out2, i) \/ out2[i] = out2[i]
    OBVIOUS
  <2>2. Len(out2) >= Len(out2)
    BY LenProperties
  <2> QED BY <2>1, <2>2, LiesStill
<1>5. \A s \in M : Lies(M, out2, s[1], s[2], s[3])
  <2> SUFFICES ASSUME NEW s \in M, s \notin L PROVE Lies(M, out2, s[1], s[2], s[3])
    BY <1>3
  <2>1. s = <<v, p, q>>
    OBVIOUS
  <2> QED BY <2>1, <1>4
<1> QED BY <1>2, <1>5 DEF Laid

\* A composite of which m parts are written, and those that remain after e.
Pending(L, items, m, pos) ==
  /\ items \in Seq(Values) /\ m \in Nat
  /\ pos \in [1..(m + 1) -> Nat]
  /\ \A i \in 1..m : <<items[i], pos[i], pos[i + 1]>> \in L
  /\ \A i \in 1..(m + 1) : pos[i] <= pos[m + 1]

Remains(items, e, rest) ==
  Len(items) = e + Len(rest) /\ \A i \in 1..Len(rest) : rest[i] = items[e + i]

Longer(pos, m, q) == [i \in 1..(m + 2) |-> IF i = m + 2 THEN q ELSE pos[i]]

LEMMA PendingStill ==
  ASSUME NEW L, NEW L2, L \subseteq L2, NEW items, NEW m, NEW pos, Pending(L, items, m, pos)
  PROVE  Pending(L2, items, m, pos)
BY DEF Pending

LEMMA Extended ==
  ASSUME NEW L, NEW items, NEW m, NEW pos, Pending(L, items, m, pos),
         NEW q \in Nat, pos[m + 1] <= q, <<items[m + 1], pos[m + 1], q>> \in L
  PROVE  /\ Pending(L, items, m + 1, Longer(pos, m, q))
         /\ Longer(pos, m, q)[m + 2] = q /\ Longer(pos, m, q)[1] = pos[1]
<1> DEFINE more == Longer(pos, m, q)
<1>1. m \in Nat /\ items \in Seq(Values) /\ \A i \in 1..(m + 1) : pos[i] \in Nat /\ pos[i] <= pos[m + 1]
  BY DEF Pending
<1>2. /\ \A i \in 1..(m + 2) : more[i] = IF i = m + 2 THEN q ELSE pos[i]
      /\ DOMAIN more = 1..(m + 2)
  BY DEF Longer
<1>3. more[m + 2] = q
  BY <1>1, <1>2
<1>4. \A i \in 1..(m + 1) : more[i] = pos[i]
  BY <1>1, <1>2
<1>5. more \in [1..((m + 1) + 1) -> Nat]
  <2>1. \A i \in 1..(m + 2) : more[i] \in Nat
    BY <1>1, <1>2
  <2>2. (m + 1) + 1 = m + 2
    BY <1>1
  <2> QED BY <2>1, <2>2 DEF Longer
<1> HIDE DEF more
<1>6. ASSUME NEW i \in 1..(m + 1) PROVE <<items[i], more[i], more[i + 1]>> \in L
  <2>1. CASE i = m + 1
    <3>1. i + 1 = m + 2 /\ more[i] = pos[m + 1]
      BY <2>1, <1>1, <1>4
    <3> QED BY <2>1, <3>1, <1>3
  <2>2. CASE i # m + 1
    <3>1. i \in 1..m /\ i + 1 \in 1..(m + 1)
      BY <2>2, <1>1
    <3>2. <<items[i], pos[i], pos[i + 1]>> \in L
      BY <3>1 DEF Pending
    <3> QED BY <3>1, <3>2, <1>4
  <2> QED BY <2>1, <2>2
<1>7. ASSUME NEW i \in 1..(m + 2) PROVE more[i] <= q
  <2>1. CASE i = m + 2
    BY <2>1, <1>3
  <2>2. CASE i # m + 2
    <3>1. i \in 1..(m + 1)
      BY <2>2, <1>1
    <3>2. pos[i] \in Nat /\ pos[i] <= pos[m + 1] /\ pos[m + 1] \in Nat
      BY <3>1, <1>1
    <3> QED BY <3>1, <3>2, <1>4
  <2> QED BY <2>1, <2>2
<1>8. Pending(L, items, m + 1, more)
  <2>1. (m + 1) + 1 = m + 2 /\ m + 1 \in Nat
    BY <1>1
  <2> QED BY <2>1, <1>1, <1>3, <1>5, <1>6, <1>7 DEF Pending
<1>9. 1 \in 1..(m + 1)
  BY <1>1
<1> QED BY <1>3, <1>4, <1>8, <1>9 DEF more

\* The cells that begin a composite whose size is at o, of which a part or
\* none is written.
Kinds(v) == IF v.kind = "array32" THEN {"array32"}
            ELSE IF v.kind = "map" THEN {"map8", "map32"} ELSE {"list8", "list32"}

Begins(f, out, o) ==
  LET c == Coded(f.of, f.at) IN
  /\ f.of \in Values /\ f.of.kind \in Lists \cup {"map", "array32"}
  /\ f.at \in Nat /\ 1 <= f.at
  /\ f.of.kind = "struct" => out[f.at].tag = "described"
  /\ out[c].tag \in Kinds(f.of)
  /\ o = c + 1 /\ out[c + 2] = Cell("count", Len(f.of.items)) /\ c + 2 <= Len(out)
  /\ f.pos[1] = c + 3

LEMMA BeginsStill ==
  ASSUME NEW out \in Seq(Cells), NEW out2 \in Seq(Cells), Len(out2) >= Len(out),
         \A i \in 1..Len(out) : IsOpen(out, i) \/ out2[i] = out[i],
         NEW f, NEW o, Begins(f, out, o)
  PROVE  Begins(f, out2, o)
<1> DEFINE c == Coded(f.of, f.at)
<1>1. /\ f.at \in Nat /\ 1 <= f.at /\ c + 2 <= Len(out) /\ c \in Nat /\ f.at <= c
      /\ Len(out) \in Nat /\ Len(out2) \in Nat
  <2>1. /\ f.at \in Nat /\ 1 <= f.at /\ c + 2 <= Len(out)
    BY DEF Begins
  <2>2. c \in Nat /\ f.at <= c
    BY <2>1 DEF Coded
  <2>3. Len(out) \in Nat /\ Len(out2) \in Nat
    BY LenProperties
  <2> QED BY <2>1, <2>2, <2>3
<1>2. f.at \in 1..Len(out) /\ c \in 1..Len(out) /\ c + 2 \in 1..Len(out)
  BY <1>1
<1>3. out[c].tag # "size" /\ out[c + 2].tag # "size"
  <2>1. out[c].tag \in Kinds(f.of) /\ out[c + 2] = Cell("count", Len(f.of.items))
    BY DEF Begins
  <2> HIDE DEF c
  <2>2. Kinds(f.of) \subseteq {"array32", "map8", "map32", "list8", "list32"}
    BY DEF Kinds
  <2>3. Cell("count", Len(f.of.items)).tag = "count"
    BY DEF Cell
  <2> QED BY <2>1, <2>2, <2>3
<1>4. f.of.kind = "struct" => out[f.at].tag # "size"
  BY DEF Begins
<1>5. out2[c] = out[c] /\ out2[c + 2] = out[c + 2] /\ (f.of.kind = "struct" => out2[f.at] = out[f.at])
  BY <1>2, <1>3, <1>4 DEF IsOpen
<1>6. c + 2 <= Len(out2)
  BY <1>1
<1> QED BY <1>5, <1>6 DEF Begins

\* The composites being written, outermost first: of each, what it is of,
\* where it begins, how many of its parts are done and where they are.  The
\* first stands for the whole output.
WritingAs(L, F, root, out, offs, stack) ==
  LET d == Len(stack) IN
  /\ Laid(L, out)
  /\ F[1].of.items = <<root>> /\ F[1].pos[1] = 1
  /\ \A j \in 1..d : Pending(L, F[j].of.items, F[j].done, F[j].pos)
  /\ \A j \in 2..d : Begins(F[j], out, offs[j - 1])
  /\ \A j \in 1..(d - 1) :
       /\ F[j].pos[F[j].done + 1] = F[j + 1].at
       /\ F[j].of.items[F[j].done + 1] = F[j + 1].of
       /\ Remains(F[j].of.items, F[j].done + 1, Lv(stack, j))
  /\ F[d].pos[F[d].done + 1] = Len(out) + 1
  /\ Remains(F[d].of.items, F[d].done, Lv(stack, d))

WrittenInv ==
  /\ phase = "write" => \E L, F : WritingAs(L, F, value, output, offsets, todo)
  /\ phase # "write" => \E L : Laid(L, output) /\ <<value, 1, Len(output) + 1>> \in L

LEMMA BeginsSame ==
  ASSUME NEW f, NEW g, f.of = g.of, f.at = g.at, f.pos[1] = g.pos[1],
         NEW out, NEW o, Begins(f, out, o)
  PROVE  Begins(g, out, o)
BY DEF Begins

\* A part of the innermost composite lies behind what was written.
Further(f, q) == [of |-> f.of, at |-> f.at, done |-> f.done + 1, pos |-> Longer(f.pos, f.done, q)]

LEMMA PartLies ==
  ASSUME CompositeInv, phase = "write", Parts # <<>>,
         NEW L, NEW F, WritingAs(L, F, value, output, offsets, todo),
         NEW more \in Seq(Cells), output' = output \o more, todo' = Others,
         Lies(L, output', Part, Len(output) + 1, Len(output') + 1),
         UNCHANGED <<writer, value, type, phase, offsets, windows, decoded>>
  PROVE  WrittenInv'
<1> DEFINE d == Len(todo)
           p == Len(output) + 1
           q == Len(output') + 1
           L2 == L \cup {<<Part, p, q>>}
           F2 == [j \in 1..d |-> IF j = d THEN Further(F[d], q) ELSE F[j]]
           g == F[d]
<1>1. todo \in Seq(Seq(Values)) /\ todo # <<>> /\ output \in Seq(Cells)
  BY DEF CompositeInv, TypeOK, Cells
<1>2. Parts \in Seq(Values) /\ Tail(Parts) \in Seq(Values) /\ Part \in Values
  BY <1>1, Stack DEF Trees
<1>3. /\ output' \in Seq(Cells) /\ Len(output') >= Len(output)
      /\ Len(output) \in Nat /\ Len(output') \in Nat
      /\ \A i \in 1..Len(output) : output'[i] = output[i]
  <2>1. /\ output' \in Seq(Cells) /\ Len(output') = Len(output) + Len(more)
        /\ Len(output) \in Nat /\ Len(more) \in Nat
        /\ \A i \in 1..(Len(output) + Len(more)) : i <= Len(output) => output'[i] = output[i]
    BY <1>1, Concat
  <2> QED BY <2>1
<1>4. /\ d \in Nat /\ d >= 1 /\ Lv(todo, d) = Parts
      /\ Len(todo') = d /\ Lv(todo', d) = Tail(Parts)
      /\ \A j \in 1..(d - 1) : Lv(todo', j) = Lv(todo, j)
  <2>1. Exchanges(todo', todo, Tail(Parts)) /\ Parts = Head(todo)
    BY DEF Others, Parts, Exchanges
  <2> DEFINE rest == Tail(Parts)
  <2>2. todo \in Seq(Seq(Values)) /\ todo # <<>> /\ rest \in Seq(Values)
    BY <1>1, <1>2
  <2>3. Exchanges(todo', todo, rest)
    BY <2>1
  <2> HIDE DEF rest
  <2>4. /\ d \in Nat /\ d >= 1 /\ Lv(todo, d) = Head(todo) /\ Len(todo') = d /\ Lv(todo', d) = rest
        /\ \A j \in 1..(d - 1) : Lv(todo', j) = Lv(todo, j)
    BY <2>2, <2>3, LevelExchanged
  <2> QED BY <2>1, <2>4 DEF rest
<1>5. /\ Pending(L, g.of.items, g.done, g.pos) /\ g.pos[g.done + 1] = p
      /\ Remains(g.of.items, g.done, Parts)
  BY <1>4 DEF WritingAs
<1> HIDE DEF g
<1>6. /\ Len(Parts) \in Nat /\ Len(Parts) >= 1 /\ Parts[1] = Part
      /\ Len(Tail(Parts)) = Len(Parts) - 1
      /\ \A i \in 1..(Len(Parts) - 1) : Tail(Parts)[i] = Parts[i + 1]
  <2>1. Len(Parts) \in Nat /\ Len(Parts) # 0
    BY <1>2, LenProperties, EmptySeq
  <2> QED BY <2>1, <1>2, HeadTailProperties DEF Part
<1>7. g.of.items[g.done + 1] = Part
  BY <1>5, <1>6 DEF Remains
<1>8. Laid(L2, output')
  BY <1>1, <1>3, LaidStill DEF WritingAs
<1>9. /\ Pending(L2, g.of.items, g.done + 1, Longer(g.pos, g.done, q))
      /\ Longer(g.pos, g.done, q)[g.done + 2] = q /\ Longer(g.pos, g.done, q)[1] = g.pos[1]
  <2>1. q \in Nat /\ p <= q
    BY <1>3
  <2>2. <<g.of.items[g.done + 1], g.pos[g.done + 1], q>> \in L2
    BY <1>5, <1>7
  <2>3. Pending(L2, g.of.items, g.done, g.pos)
    BY <1>5, PendingStill
  <2> HIDE DEF L2, p, q
  <2> QED BY <2>1, <2>2, <2>3, <1>5, Extended
<1>10. Remains(g.of.items, g.done + 1, Tail(Parts))
  <2>1. Len(g.of.items) = g.done + 1 + Len(Tail(Parts))
    BY <1>5, <1>6 DEF Remains, Pending
  <2>2. ASSUME NEW i \in 1..Len(Tail(Parts)) PROVE Tail(Parts)[i] = g.of.items[g.done + 1 + i]
    <3>1. i + 1 \in 1..Len(Parts) /\ i \in 1..(Len(Parts) - 1)
      BY <1>6
    <3>2. Parts[i + 1] = g.of.items[g.done + (i + 1)]
      BY <3>1, <1>5 DEF Remains
    <3>3. g.done + (i + 1) = g.done + 1 + i
      <4>1. g.done \in Nat /\ i \in Nat
        BY <3>1, <1>5, <1>6 DEF Pending
      <4> QED BY ONLY <4>1
    <3> QED BY <3>1, <3>2, <3>3, <1>6
  <2> QED BY <2>1, <2>2 DEF Remains
<1>11. /\ F2[d] = Further(g, q) /\ d \in 1..d
       /\ \A j \in 1..(d - 1) : j \in 1..d /\ F2[j] = F[j] /\ j # d
  BY <1>4 DEF g
<1>12. /\ F2[d].of = g.of /\ F2[d].at = g.at /\ F2[d].done = g.done + 1
       /\ F2[d].pos = Longer(g.pos, g.done, q)
  BY <1>11 DEF Further
<1> HIDE DEF F2
<1>13. \A j \in 1..d : F2[j].of = F[j].of /\ F2[j].at = F[j].at /\ F2[j].pos[1] = F[j].pos[1]
  <2>1. F2[d].of = F[d].of /\ F2[d].at = F[d].at /\ F2[d].pos[1] = F[d].pos[1]
    BY <1>9, <1>12 DEF g
  <2>2. \A j \in 1..(d - 1) : F2[j] = F[j]
    BY <1>11
  <2>3. \A j \in 1..d : j = d \/ j \in 1..(d - 1)
    BY <1>4
  <2> QED BY <2>1, <2>2, <2>3
<1>14. ASSUME NEW j \in 1..d PROVE Pending(L2, F2[j].of.items, F2[j].done, F2[j].pos)
  <2>1. CASE j = d
    BY <2>1, <1>9, <1>12
  <2>2. CASE j # d
    <3>1. F2[j] = F[j] /\ Pending(L, F[j].of.items, F[j].done, F[j].pos)
      BY <2>2, <1>4, <1>11 DEF WritingAs
    <3> QED BY <3>1 DEF Pending
  <2> QED BY <2>1, <2>2
<1>15. ASSUME NEW j \in 2..d PROVE Begins(F2[j], output', offsets'[j - 1])
  <2>1. Begins(F[j], output, offsets[j - 1])
    BY DEF WritingAs
  <2>2. Begins(F[j], output', offsets[j - 1])
    BY <1>1, <1>3, <2>1, BeginsStill
  <2>3. j \in 1..d
    BY <1>4
  <2> QED BY <2>2, <2>3, <1>13, BeginsSame
<1>16. ASSUME NEW j \in 1..(d - 1)
       PROVE  /\ F2[j].pos[F2[j].done + 1] = F2[j + 1].at
              /\ F2[j].of.items[F2[j].done + 1] = F2[j + 1].of
              /\ Remains(F2[j].of.items, F2[j].done + 1, Lv(todo', j))
  <2>1. j + 1 \in 1..d
    BY <1>4
  <2> QED BY <2>1, <1>4, <1>11, <1>13 DEF WritingAs
<1>17. F2[d].pos[F2[d].done + 1] = q /\ Remains(F2[d].of.items, F2[d].done, Lv(todo', d))
  <2>1. (g.done + 1) + 1 = g.done + 2
    BY <1>5 DEF Pending
  <2> QED BY <2>1, <1>4, <1>9, <1>10, <1>12
<1>18. F2[1].of.items = <<value>> /\ F2[1].pos[1] = 1
  BY <1>4, <1>13 DEF WritingAs
<1> HIDE DEF L2
<1>19. WritingAs(L2, F2, value', output', offsets', todo')
  BY <1>4, <1>8, <1>14, <1>15, <1>16, <1>17, <1>18 DEF WritingAs
<1> QED BY <1>19 DEF WrittenInv

\* What lies where stays so.
LEMMA LaidOn ==
  ASSUME NEW out \in Seq(Cells), NEW out2 \in Seq(Cells), Len(out2) >= Len(out),
         \A i \in 1..Len(out) : IsOpen(out, i) \/ out2[i] = out[i],
         NEW L, Laid(L, out)
  PROVE  Laid(L, out2)
<1>1. ASSUME NEW s \in L PROVE Lies(L, out2, s[1], s[2], s[3])
  <2>1. Lies(L, out, s[1], s[2], s[3])
    BY DEF Laid
  <2> QED BY <2>1, LiesStill
<1> QED BY <1>1 DEF Laid

LEMMA WrittenInit == Init => WrittenInv
<1> SUFFICES ASSUME Init PROVE WrittenInv
  OBVIOUS
<1>1. /\ value \in Values /\ phase = "write" /\ todo = <<<<value>>>> /\ output = <<>>
  BY CasesAssumption DEF Init
<1> DEFINE pos == [i \in 1..1 |-> 1]
           f == [of |-> Node("list", 0, <<value>>), at |-> 0, done |-> 0, pos |-> pos]
           F == <<f>>
<1>2. F[1] = f /\ f.of.items = <<value>> /\ f.done = 0 /\ f.pos = pos
  BY DEF Node
<1>3. pos \in [1..1 -> Nat] /\ pos[1] = 1
  OBVIOUS
<1> HIDE DEF F, f, pos
<1>4. Pending({}, <<value>>, 0, pos)
  <2>1. <<value>> \in Seq(Values)
    BY <1>1
  <2> QED BY <2>1, <1>3 DEF Pending
<1>5. Remains(<<value>>, 0, <<value>>)
  BY DEF Remains
<1>6. Len(<<<<value>>>>) = 1 /\ Lv(<<<<value>>>>, 1) = <<value>> /\ Len(<<>>) = 0
  BY DEF Lv
<1>7. Laid({}, <<>>)
  BY DEF Laid
<1>8. WritingAs({}, F, value, <<>>, offsets, <<<<value>>>>)
  BY <1>2, <1>3, <1>4, <1>5, <1>6, <1>7 DEF WritingAs
<1> QED BY <1>1, <1>8 DEF WrittenInv

LEMMA WrittenWriteScalar == CompositeInv /\ WrittenInv /\ WriteScalar => WrittenInv'
<1> SUFFICES ASSUME CompositeInv, WrittenInv, WriteScalar PROVE WrittenInv'
  OBVIOUS
<1> DEFINE cell == Cell(Part.kind, Part.n)
           more == <<cell>>
           p == Len(output) + 1
<1>1. /\ phase = "write" /\ Parts # <<>> /\ Part.kind \in Scalars /\ todo' = Others
      /\ output' = Append(output, cell)
      /\ UNCHANGED <<writer, value, type, phase, offsets, windows, decoded>>
  BY DEF WriteScalar, Writing
<1>2. Part \in Values /\ output \in Seq(Cells)
  BY <1>1, Stack DEF CompositeInv, TypeOK, Trees, Cells
<1>3. cell \in Cells
  BY <1>1, <1>2, ValueParts DEF Cell, Cells, Tags
<1>4. PICK L, F : WritingAs(L, F, value, output, offsets, todo)
  BY <1>1 DEF WrittenInv
<1>5. Part.kind # "struct"
  BY <1>1 DEF Scalars
<1> HIDE DEF cell
<1>6. /\ more \in Seq(Cells) /\ output' = output \o more
  BY <1>1, <1>2, <1>3
<1>7. /\ Len(output) \in Nat /\ Len(output') = Len(output) + 1 /\ output'[p] = cell
  BY <1>1, <1>2, <1>3, AppendProperties, LenProperties
<1>8. LiesAsScalar(output', Part, p, p + 1)
  BY <1>1, <1>7 DEF LiesAsScalar, cell
<1>9. Lies(L, output', Part, p, p + 1)
  BY <1>2, <1>5, <1>7, <1>8 DEF Lies, Coded
<1> HIDE DEF more
<1>10. p + 1 = Len(output') + 1
  BY <1>7
<1> QED BY <1>1, <1>4, <1>6, <1>9, <1>10, PartLies

\* A descriptor, if there is one, and a format code.
LEMMA Lead ==
  ASSUME NEW out \in Seq(Cells), NEW v \in Values, NEW tag \in Tags
  PROVE  LET code == Append(Descriptor(v), Cell(tag, 0))
             out2 == out \o code
             p == Len(out) + 1
             c == Coded(v, p) IN
         /\ code \in Seq(Cells) /\ out2 \in Seq(Cells) /\ Len(out) \in Nat /\ Len(out2) = c /\ c \in Nat /\ p <= c
         /\ out2[c] = Cell(tag, 0)
         /\ v.kind = "struct" => out2[p].tag = "described"
         /\ \A i \in 1..Len(out) : out2[i] = out[i]
<1> DEFINE last == Cell(tag, 0)
           first == Cell("described", 0)
           code == Append(Descriptor(v), last)
           out2 == out \o code
           p == Len(out) + 1
           c == Coded(v, p)
<1>1. last \in Cells
  BY DEF Cell, Cells
<1>2. first \in Cells /\ first.tag = "described"
  BY DEF Cell, Cells, Tags
<1>3. Descriptor(v) = IF v.kind = "struct" THEN <<first>> ELSE <<>>
  BY DEF Descriptor
<1> HIDE DEF last, first
<1>4. CASE v.kind = "struct"
  <2>1. code \in Seq(Cells) /\ Len(code) = 2 /\ code[1] = first /\ code[2] = last
    <3>1. <<first>> \in Seq(Cells) /\ Len(<<first>>) = 1
      BY <1>2
    <3> QED BY <1>1, <1>3, <1>4, <3>1, AppendProperties
  <2> HIDE DEF code
  <2>2. /\ out2 \in Seq(Cells) /\ Len(out2) = Len(out) + Len(code) /\ Len(out) \in Nat
        /\ \A i \in 1..(Len(out) + Len(code)) :
             /\ i <= Len(out) => out2[i] = out[i]
             /\ i > Len(out) => out2[i] = code[i - Len(out)]
    BY <2>1, Concat
  <2> HIDE DEF out2
  <2>3. c = p + 1
    BY <1>4 DEF Coded
  <2>4. out2[p] = first /\ out2[p + 1] = last
    BY <2>1, <2>2
  <2> QED BY <1>2, <2>1, <2>2, <2>3, <2>4 DEF out2, code, last
<1>5. CASE v.kind # "struct"
  <2>1. code \in Seq(Cells) /\ Len(code) = 1 /\ code[1] = last
    BY <1>1, <1>3, <1>5
  <2> HIDE DEF code
  <2>2. /\ out2 \in Seq(Cells) /\ Len(out2) = Len(out) + Len(code) /\ Len(out) \in Nat
        /\ \A i \in 1..(Len(out) + Len(code)) :
             /\ i <= Len(out) => out2[i] = out[i]
             /\ i > Len(out) => out2[i] = code[i - Len(out)]
    BY <2>1, Concat
  <2> HIDE DEF out2
  <2>3. c = p
    BY <1>5 DEF Coded
  <2>4. out2[p] = last
    BY <2>1, <2>2
  <2> QED BY <1>5, <2>1, <2>2, <2>3, <2>4 DEF out2, code, last
<1> QED BY <1>4, <1>5

LEMMA WrittenPeerEmptyList == CompositeInv /\ WrittenInv /\ PeerEmptyList => WrittenInv'
<1> SUFFICES ASSUME CompositeInv, WrittenInv, PeerEmptyList PROVE WrittenInv'
  OBVIOUS
<1> DEFINE more == Append(Descriptor(Part), Cell("list0", 0))
           p == Len(output) + 1
           c == Coded(Part, p)
<1>1. /\ phase = "write" /\ Parts # <<>> /\ Part.kind \in Lists /\ Part.items = <<>>
      /\ todo' = Others /\ output' = output \o more
      /\ UNCHANGED <<writer, value, type, phase, offsets, windows, decoded>>
  BY DEF PeerEmptyList, Writing
<1>2. Part \in Values /\ output \in Seq(Cells)
  BY <1>1, Stack DEF CompositeInv, TypeOK, Trees, Cells
<1>3. PICK L, F : WritingAs(L, F, value, output, offsets, todo)
  BY <1>1 DEF WrittenInv
<1>4. /\ more \in Seq(Cells) /\ Len(output) \in Nat /\ Len(output') = c /\ c \in Nat /\ p <= c
      /\ output'[c] = Cell("list0", 0)
      /\ Part.kind = "struct" => output'[p].tag = "described"
  BY <1>1, <1>2, Lead DEF Tags
<1> HIDE DEF more, c
<1>5. LiesAsEmpty(output', Part, c, c + 1)
  BY <1>1, <1>4 DEF LiesAsEmpty, Cell
<1>6. Lies(L, output', Part, p, Len(output') + 1)
  BY <1>2, <1>4, <1>5 DEF Lies, c
<1> QED BY <1>1, <1>3, <1>4, <1>6, PartLies

LEMMA WrittenPeerArray == CompositeInv /\ WrittenInv /\ PeerArray => WrittenInv'
<1> SUFFICES ASSUME CompositeInv, WrittenInv, PeerArray PROVE WrittenInv'
  OBVIOUS
<1> DEFINE p == Len(output) + 1
           n == Len(Part.items)
           q == Len(output') + 1
<1>1. /\ phase = "write" /\ Parts # <<>> /\ Part.kind \in Arrays /\ todo' = Others
      /\ \A i \in DOMAIN Part.items : Part.items[i].kind \in {"int", "fixed", "str"} /\ Part.items[i].kind = Part.items[1].kind
      /\ UNCHANGED <<writer, value, type, phase, offsets, windows, decoded>>
  BY DEF PeerArray, Writing
<1>2. Part \in Values /\ output \in Seq(Cells)
  BY <1>1, Stack DEF CompositeInv, TypeOK, Trees, Cells
<1>3. PICK L, F : WritingAs(L, F, value, output, offsets, todo)
  BY <1>1 DEF WrittenInv
<1>4. PICK more \in Seq(Cells) :
        /\ output' = output \o more
        /\ Len(more) = 4 + n
        /\ more[1] = Cell(Part.kind, 0) /\ more[2] = Cell("size", n + 2) /\ more[3] = Cell("count", n)
        /\ more[4].tag = IF Part.items = <<>> THEN "str" ELSE Part.items[1].kind
        /\ \A k \in 5..(4 + n) : more[k] = Cell("data", Part.items[k - 4].n)
  BY ArrayCells
<1>5. Part.items \in Seq(Values) /\ n \in Nat /\ DOMAIN Part.items = 1..n /\ (n = 0 <=> Part.items = <<>>)
  BY <1>2, ValueParts, LenProperties, EmptySeq
<1>6. /\ Len(output) \in Nat /\ Len(output') = Len(output) + 4 + n
      /\ \A i \in 1..(Len(output) + Len(more)) : i > Len(output) => output'[i] = more[i - Len(output)]
  <2>1. /\ Len(output) \in Nat /\ Len(output') = Len(output) + Len(more)
        /\ \A i \in 1..(Len(output) + Len(more)) : i > Len(output) => output'[i] = more[i - Len(output)]
    BY <1>2, <1>4, Concat
  <2>2. Len(output) + Len(more) = Len(output) + 4 + n
    <3>1. Len(more) = 4 + n /\ n \in Nat /\ Len(output) \in Nat
      BY <2>1, <1>4, <1>5
    <3> HIDE DEF n
    <3> QED BY ONLY <3>1
  <2> QED BY <2>1, <2>2
<1>7. Part.kind # "struct"
  BY <1>1 DEF Arrays
<1> HIDE DEF n
<1>8. /\ output'[p] = Cell(Part.kind, 0) /\ output'[p + 1] = Cell("size", n + 2)
      /\ output'[p + 2] = Cell("count", n) /\ output'[p + 3].tag = more[4].tag
  <2>1. ASSUME NEW i \in 1..4 PROVE output'[Len(output) + i] = more[i]
    <3>1. /\ Len(output) + i \in 1..(Len(output) + Len(more)) /\ Len(output) + i > Len(output)
          /\ (Len(output) + i) - Len(output) = i
      BY <1>4, <1>5, <1>6
    <3> QED BY <3>1, <1>6
  <2>2. /\ p = Len(output) + 1 /\ p + 1 = Len(output) + 2 /\ p + 2 = Len(output) + 3 /\ p + 3 = Len(output) + 4
    BY <1>6
  <2>3. /\ output'[Len(output) + 1] = more[1] /\ output'[Len(output) + 2] = more[2]
        /\ output'[Len(output) + 3] = more[3] /\ output'[Len(output) + 4] = more[4]
    BY <2>1
  <2>4. /\ output'[p] = more[1] /\ output'[p + 1] = more[2] /\ output'[p + 2] = more[3] /\ output'[p + 3] = more[4]
    BY <2>2, <2>3
  <2> HIDE DEF p
  <2> QED BY <2>4, <1>4
<1>9. ASSUME NEW k \in (p + 4)..(p + 3 + n) PROVE output'[k] = Cell("data", Part.items[k - p - 3].n)
  <2>1. /\ k \in 1..(Len(output) + Len(more)) /\ k > Len(output)
        /\ k - Len(output) \in 5..(4 + n) /\ (k - Len(output)) - 4 = k - p - 3
    BY <1>4, <1>5, <1>6
  <2>2. output'[k] = more[k - Len(output)]
    BY <2>1, <1>6
  <2>3. more[k - Len(output)] = Cell("data", Part.items[(k - Len(output)) - 4].n)
    BY <2>1, <1>4
  <2> QED BY <2>1, <2>2, <2>3
<1>10. q = p + 4 + n /\ p \in Nat /\ q \in Nat /\ 1 <= p
  BY <1>5, <1>6
<1>11. Coded(Part, p) = p /\ p < q
  BY <1>5, <1>7, <1>10 DEF Coded
<1>12. CASE Part.kind = "array8"
  <2>1. /\ more[4].tag = (IF n = 0 THEN "str" ELSE Part.items[1].kind)
    BY <1>4, <1>5
  <2>2. more[4].tag \in {"int", "fixed", "str"}
    <3>1. CASE n = 0
      BY <3>1, <2>1
    <3>2. CASE n # 0
      <4>1. 1 \in DOMAIN Part.items
        BY <3>2, <1>5
      <4> QED BY <4>1, <3>2, <1>1, <2>1
    <3> QED BY <3>1, <3>2
  <2>3. ASSUME NEW i \in 1..n PROVE Part.items[i].kind = more[4].tag
    <3>1. n # 0
      BY <1>5
    <3> QED BY <3>1, <1>1, <1>5, <2>1
  <2>4. LiesAsArray8(output', Part, p, q)
    <3>1. output'[p].tag = "array8"
      BY <1>8, <1>12 DEF Cell
    <3> HIDE DEF p, q
    <3> QED BY <3>1, <1>8, <1>9, <1>10, <1>12, <2>1, <2>2, <2>3 DEF LiesAsArray8, n
  <2>5. Lies(L, output', Part, p, q)
    BY <1>2, <1>7, <1>10, <1>11, <2>4 DEF Lies
  <2> QED BY <1>1, <1>3, <1>4, <2>5, PartLies
<1>13. CASE Part.kind = "array32"
  <2>1. LiesAsArray32(output', Part, p, q)
    <3>1. output'[p].tag = "array32" /\ p + 3 <= q
      BY <1>5, <1>8, <1>10, <1>13 DEF Cell
    <3> HIDE DEF p, q
    <3> QED BY <3>1, <1>8, <1>13 DEF LiesAsArray32, n
  <2>2. Lies(L, output', Part, p, q)
    BY <1>2, <1>7, <1>10, <1>11, <2>1 DEF Lies
  <2> QED BY <1>1, <1>3, <1>4, <2>2, PartLies
<1> QED BY <1>1, <1>12, <1>13 DEF Arrays

\* The next of the parts that remain.
LEMMA NextRemains ==
  ASSUME NEW items, NEW e \in Nat, NEW S, NEW rest \in Seq(S), rest # <<>>, Remains(items, e, rest)
  PROVE  items[e + 1] = Head(rest) /\ Remains(items, e + 1, Tail(rest)) /\ Len(items) >= e + 1
<1> DEFINE n == Len(rest)
           less == Tail(rest)
<1>1. n \in Nat /\ n >= 1 /\ rest[1] = Head(rest) /\ Len(less) = n - 1 /\ \A i \in 1..(n - 1) : less[i] = rest[i + 1]
  <2>1. n \in Nat /\ n # 0
    BY LenProperties, EmptySeq
  <2> QED BY <2>1, HeadTailProperties
<1>2. Len(items) = e + n /\ \A i \in 1..n : rest[i] = items[e + i]
  BY DEF Remains
<1> HIDE DEF n, less
<1>3. Len(items) = (e + 1) + Len(less) /\ Len(items) >= e + 1
  BY <1>1, <1>2
<1>4. ASSUME NEW i \in 1..Len(less) PROVE less[i] = items[(e + 1) + i]
  <2>1. i \in 1..(n - 1) /\ i + 1 \in 1..n /\ e + (i + 1) = (e + 1) + i
    BY <1>1
  <2> QED BY <2>1, <1>1, <1>2
<1>5. items[e + 1] = Head(rest)
  <2>1. 1 \in 1..n
    BY <1>1
  <2> QED BY <2>1, <1>1, <1>2
<1> QED BY <1>3, <1>4, <1>5 DEF Remains, less

LEMMA FormatsBegin ==
  ASSUME NEW v \in Values, v.kind \in Lists \cup {"map", "array32"}
  PROVE  Formats(v) \subseteq Kinds(v) /\ Formats(v) \subseteq Tags
BY DEF Formats, Kinds, Lists, Arrays, Tags

LEMMA WrittenWriteComposite == CompositeInv /\ WrittenInv /\ WriteComposite => WrittenInv'
<1> SUFFICES ASSUME CompositeInv, WrittenInv, WriteComposite PROVE WrittenInv'
  OBVIOUS
<1>1. /\ phase = "write" /\ Parts # <<>> /\ Part.kind \in Lists \cup {"map", "array32"}
      /\ todo' = <<Part.items>> \o Others
      /\ UNCHANGED <<writer, value, type, phase, windows, decoded>>
  <2>1. writer \in {"own", "peer"}
    BY DEF CompositeInv, TypeOK
  <2>2. Part.kind \in Composites \ (IF writer = "own" THEN {"array8"} ELSE Arrays)
    BY DEF WriteComposite, Writing
  <2>3. Part.kind \in Lists \cup {"map", "array32"}
    BY <2>1, <2>2 DEF Composites, Arrays
  <2> QED BY <2>3 DEF WriteComposite, Writing
<1>2. PICK format \in Formats(Part) :
        LET before == output \o Append(Descriptor(Part), Cell(format, 0)) IN
        /\ output' = before \o <<Cell("size", 0), Cell("count", Len(Part.items))>>
        /\ offsets' = Append(offsets, Len(before) + 1)
  BY DEF WriteComposite
<1> DEFINE before == output \o Append(Descriptor(Part), Cell(format, 0))
           d == Len(todo)
           n == Len(Part.items)
           p == Len(output) + 1
           c == Coded(Part, p)
           r == c + 3
           rest == Tail(Parts)
           pos == [i \in 1..1 |-> r]
           f == [of |-> Part, at |-> p, done |-> 0, pos |-> pos]
<1>3. /\ todo \in Seq(Seq(Values)) /\ todo # <<>> /\ output \in Seq(Cells) /\ offsets \in Seq(Nat)
      /\ d = Len(offsets) + 1 /\ Part \in Values /\ rest \in Seq(Values)
  BY <1>1, Stack DEF CompositeInv, TypeOK, Opened, Cells, Trees
<1>4. Part.items \in Seq(Values) /\ n \in Nat
  BY <1>3, ValueParts, LenProperties
<1>5. format \in Kinds(Part) /\ format \in Tags
  BY <1>1, <1>3, FormatsBegin
<1>6. /\ before \in Seq(Cells) /\ Len(output) \in Nat /\ Len(before) = c /\ c \in Nat /\ p <= c
      /\ before[c].tag = format
      /\ Part.kind = "struct" => before[p].tag = "described"
      /\ \A i \in 1..Len(output) : before[i] = output[i]
  <2>1. /\ before \in Seq(Cells) /\ Len(output) \in Nat /\ Len(before) = c /\ c \in Nat /\ p <= c
        /\ before[c] = Cell(format, 0)
        /\ Part.kind = "struct" => before[p].tag = "described"
        /\ \A i \in 1..Len(output) : before[i] = output[i]
    BY <1>3, <1>5, Lead
  <2>2. Cell(format, 0).tag = format
    BY DEF Cell
  <2> QED BY <2>1, <2>2
<1>7. /\ output' = before \o <<Cell("size", 0), Cell("count", n)>>
      /\ offsets' = Append(offsets, c + 1)
  BY <1>2, <1>6
<1> HIDE DEF before, c, n
<1>8. /\ output' \in Seq(Cells) /\ Len(output') = c + 2
      /\ \A i \in 1..c : output'[i] = before[i]
      /\ output'[c + 1] = Cell("size", 0) /\ output'[c + 2] = Cell("count", n)
  <2> DEFINE more == <<Cell("size", 0), Cell("count", n)>>
  <2>1. Cell("size", 0) \in Cells /\ Cell("count", n) \in Cells
    BY <1>4 DEF Cell, Cells, Tags
  <2>2. more \in Seq(Cells) /\ Len(more) = 2 /\ more[1] = Cell("size", 0) /\ more[2] = Cell("count", n)
    BY <2>1
  <2> HIDE DEF more
  <2>3. /\ output' \in Seq(Cells) /\ Len(output') = c + 2
        /\ \A i \in 1..(c + 2) :
             /\ i <= c => output'[i] = before[i]
             /\ i > c => output'[i] = more[i - c]
    BY <1>6, <1>7, <2>2, Concat DEF more
  <2> QED BY <1>6, <2>2, <2>3
<1>9. /\ Len(output') >= Len(output) /\ \A i \in 1..Len(output) : output'[i] = output[i]
      /\ output'[c].tag = format
      /\ Part.kind = "struct" => output'[p].tag = "described"
  <2>1. \A i \in 1..Len(output) : i \in 1..c
    BY <1>6
  <2>2. c \in 1..c /\ p \in 1..c
    BY <1>6
  <2> QED BY <1>6, <1>8, <2>1, <2>2
<1>10. /\ \A k \in 1..(d - 1) : offsets'[k] = offsets[k]
       /\ offsets'[d] = c + 1
  <2>1. c + 1 \in Nat /\ Len(offsets) \in Nat /\ d - 1 = Len(offsets)
    BY <1>3, <1>6, LenProperties
  <2> QED BY <2>1, <1>3, <1>7, AppendProperties
<1>11. /\ d \in Nat /\ d >= 1 /\ Lv(todo, d) = Parts
       /\ Len(todo') = d + 1 /\ Lv(todo', d + 1) = Part.items /\ Lv(todo', d) = rest
       /\ \A j \in 1..(d - 1) : Lv(todo', j) = Lv(todo, j)
  <2> DEFINE inner == Part.items
  <2>1. Descends(todo', todo, rest, inner) /\ Parts = Head(todo)
    BY <1>1 DEF Others, Parts, Descends
  <2> HIDE DEF rest, inner, d
  <2>2. inner \in Seq(Values)
    BY <1>4 DEF inner
  <2>3. /\ Len(todo) \in Nat /\ Len(todo) >= 1 /\ Lv(todo, Len(todo)) = Head(todo)
        /\ Len(todo') = Len(todo) + 1 /\ Lv(todo', Len(todo) + 1) = inner /\ Lv(todo', Len(todo)) = rest
        /\ \A j \in 1..(Len(todo) - 1) : Lv(todo', j) = Lv(todo, j)
    BY <1>3, <2>1, <2>2, LevelBegun
  <2> QED BY <2>1, <2>3 DEF d, inner
<1> HIDE DEF rest
<1>12. PICK L, F : WritingAs(L, F, value, output, offsets, todo)
  BY <1>1 DEF WrittenInv
<1> DEFINE F2 == [j \in 1..(d + 1) |-> IF j = d + 1 THEN f ELSE F[j]]
<1>13. /\ F2[d + 1] = f /\ \A j \in 1..d : F2[j] = F[j]
  BY <1>11
<1>14. f.of = Part /\ f.at = p /\ f.done = 0 /\ f.pos = pos /\ pos[1] = r /\ pos \in [1..1 -> Nat] /\ f.done + 1 = 1
  BY <1>6
<1> HIDE DEF F2, f, pos
<1>15. Laid(L, output')
  BY <1>3, <1>8, <1>9, <1>12, LaidOn DEF WritingAs
<1>16. ASSUME NEW j \in 1..(d + 1) PROVE Pending(L, F2[j].of.items, F2[j].done, F2[j].pos)
  <2>1. CASE j = d + 1
    <3>1. Pending(L, Part.items, 0, pos)
      BY <1>4, <1>14 DEF Pending
    <3> QED BY <2>1, <3>1, <1>13, <1>14
  <2>2. CASE j # d + 1
    <3>1. j \in 1..d
      BY <2>2, <1>11
    <3> QED BY <3>1, <1>12, <1>13 DEF WritingAs
  <2> QED BY <2>1, <2>2
<1>17. Begins(f, output', offsets'[d])
  <2>1. r = c + 3 /\ 1 <= p /\ p \in Nat /\ c + 2 <= Len(output')
    BY <1>6, <1>8
  <2> HIDE DEF p, r
  <2> QED BY <2>1, <1>1, <1>3, <1>5, <1>8, <1>9, <1>10, <1>14 DEF Begins, c, n
<1>18. ASSUME NEW j \in 2..(d + 1) PROVE Begins(F2[j], output', offsets'[j - 1])
  <2>1. CASE j = d + 1
    <3>1. j - 1 = d
      BY <2>1, <1>11
    <3> QED BY <2>1, <3>1, <1>13, <1>17
  <2>2. CASE j # d + 1
    <3>1. j \in 2..d /\ j \in 1..d /\ j - 1 \in 1..(d - 1)
      BY <2>2, <1>11
    <3>2. Begins(F[j], output, offsets[j - 1])
      BY <3>1, <1>12 DEF WritingAs
    <3>3. Begins(F[j], output', offsets[j - 1])
      BY <1>3, <1>8, <1>9, <3>2, BeginsStill
    <3> QED BY <3>1, <3>3, <1>10, <1>13
  <2> QED BY <2>1, <2>2
<1>19. /\ F[d].pos[F[d].done + 1] = p
       /\ F[d].of.items[F[d].done + 1] = Part
       /\ Remains(F[d].of.items, F[d].done + 1, rest)
  <2> DEFINE g == F[d]
  <2>1. /\ Pending(L, g.of.items, g.done, g.pos) /\ g.pos[g.done + 1] = p
        /\ Remains(g.of.items, g.done, Parts)
    BY <1>11, <1>12 DEF WritingAs
  <2> HIDE DEF g
  <2>2. g.done \in Nat /\ Parts \in Seq(Values)
    BY <2>1, <1>1, <1>3, Stack DEF Pending, Trees
  <2>3. g.of.items[g.done + 1] = Head(Parts) /\ Remains(g.of.items, g.done + 1, Tail(Parts))
    BY <2>1, <2>2, <1>1, NextRemains
  <2> QED BY <2>1, <2>3 DEF g, rest, Part
<1>20. ASSUME NEW j \in 1..d
       PROVE  /\ F2[j].pos[F2[j].done + 1] = F2[j + 1].at
              /\ F2[j].of.items[F2[j].done + 1] = F2[j + 1].of
              /\ Remains(F2[j].of.items, F2[j].done + 1, Lv(todo', j))
  <2>1. CASE j = d
    BY <2>1, <1>11, <1>13, <1>14, <1>19
  <2>2. CASE j # d
    <3>1. j \in 1..(d - 1) /\ j + 1 \in 1..d
      BY <2>2, <1>11
    <3> QED BY <3>1, <1>11, <1>12, <1>13 DEF WritingAs
  <2> QED BY <2>1, <2>2
<1>21. /\ F2[d + 1].pos[F2[d + 1].done + 1] = Len(output') + 1
       /\ Remains(F2[d + 1].of.items, F2[d + 1].done, Lv(todo', d + 1))
  <2>1. Remains(Part.items, 0, Part.items)
    BY <1>4 DEF Remains, n
  <2>2. r = Len(output') + 1
    BY <1>6, <1>8
  <2> HIDE DEF r
  <2> QED BY <2>1, <2>2, <1>11, <1>13, <1>14
<1>22. F2[1].of.items = <<value>> /\ F2[1].pos[1] = 1
  BY <1>11, <1>12, <1>13 DEF WritingAs
<1>23. WritingAs(L, F2, value', output', offsets', todo')
  <2>1. Len(todo') = d + 1 /\ (d + 1) - 1 = d
    BY <1>11
  <2> HIDE DEF d
  <2> QED BY <2>1, <1>1, <1>15, <1>16, <1>18, <1>20, <1>21, <1>22 DEF WritingAs
<1> QED BY <1>1, <1>23 DEF WrittenInv

\* The latest size patched, the composite lies where it was begun.
LEMMA EndLies ==
  ASSUME NEW L, NEW out \in Seq(Cells), NEW o \in 1..Len(out), NEW f, Begins(f, out, o),
         NEW out2 \in Seq(Cells), Len(out2) = Len(out),
         \A i \in 1..Len(out) : i # o => out2[i] = out[i],
         out2[o].tag = "size", out2[o].n = Len(out) - o,
         Pending(L, f.of.items, f.done, f.pos), Len(f.of.items) = f.done,
         f.pos[f.done + 1] = Len(out) + 1
  PROVE  Lies(L, out2, f.of, f.at, Len(out) + 1)
<1> DEFINE v == f.of
           p == f.at
           c == Coded(v, p)
           q == Len(out) + 1
<1>1. /\ v \in Values /\ p \in Nat /\ 1 <= p /\ c \in Nat /\ p <= c /\ o = c + 1 /\ c + 2 <= Len(out)
      /\ Len(out) \in Nat
      /\ v.kind = "struct" => p < c
      /\ v.kind \in Lists \cup {"map", "array32"}
  <2>1. Len(out) \in Nat
    BY LenProperties
  <2>2. p \in Nat
    BY DEF Begins
  <2>3. c \in Nat /\ p <= c
    BY <2>2 DEF Coded
  <2>4. v.kind = "struct" => p < c
    BY <2>2 DEF Coded
  <2>5. v \in Values /\ v.kind \in Lists \cup {"map", "array32"} /\ 1 <= p
    BY DEF Begins
  <2>6. o = c + 1 /\ c + 2 <= Len(out)
    BY DEF Begins
  <2> HIDE DEF v, p, c
  <2> QED BY <2>1, <2>2, <2>3, <2>4, <2>5, <2>6
<1>2. /\ v.kind = "struct" => out[p].tag = "described"
      /\ out[c].tag \in Kinds(v) /\ out[c + 2] = Cell("count", Len(v.items)) /\ f.pos[1] = c + 3
  BY DEF Begins
<1> HIDE DEF v, p, c
<1>3. /\ c \in 1..Len(out) /\ c + 2 \in 1..Len(out) /\ p \in 1..Len(out) /\ c # o /\ c + 2 # o /\ p # o
  BY <1>1
<1>4. out2[c] = out[c] /\ out2[c + 2] = out[c + 2] /\ out2[p] = out[p]
  BY <1>3
<1>5. c < q /\ q <= Len(out2) + 1 /\ c + 3 <= q /\ q \in Nat /\ Len(out) - o = q - c - 2
  BY <1>1
<1>6. CASE v.kind = "array32"
  <2>1. c = p
    BY <1>6 DEF c, Coded, v, p
  <2>2. Kinds(v) = {"array32"}
    BY <1>6 DEF Kinds
  <2>3. LiesAsArray32(out2, v, p, q)
    <3> HIDE DEF q
    <3> QED BY <1>2, <1>4, <1>5, <1>6, <2>1, <2>2 DEF LiesAsArray32
  <2> HIDE DEF q
  <2> QED BY <1>1, <1>2, <1>4, <1>5, <2>3 DEF Lies, c, v, p, q
<1>7. CASE v.kind # "array32"
  <2>1. Chained(L, v.items, f.pos, c + 3, q)
    <3>1. /\ f.pos \in [1..(Len(v.items) + 1) -> Nat] /\ f.pos[Len(v.items) + 1] = q
          /\ \A i \in 1..Len(v.items) : <<v.items[i], f.pos[i], f.pos[i + 1]>> \in L
          /\ \A i \in 1..(Len(v.items) + 1) : f.pos[i] <= q
      BY DEF Pending, v
    <3> HIDE DEF q
    <3> QED BY <3>1, <1>2 DEF Chained
  <2>2. out2[c].tag \in IF v.kind = "map" THEN {"map8", "map32"} ELSE {"list8", "list32"}
    BY <1>2, <1>4, <1>7 DEF Kinds
  <2>3. out2[c + 1].tag = "size" /\ out2[c + 1].n = q - c - 2
    BY <1>1, <1>5
  <2>4. v.kind \in Lists \cup {"map"}
    BY <1>1, <1>7
  <2> HIDE DEF q
  <2>5. LiesAsSized(L, out2, v, c, q)
    BY <1>2, <1>4, <1>5, <2>1, <2>2, <2>3, <2>4 DEF LiesAsSized
  <2> QED BY <1>1, <1>2, <1>4, <1>5, <2>5 DEF Lies, c, v, p, q
<1> QED BY <1>6, <1>7

LEMMA WrittenWriteEnd == CompositeInv /\ WrittenInv /\ WriteEnd => WrittenInv'
<1> SUFFICES ASSUME CompositeInv, WrittenInv, WriteEnd PROVE WrittenInv'
  OBVIOUS
<1> DEFINE d == Len(todo)
           e == d - 1
           o == Last(offsets)
           q == Len(output) + 1
<1>1. /\ phase = "write" /\ d > 1 /\ todo' = Tail(todo) /\ offsets' = Front(offsets) /\ Parts = <<>>
      /\ output' = [output EXCEPT ![o].n = Len(output) - o]
      /\ UNCHANGED <<writer, value, type, phase, windows, decoded>>
  BY DEF WriteEnd, Ending
<1>2. /\ todo \in Seq(Seq(Values)) /\ todo # <<>> /\ output \in Seq(Cells) /\ offsets \in Seq(Nat)
      /\ d = Len(offsets) + 1 /\ OffsetsOpen(output, offsets)
      /\ Len(output) \in Nat /\ DOMAIN output = 1..Len(output)
  BY <1>1, LenProperties DEF CompositeInv, TypeOK, Opened, Cells, Nested
<1>3. /\ d \in Nat /\ e \in Nat /\ e >= 1 /\ e = Len(offsets) /\ e \in DOMAIN offsets
      /\ o = offsets[e] /\ o \in 1..Len(output) /\ IsOpen(output, o)
  <2>1. Len(offsets) \in Nat /\ DOMAIN offsets = 1..Len(offsets)
    BY <1>2, LenProperties
  <2>2. d \in Nat /\ e \in Nat /\ e >= 1 /\ e = Len(offsets) /\ e \in DOMAIN offsets
    BY <1>1, <1>2, <2>1
  <2> QED BY <1>2, <2>2 DEF OffsetsOpen, Last
<1>4. /\ output' \in Seq(Cells) /\ Len(output') = Len(output)
      /\ \A i \in 1..Len(output) : i # o => output'[i] = output[i]
      /\ output'[o].tag = "size" /\ output'[o].n = Len(output) - o
  <2>1. DOMAIN output' = 1..Len(output)
    BY <1>1, <1>2
  <2>2. output' \in Seq(Cells)
    BY <1>1, StepWriteEnd DEF CompositeInv, TypeOK, Cells
  <2>3. Len(output') = Len(output)
    BY <1>2, <2>1, <2>2, LenProperties
  <2>4. output[o] \in Cells /\ output[o].tag = "size"
    BY <1>2, <1>3, ElementOfSeq DEF IsOpen
  <2> HIDE DEF o
  <2>5. output'[o] = [output[o] EXCEPT !.n = Len(output) - o] /\ \A i \in 1..Len(output) : i # o => output'[i] = output[i]
    BY <1>1, <1>2, <1>3
  <2> QED BY <2>2, <2>3, <2>4, <2>5 DEF Cells
<1>5. \A k \in 1..(e - 1) : offsets'[k] = offsets[k]
  <2>1. e - 1 \in Nat /\ e - 1 <= e
    BY <1>3
  <2>2. offsets' = SubSeq(offsets, 1, e - 1)
    BY <1>1, <1>3 DEF Front
  <2>3. ASSUME NEW k \in 1..(e - 1) PROVE offsets'[k] = offsets[k]
    <3>1. k \in 1..e /\ 1 + k - 1 = k /\ e - 1 = (e - 1) - 1 + 1
      BY <1>3
    <3>2. offsets \in Seq(Nat) /\ 1 \in 1..(Len(offsets) + 1) /\ e - 1 \in 0..Len(offsets)
      BY <1>2, <1>3, <2>1
    <3>3. SubSeq(offsets, 1, e - 1)[k] = offsets[1 + k - 1]
      BY ONLY <3>1, <3>2, k \in 1..(e - 1), SubSeqProperties
    <3> QED BY <2>2, <3>1, <3>3
  <2> QED BY <2>3
<1>6. /\ Lv(todo, d) = Parts /\ Len(todo') = e /\ \A j \in 1..e : Lv(todo', j) = Lv(todo, j)
  <2>1. Ascends(todo', todo) /\ Parts = Head(todo)
    BY <1>1 DEF Ascends, Parts
  <2> QED BY <2>1, <1>2, LevelEnded
<1>7. PICK L, F : WritingAs(L, F, value, output, offsets, todo)
  BY <1>1 DEF WrittenInv
<1> HIDE DEF d, o, e
<1>8. e + 1 = d /\ d \in 1..d /\ d \in 2..d /\ e \in 1..(d - 1) /\ e \in 1..d /\ e \in 1..e /\ d - 1 = e
  BY <1>1, <1>3 DEF e
<1> DEFINE f == F[d]
           g == F[e]
           L2 == L \cup {<<f.of, f.at, q>>}
           F2 == [j \in 1..e |-> IF j = e THEN Further(g, q) ELSE F[j]]
<1>9. /\ Pending(L, f.of.items, f.done, f.pos) /\ f.pos[f.done + 1] = q
      /\ Remains(f.of.items, f.done, Parts) /\ Begins(f, output, o)
      /\ Pending(L, g.of.items, g.done, g.pos) /\ g.pos[g.done + 1] = f.at
      /\ g.of.items[g.done + 1] = f.of
      /\ Remains(g.of.items, g.done + 1, Lv(todo, e))
  BY <1>3, <1>6, <1>7, <1>8 DEF WritingAs, d
<1> HIDE DEF f, g
<1>10. Len(f.of.items) = f.done
  <2>1. f.done \in Nat
    BY <1>9 DEF Pending
  <2> QED BY <2>1, <1>1, <1>9 DEF Remains
<1>11. Lies(L, output', f.of, f.at, q)
  BY <1>2, <1>3, <1>4, <1>9, <1>10, EndLies
<1>12. Laid(L2, output')
  <2>1. \A i \in 1..Len(output) : IsOpen(output, i) \/ output'[i] = output[i]
    BY <1>3, <1>4
  <2>2. Laid(L, output) /\ Len(output') >= Len(output)
    BY <1>2, <1>4, <1>7 DEF WritingAs
  <2> HIDE DEF q
  <2> QED BY <2>1, <2>2, <1>2, <1>4, <1>11, LaidStill
<1>13. /\ Pending(L2, g.of.items, g.done + 1, Longer(g.pos, g.done, q))
       /\ Longer(g.pos, g.done, q)[g.done + 2] = q /\ Longer(g.pos, g.done, q)[1] = g.pos[1]
  <2>1. q \in Nat /\ f.at <= q
    BY <1>2, <1>11 DEF Lies, Coded
  <2>2. <<g.of.items[g.done + 1], g.pos[g.done + 1], q>> \in L2
    BY <1>9
  <2>3. Pending(L2, g.of.items, g.done, g.pos)
    BY <1>9, PendingStill
  <2> HIDE DEF L2, q
  <2> QED BY <2>1, <2>2, <2>3, <1>9, Extended
<1>14. /\ F2[e] = Further(g, q) /\ \A j \in 1..(e - 1) : j \in 1..e /\ F2[j] = F[j] /\ j # e
  BY <1>8, <1>3
<1>15. /\ F2[e].of = g.of /\ F2[e].at = g.at /\ F2[e].done = g.done + 1
       /\ F2[e].pos = Longer(g.pos, g.done, q)
  BY <1>14 DEF Further
<1> HIDE DEF F2, q
<1>16. \A j \in 1..e : F2[j].of = F[j].of /\ F2[j].at = F[j].at /\ F2[j].pos[1] = F[j].pos[1]
  <2>1. F2[e].of = F[e].of /\ F2[e].at = F[e].at /\ F2[e].pos[1] = F[e].pos[1]
    BY <1>13, <1>15 DEF g
  <2>2. \A j \in 1..(e - 1) : F2[j] = F[j]
    BY <1>14
  <2>3. \A j \in 1..e : j = e \/ j \in 1..(e - 1)
    BY <1>3
  <2> QED BY <2>1, <2>2, <2>3
<1>17. ASSUME NEW j \in 1..e PROVE Pending(L2, F2[j].of.items, F2[j].done, F2[j].pos)
  <2>1. CASE j = e
    BY <2>1, <1>13, <1>15
  <2>2. CASE j # e
    <3>1. j \in 1..(e - 1) /\ j \in 1..d
      BY <2>2, <1>3, <1>8
    <3>2. F2[j] = F[j] /\ Pending(L, F[j].of.items, F[j].done, F[j].pos)
      BY <3>1, <1>7, <1>14 DEF WritingAs, d
    <3> QED BY <3>2, PendingStill
  <2> QED BY <2>1, <2>2
<1>18. ASSUME NEW j \in 2..e PROVE Begins(F2[j], output', offsets'[j - 1])
  <2>1. j \in 2..d /\ j - 1 \in 1..(e - 1) /\ j \in 1..e
    BY <1>3, <1>8
  <2>2. Begins(F[j], output, offsets[j - 1])
    BY <2>1, <1>7 DEF WritingAs, d
  <2>3. \A i \in 1..Len(output) : IsOpen(output, i) \/ output'[i] = output[i]
    BY <1>3, <1>4
  <2>4. Len(output') >= Len(output)
    BY <1>2, <1>4
  <2>5. Begins(F[j], output', offsets[j - 1])
    BY <1>2, <1>4, <2>2, <2>3, <2>4, BeginsStill
  <2> QED BY <2>1, <2>5, <1>5, <1>16, BeginsSame
<1>19. ASSUME NEW j \in 1..(e - 1)
       PROVE  /\ F2[j].pos[F2[j].done + 1] = F2[j + 1].at
              /\ F2[j].of.items[F2[j].done + 1] = F2[j + 1].of
              /\ Remains(F2[j].of.items, F2[j].done + 1, Lv(todo', j))
  <2>1. j + 1 \in 1..e /\ j \in 1..e /\ j \in 1..(d - 1)
    BY <1>3, <1>8
  <2> QED BY <2>1, <1>6, <1>7, <1>14, <1>16 DEF WritingAs, d
<1>20. F2[e].pos[F2[e].done + 1] = Len(output') + 1 /\ Remains(F2[e].of.items, F2[e].done, Lv(todo', e))
  <2>1. (g.done + 1) + 1 = g.done + 2
    BY <1>9 DEF Pending
  <2>2. q = Len(output') + 1
    BY <1>4 DEF q
  <2> QED BY <2>1, <2>2, <1>6, <1>8, <1>9, <1>13, <1>15
<1>21. F2[1].of.items = <<value>> /\ F2[1].pos[1] = 1
  <2>1. 1 \in 1..e
    BY <1>3
  <2> QED BY <2>1, <1>7, <1>16 DEF WritingAs
<1> HIDE DEF L2
<1>22. WritingAs(L2, F2, value', output', offsets', todo')
  BY <1>1, <1>6, <1>12, <1>17, <1>18, <1>19, <1>20, <1>21 DEF WritingAs
<1> QED BY <1>1, <1>22 DEF WrittenInv

LEMMA WrittenStartRead == CompositeInv /\ WrittenInv /\ StartRead => WrittenInv'
<1> SUFFICES ASSUME CompositeInv, WrittenInv, StartRead PROVE WrittenInv'
  OBVIOUS
<1>1. phase = "write" /\ todo = <<<<>>>> /\ phase' = "read" /\ UNCHANGED <<value, output>>
  BY DEF StartRead
<1>2. PICK L, F : WritingAs(L, F, value, output, offsets, todo)
  BY <1>1 DEF WrittenInv
<1> DEFINE f == F[1]
<1>3. Len(todo) = 1 /\ Lv(todo, 1) = <<>>
  BY <1>1 DEF Lv
<1>4. /\ Laid(L, output) /\ f.of.items = <<value>> /\ f.pos[1] = 1
      /\ Pending(L, f.of.items, f.done, f.pos) /\ f.pos[f.done + 1] = Len(output) + 1
      /\ Remains(f.of.items, f.done, <<>>)
  BY <1>2, <1>3 DEF WritingAs
<1> HIDE DEF f
<1>5. f.done = 1
  <2>1. Len(f.of.items) = 1
    BY <1>4
  <2> QED BY <1>4, <2>1 DEF Remains, Pending
<1>6. <<f.of.items[1], f.pos[1], f.pos[1 + 1]>> \in L
  BY <1>4, <1>5 DEF Pending
<1>7. f.of.items[1] = value
  BY <1>4
<1>8. <<value, 1, Len(output) + 1>> \in L
  BY <1>4, <1>5, <1>6, <1>7
<1> QED BY <1>1, <1>4, <1>8 DEF WrittenInv

LEMMA WrittenStep == CompositeInv /\ WrittenInv /\ [Next]_vars => WrittenInv'
<1> SUFFICES ASSUME CompositeInv, WrittenInv, [Next]_vars PROVE WrittenInv'
  OBVIOUS
<1>1. ASSUME phase # "write", UNCHANGED <<value, output>>, phase' # "write" PROVE WrittenInv'
  BY <1>1 DEF WrittenInv
<1>2. CASE ReadNumber \/ ReadStr \/ ReadTuple
  BY <1>1, <1>2 DEF ReadNumber, ReadStr, ReadTuple, Reading, Fail, Take
<1>3. CASE ReadOption
  BY <1>1, <1>3 DEF ReadOption, Reading, Fail
<1>4. CASE ReadSequence
  BY <1>1, <1>4 DEF ReadSequence, Reading, Fail, WideArray, Nest
<1>5. CASE ReadMap
  BY <1>1, <1>5 DEF ReadMap, Reading, Fail, WideArray
<1>6. CASE CloseWindow \/ Return
  BY <1>1, <1>6 DEF CloseWindow, Closing, Return
<1>7. CASE Done \/ UNCHANGED vars
  BY <1>7 DEF Done, vars, WrittenInv
<1> QED BY <1>2, <1>3, <1>4, <1>5, <1>6, <1>7, WrittenWriteScalar, WrittenWriteComposite, WrittenWriteEnd,
           WrittenPeerEmptyList, WrittenPeerArray, WrittenStartRead DEF Next

\* Whoever writes it, every value written lies where the recursion left it: the
\* Serializer's header, the parts behind one another, the size patched by end
\* that of just these; and in the end the whole value is all of the output.
THEOREM Written == Spec => []WrittenInv
<1> USE DEF Spec
<1>1. Init => WrittenInv
  BY WrittenInit
<1>2. CompositeInv /\ WrittenInv /\ [Next]_vars => WrittenInv'
  BY WrittenStep
<1> QED BY <1>1, <1>2, CompositeInvariant, PTL

-----------------------------------------------------------------------------
(* What is read: what each nested Deserializer has still to find.            *)

\* Where a part is that a Deserializer whose input ends at end reads from p
\* to q - 1: nowhere, among what lies in the output, or the data of an array.
Placed(L, out, v, p, q, end) ==
  /\ v \in Nodes /\ p \in Nat /\ q \in Nat
  /\ \/ v = Missing /\ p = end + 1 /\ q = end + 1
     \/ v \in Values /\ <<v, p, q>> \in L /\ q <= end + 1
     \/ v.kind = "element" /\ out[p] = Cell("data", v.items[1].n) /\ q = p + 1 /\ q <= end + 1

\* Which parts a constructor goes with; nothing gets past an element of a
\* type other than str.
Suits(constructor, i, v) ==
  \/ constructor = "none" /\ v.kind # "element"
  \/ constructor = "str" /\ (v.kind = "missing" \/ (v.kind = "element" /\ v.items[1].kind = "str"))
  \/ constructor \in Numbers /\ (i = 1 => v.kind = "element" /\ v.items[1].kind \in Numbers)

\* A Deserializer and the types of the parts still to be read: g says which
\* parts these are, where they are, and what is to come of them and of all
\* that follows; rest is what is to come of what follows the last of them.
Level(L, out, w, types, g, rest) ==
  LET n == Len(types) IN
  /\ g.pos[1] = w.at
  /\ \A i \in 1..n :
       /\ Placed(L, out, g.vals[i], g.pos[i], g.pos[i + 1], w.end)
       /\ Suits(w.constructor, i, g.vals[i])
       /\ g.cont[i] = Then(Expected[<<g.vals[i], types[i], 0>>], g.cont[i + 1])
  /\ \A i \in 1..(n + 1) : g.cont[i] \in Results
  /\ g.cont[n + 1] = rest

Rest(G, j) == IF j = 1 THEN Got(<<>>) ELSE G[j - 1].cont[1]

\* With what was read so far, it all comes to the total.
ReadingAs(L, G, total, out, wins, stack, dec) ==
  LET d == Len(stack) IN
  /\ Laid(L, out)
  /\ \A j \in 1..d : Level(L, out, wins[j], Lv(stack, j), G[j], Rest(G, j))
  /\ Then(Got(dec), G[d].cont[1]) = total

\* The innermost Deserializer goes on to other parts.
LEMMA LevelRead ==
  ASSUME NEW L, NEW G, NEW total, NEW out, NEW wins, NEW dec,
         NEW stack \in Seq(Seq(Types)), stack # <<>>,
         ReadingAs(L, G, total, out, wins, stack, dec),
         NEW s \in Seq(Types), NEW stack2, Exchanges(stack2, stack, s),
         NEW wins2, \A j \in 1..(Len(stack) - 1) : wins2[j] = wins[j],
         NEW g, Level(L, out, wins2[Len(stack)], s, g, Rest(G, Len(stack))),
         NEW dec2, Then(Got(dec2), g.cont[1]) = total
  PROVE  \E G2 : ReadingAs(L, G2, total, out, wins2, stack2, dec2)
<1> DEFINE d == Len(stack)
           G2 == [j \in 1..d |-> IF j = d THEN g ELSE G[j]]
<1>1. /\ d \in Nat /\ d >= 1 /\ Len(stack2) = d /\ Lv(stack2, d) = s
      /\ \A j \in 1..(d - 1) : Lv(stack2, j) = Lv(stack, j)
  BY LevelExchanged
<1>2. G2[d] = g /\ \A j \in 1..(d - 1) : G2[j] = G[j]
  BY <1>1
<1> HIDE DEF G2
<1>3. \A j \in 1..d : Rest(G2, j) = Rest(G, j)
  <2> SUFFICES ASSUME NEW j \in 1..d PROVE Rest(G2, j) = Rest(G, j)
    OBVIOUS
  <2>1. j = 1 \/ j - 1 \in 1..(d - 1)
    BY <1>1
  <2> QED BY <2>1, <1>2 DEF Rest
<1>4. ASSUME NEW j \in 1..d PROVE Level(L, out, wins2[j], Lv(stack2, j), G2[j], Rest(G2, j))
  <2>1. CASE j = d
    BY <2>1, <1>1, <1>2, <1>3
  <2>2. CASE j # d
    <3>1. j \in 1..(d - 1)
      BY <2>2, <1>1
    <3>2. Level(L, out, wins[j], Lv(stack, j), G[j], Rest(G, j))
      BY DEF ReadingAs
    <3> QED BY <3>1, <3>2, <1>1, <1>2, <1>3
  <2> QED BY <2>1, <2>2
<1>5. ReadingAs(L, G2, total, out, wins2, stack2, dec2)
  BY <1>1, <1>2, <1>4 DEF ReadingAs
<1> QED BY <1>5

Outside(wins2, wins, stack) == \A j \in 1..(Len(stack) - 1) : wins2[j] = wins[j]
Comes(total, dec, g) == Then(Got(dec), g.cont[1]) = total

\* A nested Deserializer begins.
LEMMA LevelNested ==
  ASSUME NEW L, NEW G, NEW total, NEW out, NEW wins, NEW dec,
         NEW stack \in Seq(Seq(Types)), stack # <<>>,
         ReadingAs(L, G, total, out, wins, stack, dec),
         NEW s \in Seq(Types), NEW t \in Seq(Types), NEW stack2, Descends(stack2, stack, s, t),
         NEW wins2, Outside(wins2, wins, stack),
         NEW g, Level(L, out, wins2[Len(stack)], s, g, Rest(G, Len(stack))),
         NEW w, w = wins2[Len(stack) + 1], NEW h, Level(L, out, w, t, h, g.cont[1]),
         NEW dec2, Comes(total, dec2, h)
  PROVE  \E G2 : ReadingAs(L, G2, total, out, wins2, stack2, dec2)
<1> DEFINE d == Len(stack)
           G2 == [j \in 1..(d + 1) |-> IF j = d + 1 THEN h ELSE IF j = d THEN g ELSE G[j]]
<1>1. /\ d \in Nat /\ d >= 1 /\ Len(stack2) = d + 1 /\ Lv(stack2, d + 1) = t /\ Lv(stack2, d) = s
      /\ \A j \in 1..(d - 1) : Lv(stack2, j) = Lv(stack, j)
  BY LevelBegun
<1>2. G2[d + 1] = h /\ G2[d] = g /\ \A j \in 1..(d - 1) : G2[j] = G[j]
  BY <1>1
<1> HIDE DEF G2
<1>3. /\ \A j \in 1..d : Rest(G2, j) = Rest(G, j)
      /\ Rest(G2, d + 1) = g.cont[1]
  <2>1. ASSUME NEW j \in 1..d PROVE Rest(G2, j) = Rest(G, j)
    <3>1. j = 1 \/ j - 1 \in 1..(d - 1)
      BY <1>1
    <3> QED BY <3>1, <1>2 DEF Rest
  <2>2. d + 1 # 1 /\ (d + 1) - 1 = d
    BY <1>1
  <2> QED BY <2>1, <2>2, <1>2 DEF Rest
<1>4. ASSUME NEW j \in 1..(d + 1) PROVE Level(L, out, wins2[j], Lv(stack2, j), G2[j], Rest(G2, j))
  <2>1. CASE j = d + 1
    BY <2>1, <1>1, <1>2, <1>3
  <2>2. CASE j = d
    <3>1. d \in 1..d
      BY <1>1
    <3> QED BY <3>1, <2>2, <1>1, <1>2, <1>3
  <2>3. CASE j # d /\ j # d + 1
    <3>1. j \in 1..(d - 1) /\ j \in 1..d
      BY <2>3, <1>1
    <3>2. Level(L, out, wins[j], Lv(stack, j), G[j], Rest(G, j))
      BY <3>1 DEF ReadingAs
    <3> QED BY <3>1, <3>2, <1>1, <1>2, <1>3 DEF Outside
  <2> QED BY <2>1, <2>2, <2>3
<1>5. ReadingAs(L, G2, total, out, wins2, stack2, dec2)
  BY <1>1, <1>2, <1>4 DEF ReadingAs, Comes
<1> QED BY <1>5

\* A nested Deserializer is done.
LEMMA LevelClosed ==
  ASSUME NEW L, NEW G, NEW total, NEW out, NEW wins, NEW dec,
         NEW stack \in Seq(Seq(Types)), Len(stack) > 1, Head(stack) = <<>>,
         ReadingAs(L, G, total, out, wins, stack, dec),
         NEW stack2, Ascends(stack2, stack),
         NEW wins2, \A j \in 1..(Len(stack) - 1) : wins2[j] = wins[j]
  PROVE  ReadingAs(L, G, total, out, wins2, stack2, dec)
<1> DEFINE d == Len(stack)
<1>0. stack # <<>>
  BY EmptySeq
<1>1. /\ d \in Nat /\ d > 1 /\ Lv(stack, d) = <<>> /\ Len(stack2) = d - 1
      /\ \A j \in 1..(d - 1) : Lv(stack2, j) = Lv(stack, j)
  BY <1>0, LevelEnded
<1>2. G[d].cont[1] = G[d - 1].cont[1]
  <2>1. Level(L, out, wins[d], <<>>, G[d], Rest(G, d))
    BY <1>1 DEF ReadingAs
  <2>2. Len(<<>>) + 1 = 1
    OBVIOUS
  <2>3. G[d].cont[1] = Rest(G, d)
    BY <2>1, <2>2 DEF Level
  <2>4. d # 1
    BY <1>1
  <2> HIDE DEF d
  <2>5. Rest(G, d) = G[d - 1].cont[1]
    BY <2>4 DEF Rest
  <2> QED BY <2>3, <2>5
<1>3. ASSUME NEW j \in 1..(d - 1) PROVE Level(L, out, wins2[j], Lv(stack2, j), G[j], Rest(G, j))
  <2>1. j \in 1..d
    BY <1>1
  <2> QED BY <2>1, <1>1 DEF ReadingAs
<1> QED BY <1>1, <1>2, <1>3 DEF ReadingAs

\* The first part of a level read, the others are left.
Shifted(f) == [i \in Nat |-> f[i + 1]]
Past(g) == [vals |-> Shifted(g.vals), pos |-> Shifted(g.pos), cont |-> Shifted(g.cont)]

LEMMA LevelPast ==
  ASSUME NEW L, NEW out, NEW w, NEW types \in Seq(Types), types # <<>>, NEW g, NEW rest,
         Level(L, out, w, types, g, rest), w.constructor \notin Numbers,
         NEW w2, w2.at = g.pos[2], w2.end = w.end, w2.constructor = w.constructor
  PROVE  /\ Level(L, out, w2, Tail(types), Past(g), rest)
         /\ Past(g).cont[1] = g.cont[2]
<1> DEFINE n == Len(types)
           less == Tail(types)
           h == Past(g)
<1>1. /\ n \in Nat /\ n >= 1 /\ Len(less) = n - 1 /\ \A i \in 1..(n - 1) : less[i] = types[i + 1]
  <2>1. n \in Nat /\ n # 0
    BY LenProperties, EmptySeq
  <2> QED BY <2>1, HeadTailProperties
<1>2. \A i \in Nat : h.vals[i] = g.vals[i + 1] /\ h.pos[i] = g.pos[i + 1] /\ h.cont[i] = g.cont[i + 1]
  BY DEF Past, Shifted
<1>3. /\ \A i \in 1..n :
           /\ Placed(L, out, g.vals[i], g.pos[i], g.pos[i + 1], w.end)
           /\ Suits(w.constructor, i, g.vals[i])
           /\ g.cont[i] = Then(Expected[<<g.vals[i], types[i], 0>>], g.cont[i + 1])
      /\ \A i \in 1..(n + 1) : g.cont[i] \in Results
      /\ g.cont[n + 1] = rest
  BY DEF Level
<1> HIDE DEF h, n, less
<1>4. ASSUME NEW i \in 1..(n - 1)
      PROVE  /\ Placed(L, out, h.vals[i], h.pos[i], h.pos[i + 1], w2.end)
             /\ Suits(w2.constructor, i, h.vals[i])
             /\ h.cont[i] = Then(Expected[<<h.vals[i], less[i], 0>>], h.cont[i + 1])
  <2>1. i \in Nat /\ i + 1 \in Nat /\ i + 1 \in 1..n
    BY <1>1
  <2>2. Suits(w.constructor, i + 1, g.vals[i + 1]) => Suits(w.constructor, i, g.vals[i + 1])
    BY DEF Suits
  <2> QED BY <2>1, <2>2, <1>1, <1>2, <1>3
<1>5. \A i \in 1..((n - 1) + 1) : h.cont[i] \in Results
  <2>1. \A i \in 1..((n - 1) + 1) : i \in Nat /\ i + 1 \in 1..(n + 1)
    BY <1>1
  <2> QED BY <2>1, <1>2, <1>3
<1>6. h.cont[(n - 1) + 1] = rest
  <2>1. (n - 1) + 1 \in Nat /\ ((n - 1) + 1) + 1 = n + 1
    BY <1>1
  <2> QED BY <2>1, <1>2, <1>3
<1>7. h.pos[1] = w2.at /\ h.cont[1] = g.cont[2]
  BY <1>2
<1>8. Level(L, out, w2, less, h, rest)
  BY <1>1, <1>4, <1>5, <1>6, <1>7 DEF Level
<1> QED BY <1>7, <1>8 DEF h, less

Concludes(total, ph, dec) == ph \in total.phase /\ (total.phase = {"ok"} => dec = total.leaves)

GoesOn(total, ph, out, wins, stack, dec) ==
  \/ total.phase = Outcomes
  \/ ph = "read" /\ \E L, G : ReadingAs(L, G, total, out, wins, stack, dec)
  \/ Concludes(total, ph, dec)

ReadInv ==
  /\ phase = "write" => decoded = <<>>
  /\ phase # "write" /\ windows[1].end = Len(output) =>
       GoesOn(Expected[<<value, type, 0>>], phase, output, windows, todo, decoded)

\* What is known of the part the innermost Deserializer is to read.
Facing(v, q, after, L, total) ==
  /\ v \in Nodes /\ q \in Nat /\ Part \in Types
  /\ Placed(L, output, v, At, q, Input.end)
  /\ Suits(Input.constructor, 1, v)
  /\ after \in Results
  /\ Expected[<<v, Part, 0>>] = ExpectedOf(Expected, v, Part)
  /\ Expected[<<v, Part, 0>>] \in Results
  /\ Then(Got(decoded), Then(Expected[<<v, Part, 0>>], after)) = total

LEMMA FacesPart ==
  ASSUME CompositeInv, phase = "read", Parts # <<>>,
         NEW L, NEW G, NEW total, ReadingAs(L, G, total, output, windows, todo, decoded)
  PROVE  LET g == G[Len(todo)] IN
         /\ Facing(g.vals[1], g.pos[2], g.cont[2], L, total)
         /\ Laid(L, output)
         /\ Level(L, output, Input, Parts, g, Rest(G, Len(todo)))
<1> DEFINE d == Len(todo)
           g == G[d]
<1>1. /\ todo \in Seq(Seq(Types)) /\ todo # <<>> /\ d = Len(windows) /\ Input = windows[d] /\ d \in Nat /\ d >= 1
      /\ Part \in Types /\ Parts \in Seq(Types)
  BY AtWork, Stack DEF Input, Last, Trees
<1>2. Lv(todo, d) = Parts
  <2>1. <<>> \in Seq(Types)
    OBVIOUS
  <2> QED BY <1>1, <2>1, Levels DEF Parts
<1>3. Level(L, output, Input, Parts, g, Rest(G, d))
  BY <1>1, <1>2 DEF ReadingAs
<1>4. Then(Got(decoded), g.cont[1]) = total /\ Laid(L, output)
  BY DEF ReadingAs
<1>5. 1 \in 1..Len(Parts) /\ Len(Parts) \in Nat /\ Parts[1] = Part /\ 2 \in 1..(Len(Parts) + 1)
  <2>1. Len(Parts) \in Nat /\ Len(Parts) # 0
    BY <1>1, LenProperties, EmptySeq
  <2> QED BY <2>1, <1>1, HeadTailProperties DEF Part
<1> HIDE DEF g, d
<1>6. /\ Placed(L, output, g.vals[1], g.pos[1], g.pos[1 + 1], Input.end) /\ g.pos[1] = Input.at
      /\ Suits(Input.constructor, 1, g.vals[1])
      /\ g.cont[1] = Then(Expected[<<g.vals[1], Parts[1], 0>>], g.cont[1 + 1])
      /\ g.cont[2] \in Results
  BY <1>3, <1>5 DEF Level
<1>7. 1 + 1 = 2 /\ g.pos[1] = At
  BY <1>6 DEF At
<1>8. g.vals[1] \in Nodes /\ g.pos[2] \in Nat
  BY <1>6, <1>7 DEF Placed
<1> DEFINE x == <<g.vals[1], Part, 0>>
<1>9. x \in Readings /\ x[1] = g.vals[1] /\ x[2] = Part /\ x[3] = 0
  BY <1>1, <1>8 DEF Readings
<1>10. Expected[x] = ExpectedOf(Expected, g.vals[1], Part) /\ Expected[x] \in Results
  <2> HIDE DEF x
  <2>1. Expected[x] = Outcome(Expected, x[1], x[2], x[3]) /\ Expected[x] \in Results
    BY <1>9, ExpectedDef, ExpectedIs
  <2> QED BY <2>1, <1>9 DEF Outcome
<1>11. Facing(g.vals[1], g.pos[2], g.cont[2], L, total)
  BY <1>1, <1>4, <1>5, <1>6, <1>7, <1>8, <1>10 DEF Facing
<1> QED BY <1>3, <1>4, <1>11 DEF g, d

\* A part that cannot be read is what becomes of it all.
LEMMA Stops ==
  ASSUME NEW v, NEW q, NEW after, NEW L, NEW total, Facing(v, q, after, L, total),
         Expected[<<v, Part, 0>>].phase # {"ok"}
  PROVE  total = Expected[<<v, Part, 0>>]
<1> DEFINE e == Expected[<<v, Part, 0>>]
<1>1. Then(Got(decoded), Then(e, after)) = total
  BY DEF Facing
<1> HIDE DEF e
<1>2. e.phase # {"ok"}
  BY DEF e
<1>3. Then(e, after) = e
  BY <1>2 DEF Then
<1>4. Then(Got(decoded), e) = e
  BY <1>2 DEF Then, Got
<1> QED BY <1>1, <1>3, <1>4 DEF e

LEMMA StopsWith ==
  ASSUME NEW v, NEW q, NEW after, NEW L, NEW total, Facing(v, q, after, L, total),
         NEW p, Expected[<<v, Part, 0>>] = Bad(p), p # {"ok"}, NEW o \in p,
         NEW out, NEW wins, NEW stack, NEW dec
  PROVE  GoesOn(total, o, out, wins, stack, dec)
<1>1. Bad(p).phase = p
  BY DEF Bad
<1>2. total = Bad(p)
  BY <1>1, Stops
<1> QED BY <1>1, <1>2 DEF GoesOn, Concludes

\* What was read is added to what was read before.
LEMMA Adds ==
  ASSUME NEW dec \in Seq(Nat), NEW l \in Seq(Nat), NEW after \in Results
  PROVE  Then(Got(dec), Then(Got(l), after)) = Then(Got(dec \o l), after)
<1>1. Got(dec) \in Results /\ Got(l) \in Results
  BY Gets
<1>2. Then(Got(dec), Got(l)) = Got(dec \o l)
  BY DEF Then, Got
<1>3. Then(Then(Got(dec), Got(l)), after) = Then(Got(dec), Then(Got(l), after))
  BY <1>1, ThenThen
<1> QED BY <1>2, <1>3

\* The running Deserializer is the only one to move.
LEMMA AdvancedAlone ==
  ASSUME CompositeInv, phase = "read", NEW n \in Nat
  PROVE  LET d == Len(todo) IN
         /\ \A j \in 1..(d - 1) : Advance(n)[j] = windows[j]
         /\ Advance(n)[d].at = At + n /\ Advance(n)[d].end = Input.end
         /\ Advance(n)[d].constructor = Input.constructor
<1> DEFINE m == Len(windows)
           moved == [Input EXCEPT !.at = At + n]
<1>1. /\ windows \in Seq(Frames) /\ m \in Nat /\ m > 0 /\ DOMAIN windows = 1..m
      /\ Input \in Frames /\ At \in Nat /\ Input = windows[m] /\ m = Len(todo)
  BY AtWork DEF Input, Last
<1>2. Advance(n) = [windows EXCEPT ![m] = moved]
  BY DEF Advance, At, Input, Last
<1>3. /\ moved.at = At + n /\ moved.end = Input.end /\ moved.constructor = Input.constructor
  BY <1>1 DEF Frames
<1> HIDE DEF moved
<1>4. m \in 1..m /\ \A j \in 1..(m - 1) : j \in 1..m /\ j # m
  <2>1. m \in Nat /\ m > 0
    BY <1>1
  <2> HIDE DEF m
  <2> QED BY ONLY <2>1
<1>5. Advance(n)[m] = moved /\ \A j \in 1..(m - 1) : Advance(n)[j] = windows[j]
  BY <1>1, <1>2, <1>4
<1> QED BY <1>1, <1>3, <1>5

\* A part read.
LEMMA Passes ==
  ASSUME CompositeInv, phase = "read", Parts # <<>>,
         NEW L, NEW G, NEW total, ReadingAs(L, G, total, output, windows, todo, decoded),
         NEW l \in Seq(Nat), Expected[<<G[Len(todo)].vals[1], Part, 0>>] = Got(l),
         Input.constructor \notin Numbers, todo' = Others,
         NEW n \in Nat, At + n = G[Len(todo)].pos[2], windows' = Advance(n), decoded' = decoded \o l
  PROVE  \E G2 : ReadingAs(L, G2, total, output, windows', todo', decoded')
<1> DEFINE d == Len(todo)
           g == G[d]
           w2 == Advance(n)[d]
           rest == Tail(Parts)
<1>1. /\ todo \in Seq(Seq(Types)) /\ todo # <<>> /\ Parts \in Seq(Types) /\ rest \in Seq(Types)
  BY AtWork, Stack DEF Trees
<1>2. /\ Facing(g.vals[1], g.pos[2], g.cont[2], L, total)
      /\ Level(L, output, Input, Parts, g, Rest(G, d))
  BY FacesPart
<1>3. /\ \A j \in 1..(d - 1) : Advance(n)[j] = windows[j]
      /\ w2.at = At + n /\ w2.end = Input.end /\ w2.constructor = Input.constructor
  BY AdvancedAlone
<1>4. decoded \in Seq(Nat)
  BY DEF CompositeInv, TypeOK
<1> HIDE DEF w2, g
<1>5. Level(L, output, w2, rest, Past(g), Rest(G, d)) /\ Past(g).cont[1] = g.cont[2]
  <2>1. w2.at = g.pos[2]
    BY <1>3 DEF g
  <2> DEFINE after == Rest(G, d)
             types == Parts
             w == Input
  <2>2. types \in Seq(Types) /\ types # <<>> /\ Level(L, output, w, types, g, after) /\ w.constructor \notin Numbers
        /\ w2.at = g.pos[2] /\ w2.end = w.end /\ w2.constructor = w.constructor /\ rest = Tail(types)
    BY <2>1, <1>1, <1>2, <1>3
  <2> HIDE DEF after, types, w, rest
  <2>3. Level(L, output, w2, rest, Past(g), after) /\ Past(g).cont[1] = g.cont[2]
    BY <2>2, LevelPast
  <2> QED BY <2>3 DEF after
<1>6. Then(Got(decoded'), Past(g).cont[1]) = total
  <2>1. Then(Got(decoded), Then(Got(l), g.cont[2])) = total /\ g.cont[2] \in Results
    BY <1>2 DEF Facing, g
  <2> QED BY <2>1, <1>4, <1>5, Adds
<1>7. Exchanges(todo', todo, rest)
  BY DEF Others, Exchanges
<1>8. Level(L, output, windows'[d], rest, Past(g), Rest(G, d))
  BY <1>5 DEF w2
<1> HIDE DEF rest
<1>9. \A j \in 1..(Len(todo) - 1) : windows'[j] = windows[j]
  BY <1>3
<1> DEFINE h == Past(g)
<1>10. Level(L, output, windows'[Len(todo)], rest, h, Rest(G, Len(todo))) /\ Then(Got(decoded'), h.cont[1]) = total
  BY <1>6, <1>8
<1> HIDE DEF h, d
<1> DEFINE wins2 == windows'
           stack2 == todo'
           dec2 == decoded'
<1>11. /\ \A j \in 1..(Len(todo) - 1) : wins2[j] = windows[j]
       /\ Exchanges(stack2, todo, rest)
       /\ Level(L, output, wins2[Len(todo)], rest, h, Rest(G, Len(todo))) /\ Then(Got(dec2), h.cont[1]) = total
       /\ todo \in Seq(Seq(Types)) /\ todo # <<>> /\ rest \in Seq(Types)
       /\ ReadingAs(L, G, total, output, windows, todo, decoded)
  BY <1>1, <1>7, <1>9, <1>10
<1> HIDE DEF wins2, stack2, dec2
<1>12. \E G2 : ReadingAs(L, G2, total, output, wins2, stack2, dec2)
  BY ONLY <1>11, LevelRead
<1> QED BY <1>12 DEF wins2, stack2, dec2

\* The first cells of a part.
LEMMA FirstCells ==
  ASSUME CompositeInv, phase = "read", NEW L, Laid(L, output), NEW v, NEW q,
         Placed(L, output, v, At, q, Input.end)
  PROVE  LET c == Coded(v, At) IN
         /\ v.kind = "missing" => Peek = "nothing" /\ q = At
         /\ v.kind = "element" => Peek = "data" /\ output[At].n = v.items[1].n /\ q = At + 1
         /\ v.kind \in Scalars \cup Composites =>
              v \in Values /\ Lies(L, output, v, At, q) /\ q <= Input.end + 1
         /\ v.kind \in Scalars => Peek = v.kind /\ output[At].n = v.n /\ q = At + 1
         /\ v.kind = "struct" => Peek = "described"
         /\ v.kind \in Composites => TagAt(c) = output[c].tag /\ c <= Input.end /\ c \in Nat /\ At <= c
         /\ v.kind \in Lists => TagAt(c) \in {"list0", "list8", "list32"}
         /\ v.kind = "map" => TagAt(c) \in {"map8", "map32"}
         /\ v.kind \in Arrays => TagAt(c) = v.kind
<1> DEFINE c == Coded(v, At)
<1>1. At \in Nat /\ 1 <= At /\ Input.end \in Nat /\ v \in Nodes /\ q \in Nat
  BY AtWork DEF Placed
<1>2. c \in Nat /\ At <= c /\ (v.kind # "struct" => c = At) /\ (v.kind = "struct" => At < c)
  BY <1>1 DEF Coded
<1>3. CASE v = Missing
  <2>1. v.kind = "missing" /\ v.kind \notin Scalars \cup Composites /\ v \notin Values
    BY <1>3, ValueParts DEF Missing, Node, Scalars, Composites, Lists, Arrays
  <2>2. At = Input.end + 1 /\ q = Input.end + 1
    BY <1>3, <2>1 DEF Placed
  <2>3. Peek = "nothing"
    BY <1>1, <2>2 DEF Peek, TagAt
  <2> QED BY <2>1, <2>2, <2>3 DEF Composites
<1>4. CASE v.kind = "element"
  <2>1. v.kind \notin Scalars \cup Composites /\ v \notin Values /\ v # Missing
    BY <1>4, ValueParts DEF Missing, Node, Scalars, Composites, Lists, Arrays
  <2>2. output[At] = Cell("data", v.items[1].n) /\ q = At + 1 /\ q <= Input.end + 1
    BY <2>1 DEF Placed
  <2>3. Peek = "data" /\ output[At].n = v.items[1].n
    BY <1>1, <2>2 DEF Peek, TagAt, Cell
  <2> QED BY <1>4, <2>1, <2>2, <2>3 DEF Composites
<1>5. CASE v \in Values
  <2>1. v.kind \in Scalars \cup Composites /\ v.kind # "missing" /\ v.kind # "element"
    BY <1>5, ValueParts DEF Scalars, Composites, Lists, Arrays
  <2>2. v # Missing
    BY <2>1 DEF Missing, Node
  <2>3. <<v, At, q>> \in L /\ q <= Input.end + 1
    BY <2>1, <2>2 DEF Placed
  <2> DEFINE s == <<v, At, q>>
  <2>4. s \in L /\ s[1] = v /\ s[2] = At /\ s[3] = q
    BY <2>3
  <2> HIDE DEF s
  <2>5. Lies(L, output, v, At, q)
    <3>1. Lies(L, output, s[1], s[2], s[3])
      BY <2>4 DEF Laid
    <3> QED BY <3>1, <2>4
  <2>6. c < q /\ (v.kind = "struct" => output[At].tag = "described")
    BY <2>5 DEF Lies
  <2> HIDE DEF c
  <2>7. c <= Input.end /\ At <= Input.end
    BY <1>1, <1>2, <2>3, <2>6
  <2>8. TagAt(c) = output[c].tag /\ Peek = output[At].tag
    BY <2>7 DEF TagAt, Peek
  <2>9. \/ LiesAsScalar(output, v, At, q)
        \/ LiesAsEmpty(output, v, c, q)
        \/ LiesAsSized(L, output, v, c, q)
        \/ LiesAsArray8(output, v, At, q)
        \/ LiesAsArray32(output, v, At, q)
    BY <2>5 DEF Lies, c
  <2>10. CASE LiesAsScalar(output, v, At, q)
    <3>1. v.kind \in Scalars /\ q = At + 1 /\ output[At].tag = v.kind /\ output[At].n = v.n
      BY <2>10 DEF LiesAsScalar, Cell
    <3>2. v.kind \notin Composites /\ v.kind \notin Lists /\ v.kind \notin Arrays /\ v.kind # "map" /\ v.kind # "struct"
      BY <3>1 DEF Scalars, Composites, Lists, Arrays
    <3> QED BY <2>1, <2>3, <2>5, <2>8, <3>1, <3>2, <1>5
  <2>11. CASE LiesAsEmpty(output, v, c, q) \/ LiesAsSized(L, output, v, c, q)
    <3>1. /\ v.kind \in Lists \cup {"map"}
          /\ v.kind \in Lists => output[c].tag \in {"list0", "list8", "list32"}
          /\ v.kind = "map" => output[c].tag \in {"map8", "map32"}
      BY <2>11 DEF LiesAsEmpty, LiesAsSized, Lists
    <3>2. v.kind \notin Scalars /\ v.kind \notin Arrays
      BY <3>1 DEF Scalars, Lists, Arrays
    <3> QED BY <1>2, <1>5, <2>1, <2>3, <2>5, <2>6, <2>7, <2>8, <3>1, <3>2 DEF c
  <2>12. CASE LiesAsArray8(output, v, At, q) \/ LiesAsArray32(output, v, At, q)
    <3>1. v.kind \in Arrays /\ output[At].tag = v.kind
      BY <2>12 DEF LiesAsArray8, LiesAsArray32, Arrays
    <3>2. v.kind \notin Scalars /\ v.kind \notin Lists /\ v.kind # "map" /\ v.kind # "struct"
      BY <3>1 DEF Scalars, Lists, Arrays
    <3> QED BY <1>2, <1>5, <2>1, <2>3, <2>5, <2>6, <2>7, <2>8, <3>1, <3>2 DEF c
  <2> QED BY <2>9, <2>10, <2>11, <2>12
<1>6. v \in Values \/ v = Missing \/ v.kind = "element"
  <2>1. v.kind \in Scalars \cup Composites \cup {"missing", "element"}
    BY <1>1, NodeParts
  <2> QED BY <2>1, <1>1, NodeParts
<1> QED BY <1>3, <1>4, <1>5, <1>6

Leading == {"described", "list0", "list8", "list32", "map8", "map32", "array8", "array32"}

\* The kinds of what is to be read, and what is seen of each.
LEMMA Sights ==
  ASSUME CompositeInv, phase = "read", Parts # <<>>, NEW v, NEW q, NEW after, NEW L, NEW total,
         Laid(L, output), Facing(v, q, after, L, total)
  PROVE  /\ \/ v.kind = "missing" /\ Peek = "nothing" /\ q = At
            \/ v.kind = "element" /\ Peek = "data" /\ output[At].n = v.items[1].n /\ q = At + 1
            \/ v.kind \in Scalars /\ Peek = v.kind /\ output[At].n = v.n /\ q = At + 1
            \/ v.kind \in Composites /\ Peek \in Leading
         /\ At \in Nat
         /\ v.kind \in Scalars \cup Composites => v \in Values
         /\ v.n \in Nat
         /\ v.kind = "element" => v.items[1].n \in Nat
<1>1. v \in Nodes /\ Placed(L, output, v, At, q, Input.end) /\ At \in Nat
  BY AtWork DEF Facing
<1>2. v.kind \in Scalars \cup Composites \cup {"missing", "element"} /\ v.n \in Nat
  BY <1>1, NodeParts
<1>3. CASE v.kind = "missing"
  <2>1. v.kind \notin Scalars \cup Composites
    BY <1>3 DEF Scalars, Composites, Lists, Arrays
  <2> QED BY <1>1, <1>2, <1>3, <2>1, FirstCells
<1>4. CASE v.kind = "element"
  <2>1. v.kind \notin Scalars \cup Composites
    BY <1>4 DEF Scalars, Composites, Lists, Arrays
  <2>2. PICK w \in Values : v = Element(w)
    BY <1>1, <1>4, NodeParts
  <2>3. v.items[1].n \in Nat
    <3>1. v.items = <<w>>
      BY <2>2 DEF Element, Node
    <3> QED BY <3>1, ValueParts
  <2> QED BY <1>1, <1>2, <1>4, <2>1, <2>3, FirstCells
<1>5. CASE v.kind \in Scalars
  <2>1. v.kind # "element"
    BY <1>5 DEF Scalars
  <2> QED BY <1>1, <1>2, <1>5, <2>1, FirstCells
<1>6. CASE v.kind \in Composites
  <2>1. v.kind # "element"
    BY <1>6 DEF Composites, Lists, Arrays
  <2>2. CASE v.kind = "struct"
    BY <1>1, <1>2, <1>6, <2>1, <2>2, FirstCells DEF Leading
  <2>3. CASE v.kind # "struct"
    <3>1. Peek = TagAt(Coded(v, At))
      BY <2>3 DEF Coded, Peek
    <3>2. v.kind \in Lists \/ v.kind = "map" \/ v.kind \in Arrays
      BY <1>6 DEF Composites
    <3>3. Peek \in {"list0", "list8", "list32", "map8", "map32"} \cup Arrays
      BY <1>1, <3>1, <3>2, FirstCells
    <3>4. Peek \in Leading
      BY <3>3 DEF Leading, Arrays
    <3> QED BY <1>1, <1>2, <1>6, <2>1, <3>4, FirstCells
  <2> QED BY <2>2, <2>3
<1> QED BY <1>2, <1>3, <1>4, <1>5, <1>6

\* What is to come of reading a scalar.
LEMMA ExpectedNone ==
  ASSUME NEW e, NEW v \in Nodes, NEW t, t.kind \in {"int", "fixed", "str"}
  PROVE  /\ v.kind = "missing" => ExpectedOf(e, v, t) = Bad({"panic"})
         /\ v.kind = "element" /\ t.kind # "str" => ExpectedOf(e, v, t) = Bad({"garbled"})
         /\ v.kind \notin {"missing", "element"} /\ v.kind # t.kind =>
              ExpectedOf(e, v, t) = Bad(IF t.kind = "fixed" THEN {"panic"} ELSE {"err"})
BY DEF ExpectedOf, Lists

LEMMA ExpectedScalar ==
  ASSUME NEW e, NEW v \in Nodes, NEW t, t.kind \in {"int", "fixed", "str"}, v.kind = t.kind
  PROVE  ExpectedOf(e, v, t) = Got(<<v.n>>)
BY DEF ExpectedOf, Lists

LEMMA ExpectedElement ==
  ASSUME NEW e, NEW v \in Nodes, NEW t, t.kind = "str", v.kind = "element"
  PROVE  /\ v.items[1].kind = "str" => ExpectedOf(e, v, t) = Got(<<v.items[1].n>>)
         /\ v.items[1].kind # "str" => ExpectedOf(e, v, t) = Bad({"err"})
BY DEF ExpectedOf, Lists

\* A scalar taken from the next cell.
LEMMA Takes ==
  ASSUME CompositeInv, phase = "read", Parts # <<>>,
         NEW L, NEW G, NEW total, ReadingAs(L, G, total, output, windows, todo, decoded),
         NEW n \in Nat, output[At].n = n, Expected[<<G[Len(todo)].vals[1], Part, 0>>] = Got(<<n>>),
         G[Len(todo)].pos[2] = At + 1, Input.constructor \notin Numbers, Take
  PROVE  GoesOn(total, phase', output, windows', todo', decoded')
<1> DEFINE l == <<n>>
<1>1. decoded \in Seq(Nat) /\ l \in Seq(Nat)
  BY DEF CompositeInv, TypeOK
<1>2. todo' = Others /\ windows' = Advance(1) /\ phase' = "read" /\ decoded' = Append(decoded, n)
  BY DEF Take
<1>3. decoded' = decoded \o l
  BY <1>1, <1>2
<1>4. At + 1 = G[Len(todo)].pos[2] /\ Expected[<<G[Len(todo)].vals[1], Part, 0>>] = Got(l)
  OBVIOUS
<1> HIDE DEF l
<1>5. \E G2 : ReadingAs(L, G2, total, output, windows', todo', decoded')
  BY <1>1, <1>2, <1>3, <1>4, Passes
<1> QED BY <1>2, <1>5 DEF GoesOn

LEMMA ReadsNumber ==
  ASSUME CompositeInv, NEW L, NEW G, NEW total,
         ReadingAs(L, G, total, output, windows, todo, decoded), ReadNumber
  PROVE  GoesOn(total, phase', output, windows', todo', decoded')
<1> DEFINE g == G[Len(todo)]
           v == g.vals[1]
           q == g.pos[2]
           e == Expected[<<v, Part, 0>>]
<1>1. phase = "read" /\ Parts # <<>> /\ Part.kind \in Numbers
  BY DEF ReadNumber, Reading
<1>2. Facing(v, q, g.cont[2], L, total) /\ Laid(L, output)
  BY <1>1, FacesPart
<1>3. /\ v \in Nodes /\ e = ExpectedOf(Expected, v, Part) /\ Suits(Input.constructor, 1, v)
  BY <1>2 DEF Facing
<1> HIDE DEF g, v, q, e
<1>4. ASSUME NEW o, Fail(o), e = Bad({o}), o # "ok" PROVE GoesOn(total, phase', output, windows', todo', decoded')
  BY <1>2, <1>4, StopsWith DEF Fail, e
<1>5. CASE v.kind = "missing"
  <2>1. Peek = "nothing"
    BY <1>1, <1>2, <1>5, Sights DEF Scalars, Composites, Lists, Arrays
  <2>2. Fail("panic")
    BY <2>1, NumberRead
  <2>3. e = Bad({"panic"})
    BY <1>1, <1>3, <1>5, ExpectedNone
  <2> QED BY <1>4, <2>2, <2>3
<1>6. CASE v.kind = "element"
  <2>1. Peek = "data"
    BY <1>1, <1>2, <1>6, Sights DEF Scalars, Composites, Lists, Arrays
  <2>2. Fail("garbled")
    BY <2>1, NumberRead
  <2>3. e = Bad({"garbled"})
    BY <1>1, <1>3, <1>6, ExpectedNone
  <2> QED BY <1>4, <2>2, <2>3
<1>7. CASE v.kind = Part.kind
  <2>1. Peek = Part.kind /\ output[At].n = v.n /\ q = At + 1 /\ v.n \in Nat
    BY <1>1, <1>2, <1>7, Sights DEF Scalars, Composites, Lists, Arrays
  <2>2. Take
    BY <2>1, NumberRead
  <2>3. e = Got(<<v.n>>)
    BY <1>1, <1>3, <1>7, ExpectedScalar
  <2>4. Input.constructor \notin Numbers
    BY <1>1, <1>3, <1>7 DEF Suits
  <2> QED BY <1>1, <2>1, <2>2, <2>3, <2>4, Takes DEF g, v, q, e
<1>8. CASE v.kind \notin {"missing", "element", Part.kind}
  <2>1. Peek \notin {"nothing", "data", Part.kind}
    BY <1>1, <1>2, <1>8, Sights DEF Scalars, Leading
  <2>2. CASE Part.kind = "fixed"
    <3>1. Fail("panic")
      BY <2>1, <2>2, NumberRead
    <3>2. e = Bad({"panic"})
      BY <1>1, <1>3, <1>8, <2>2, ExpectedNone
    <3> QED BY <1>4, <3>1, <3>2
  <2>3. CASE Part.kind # "fixed"
    <3>1. Fail("err")
      BY <2>1, <2>3, NumberRead
    <3>2. e = Bad({"err"})
      BY <1>1, <1>3, <1>8, <2>3, ExpectedNone
    <3> QED BY <1>4, <3>1, <3>2
  <2> QED BY <2>2, <2>3
<1> QED BY <1>5, <1>6, <1>7, <1>8

LEMMA ReadsStr ==
  ASSUME CompositeInv, NEW L, NEW G, NEW total,
         ReadingAs(L, G, total, output, windows, todo, decoded), ReadStr
  PROVE  GoesOn(total, phase', output, windows', todo', decoded')
<1> DEFINE g == G[Len(todo)]
           v == g.vals[1]
           q == g.pos[2]
           e == Expected[<<v, Part, 0>>]
           constructor == IF Input.constructor = "none" THEN Peek ELSE Input.constructor
<1>1. phase = "read" /\ Parts # <<>> /\ Part.kind = "str"
  BY DEF ReadStr, Reading
<1>2. Facing(v, q, g.cont[2], L, total) /\ Laid(L, output)
  BY <1>1, FacesPart
<1>3. /\ v \in Nodes /\ e = ExpectedOf(Expected, v, Part) /\ Suits(Input.constructor, 1, v)
  BY <1>2 DEF Facing
<1>0. /\ constructor \notin {"str", "nothing"} => Fail("err")
      /\ constructor \in {"str", "nothing"} => IF Peek = "nothing" THEN Fail("panic") ELSE Take
  BY DEF ReadStr
<1> HIDE DEF g, v, q, e
<1>4. ASSUME NEW o, Fail(o), e = Bad({o}), o # "ok" PROVE GoesOn(total, phase', output, windows', todo', decoded')
  BY <1>2, <1>4, StopsWith DEF Fail, e
<1>5. CASE v.kind = "missing"
  <2>1. Peek = "nothing"
    BY <1>1, <1>2, <1>5, Sights DEF Scalars, Composites, Lists, Arrays
  <2>2. Fail("panic")
    BY <1>0, <1>3, <1>5, <2>1 DEF Suits
  <2>3. e = Bad({"panic"})
    BY <1>1, <1>3, <1>5, ExpectedNone
  <2> QED BY <1>4, <2>2, <2>3
<1>6. CASE v.kind = "element"
  <2>1. Peek = "data" /\ output[At].n = v.items[1].n /\ q = At + 1 /\ v.items[1].n \in Nat
    BY <1>1, <1>2, <1>6, Sights DEF Scalars, Composites, Lists, Arrays
  <2>2. CASE v.items[1].kind = "str"
    <3>1. Input.constructor = "str"
      BY <1>3, <1>6, <2>2 DEF Suits
    <3>2. Take
      BY <1>0, <2>1, <3>1
    <3>3. e = Got(<<v.items[1].n>>)
      BY <1>1, <1>3, <1>6, <2>2, ExpectedElement
    <3> QED BY <1>1, <2>1, <3>1, <3>2, <3>3, Takes DEF g, v, q, e
  <2>3. CASE v.items[1].kind # "str"
    <3>1. Input.constructor \in Numbers
      BY <1>3, <1>6, <2>3 DEF Suits
    <3>2. Fail("err")
      BY <1>0, <3>1
    <3>3. e = Bad({"err"})
      BY <1>1, <1>3, <1>6, <2>3, ExpectedElement
    <3> QED BY <1>4, <3>2, <3>3
  <2> QED BY <2>2, <2>3
<1>9. v.kind \notin {"missing", "element"} => Input.constructor = "none"
  BY <1>3 DEF Suits
<1>7. CASE v.kind = "str"
  <2>1. Peek = "str" /\ output[At].n = v.n /\ q = At + 1 /\ v.n \in Nat
    BY <1>1, <1>2, <1>7, Sights DEF Scalars, Composites, Lists, Arrays
  <2>2. Take /\ Input.constructor \notin Numbers
    BY <1>0, <1>7, <1>9, <2>1
  <2>3. e = Got(<<v.n>>)
    BY <1>1, <1>3, <1>7, ExpectedScalar
  <2> QED BY <1>1, <2>1, <2>2, <2>3, Takes DEF g, v, q, e
<1>8. CASE v.kind \notin {"missing", "element", "str"}
  <2>1. Peek \notin {"nothing", "str"}
    BY <1>1, <1>2, <1>8, Sights DEF Scalars, Leading
  <2>2. Fail("err")
    BY <1>0, <1>8, <1>9, <2>1
  <2>3. e = Bad({"err"})
    BY <1>1, <1>3, <1>8, ExpectedNone
  <2> QED BY <1>4, <2>2, <2>3
<1> QED BY <1>5, <1>6, <1>7, <1>8

LEMMA ReadsTuple ==
  ASSUME CompositeInv, NEW L, NEW G, NEW total,
         ReadingAs(L, G, total, output, windows, todo, decoded), ReadTuple
  PROVE  GoesOn(total, phase', output, windows', todo', decoded')
<1> DEFINE g == G[Len(todo)]
           v == g.vals[1]
<1>1. phase = "read" /\ Parts # <<>> /\ Part.kind = "tuple" /\ phase' = "panic"
  BY DEF ReadTuple, Reading, Fail
<1>2. Facing(v, g.pos[2], g.cont[2], L, total)
  BY <1>1, FacesPart
<1>3. Expected[<<v, Part, 0>>] = Bad({"panic"})
  BY <1>1, <1>2 DEF Facing, ExpectedOf
<1> QED BY <1>1, <1>2, <1>3, StopsWith

\* The first part read as another type that makes the same of it.
LEMMA LevelRetyped ==
  ASSUME NEW L, NEW out, NEW w, NEW types, NEW g, NEW rest, Level(L, out, w, types, g, rest),
         NEW s, Len(s) = Len(types), \A i \in 1..Len(types) : i # 1 => s[i] = types[i],
         Expected[<<g.vals[1], s[1], 0>>] = Expected[<<g.vals[1], types[1], 0>>]
  PROVE  Level(L, out, w, s, g, rest)
<1>1. ASSUME NEW i \in 1..Len(types)
      PROVE  Expected[<<g.vals[i], s[i], 0>>] = Expected[<<g.vals[i], types[i], 0>>]
  <2>1. CASE i = 1
    BY <2>1
  <2>2. CASE i # 1
    BY <2>2
  <2> QED BY <2>1, <2>2
<1> QED BY <1>1 DEF Level

LEMMA ExpectedOption ==
  ASSUME NEW e, NEW v \in Nodes, NEW t, t.kind = "option"
  PROVE  /\ v.kind \in {"missing", "none"} => ExpectedOf(e, v, t) = Got(<<0>>)
         /\ v.kind = "element" => ExpectedOf(e, v, t) = Bad({"garbled"})
         /\ v.kind \notin {"missing", "none", "element"} => ExpectedOf(e, v, t) = e[<<v, t.items[1], 0>>]
BY DEF ExpectedOf

LEMMA ReadsOption ==
  ASSUME CompositeInv, NEW L, NEW G, NEW total,
         ReadingAs(L, G, total, output, windows, todo, decoded), ReadOption
  PROVE  GoesOn(total, phase', output, windows', todo', decoded')
<1> DEFINE g == G[Len(todo)]
           v == g.vals[1]
           q == g.pos[2]
           e == Expected[<<v, Part, 0>>]
<1>1. phase = "read" /\ Parts # <<>> /\ Part.kind = "option"
  BY DEF ReadOption, Reading
<1>2. /\ Facing(v, q, g.cont[2], L, total) /\ Laid(L, output)
      /\ Level(L, output, Input, Parts, g, Rest(G, Len(todo)))
  BY <1>1, FacesPart
<1>3. /\ v \in Nodes /\ e = ExpectedOf(Expected, v, Part) /\ Suits(Input.constructor, 1, v) /\ Part \in Types
  BY <1>2 DEF Facing
<1> HIDE DEF g, v, q, e
<1>4. CASE v.kind \in {"missing", "none"}
  <2>1. \/ Peek = "nothing" /\ q = At
        \/ Peek = "none" /\ q = At + 1
    BY <1>1, <1>2, <1>4, Sights DEF Scalars, Composites, Lists, Arrays
  <2>2. /\ decoded' = Append(decoded, 0) /\ todo' = Others /\ UNCHANGED phase
        /\ windows' = IF Peek = "none" THEN Advance(1) ELSE windows
    BY <2>1 DEF ReadOption
  <2> DEFINE l == <<0>>
  <2>3. decoded' = decoded \o l /\ l \in Seq(Nat)
    <3>1. decoded \in Seq(Nat)
      BY DEF CompositeInv, TypeOK
    <3> QED BY <3>1, <2>2
  <2>4. e = Got(l)
    BY <1>1, <1>3, <1>4, ExpectedOption
  <2> HIDE DEF l
  <2>5. Input.constructor \notin Numbers
    BY <1>3, <1>4 DEF Suits
  <2>6. At \in Nat
    BY <1>1, AtWork
  <2>7. CASE Peek = "none"
    <3>1. windows' = Advance(1) /\ At + 1 = q
      BY <2>1, <2>2, <2>7
    <3>2. \E G2 : ReadingAs(L, G2, total, output, windows', todo', decoded')
      BY <1>1, <2>2, <2>3, <2>4, <2>5, <3>1, Passes DEF g, v, q, e
    <3> QED BY <1>1, <2>2, <3>2 DEF GoesOn
  <2>8. CASE Peek # "none"
    <3>1. windows' = Advance(0) /\ At + 0 = q
      BY <1>1, <2>1, <2>2, <2>6, <2>8, StayedPut
    <3>2. \E G2 : ReadingAs(L, G2, total, output, windows', todo', decoded')
      BY <1>1, <2>2, <2>3, <2>4, <2>5, <3>1, Passes DEF g, v, q, e
    <3> QED BY <1>1, <2>2, <3>2 DEF GoesOn
  <2> QED BY <2>7, <2>8
<1>5. CASE v.kind = "element"
  <2>1. Peek = "data"
    BY <1>1, <1>2, <1>5, Sights DEF Scalars, Composites, Lists, Arrays
  <2>2. phase' = "garbled"
    BY <2>1 DEF ReadOption, Fail
  <2>3. e = Bad({"garbled"})
    BY <1>1, <1>3, <1>5, ExpectedOption
  <2> QED BY <1>2, <2>2, <2>3, StopsWith DEF e
<1>6. CASE v.kind \notin {"missing", "none", "element"}
  <2>1. Peek \notin {"nothing", "none", "data"}
    BY <1>1, <1>2, <1>6, Sights DEF Scalars, Leading
  <2>2. todo' = <<Part.items \o Tail(Parts)>> \o Tail(todo) /\ UNCHANGED <<phase, decoded, windows>>
    BY <2>1 DEF ReadOption
  <2> DEFINE s == Part.items \o Tail(Parts)
             d == Len(todo)
  <2>3. /\ todo \in Seq(Seq(Types)) /\ todo # <<>> /\ Parts \in Seq(Types) /\ Tail(Parts) \in Seq(Types)
        /\ Input = windows[d]
    BY <1>1, AtWork, Stack DEF Trees, Input, Last
  <2>4. Part.items \in Seq(Types) /\ Len(Part.items) = 1
    BY <1>1, <1>3, TypeParts, TypesAssumption
  <2>5. /\ s \in Seq(Types) /\ Len(s) = Len(Parts) /\ s[1] = Part.items[1]
        /\ \A i \in 1..Len(Parts) : i # 1 => s[i] = Parts[i]
    <3> DEFINE rest == Tail(Parts)
               first == Part.items
               n == Len(Parts)
    <3>1. n \in Nat /\ n >= 1 /\ Len(rest) = n - 1 /\ \A i \in 1..(n - 1) : rest[i] = Parts[i + 1]
      <4>1. n \in Nat /\ n # 0
        BY <1>1, <2>3, LenProperties, EmptySeq
      <4> QED BY <4>1, <1>1, <2>3, HeadTailProperties
    <3>2. rest \in Seq(Types) /\ first \in Seq(Types) /\ Len(first) = 1
      BY <2>3, <2>4
    <3> HIDE DEF rest, first, n
    <3>3. /\ first \o rest \in Seq(Types) /\ Len(first \o rest) = 1 + (n - 1)
          /\ \A i \in 1..(1 + (n - 1)) : (first \o rest)[i] = IF i <= 1 THEN first[i] ELSE rest[i - 1]
      <4>1. /\ first \o rest \in Seq(Types) /\ Len(first \o rest) = Len(first) + Len(rest)
            /\ \A i \in 1..(Len(first) + Len(rest)) :
                 (first \o rest)[i] = IF i <= Len(first) THEN first[i] ELSE rest[i - Len(first)]
        BY <3>2, ConcatProperties
      <4> QED BY <3>1, <3>2, <4>1
    <3>4. (first \o rest)[1] = first[1]
      <4>1. 1 \in 1..(1 + (n - 1))
        BY <3>1
      <4> QED BY <4>1, <3>3
    <3>5. ASSUME NEW i \in 1..n, i # 1 PROVE (first \o rest)[i] = Parts[i]
      <4>1. i \in 1..(1 + (n - 1)) /\ ~(i <= 1) /\ i - 1 \in 1..(n - 1) /\ (i - 1) + 1 = i
        BY <3>1, <3>5
      <4> QED BY <4>1, <3>1, <3>3
    <3> QED BY <3>1, <3>3, <3>4, <3>5 DEF n, rest, first
  <2>6. Parts[1] = Part
    BY <1>1, <2>3, HeadTailProperties DEF Part
  <2>7. e = Expected[<<v, Part.items[1], 0>>]
    BY <1>1, <1>3, <1>6, ExpectedOption
  <2>8. Exchanges(todo', todo, s)
    BY <2>2 DEF Exchanges
  <2> HIDE DEF s
  <2>9. Level(L, output, Input, s, g, Rest(G, d))
    <3>1. Expected[<<g.vals[1], s[1], 0>>] = Expected[<<g.vals[1], Parts[1], 0>>]
      BY <2>5, <2>6, <2>7 DEF e, v
    <3> QED BY <1>2, <2>5, <3>1, LevelRetyped
  <2>10. Then(Got(decoded), g.cont[1]) = total
    BY DEF ReadingAs, g
  <2> DEFINE stack2 == todo'
  <2>11. /\ Exchanges(stack2, todo, s) /\ s \in Seq(Types) /\ todo \in Seq(Seq(Types)) /\ todo # <<>>
         /\ ReadingAs(L, G, total, output, windows, todo, decoded)
         /\ Level(L, output, windows[Len(todo)], s, g, Rest(G, Len(todo)))
         /\ Then(Got(decoded), g.cont[1]) = total
    BY <2>3, <2>5, <2>8, <2>9, <2>10
  <2> HIDE DEF stack2, d
  <2>12. \E G2 : ReadingAs(L, G2, total, output, windows, stack2, decoded)
    BY ONLY <2>11, LevelRead
  <2> QED BY <1>1, <2>2, <2>12 DEF GoesOn, stack2
<1> QED BY <1>4, <1>5, <1>6

\* What the parts of a composite come to, one after the other.
LEMMA ExpectedParts ==
  ASSUME NEW v \in Nodes, NEW t \in Types
  PROVE  /\ \A i \in Nat : Expected[<<v, t, i>>] \in Results
         /\ Expected[<<v, t, PartCount(v, t) + 1>>] = Got(<<>>)
         /\ \A i \in 1..PartCount(v, t) :
              Expected[<<v, t, i>>] =
                Then(Expected[<<PartOf(v, i), PartType(t, i), 0>>], Expected[<<v, t, i + 1>>])
<1> DEFINE n == PartCount(v, t)
<1>1. n \in Nat
  BY PartRead
<1>2. ASSUME NEW i \in Nat
      PROVE  /\ Expected[<<v, t, i>>] \in Results
             /\ Expected[<<v, t, i>>] = Outcome(Expected, v, t, i)
  <2> DEFINE x == <<v, t, i>>
  <2>1. x \in Readings /\ x[1] = v /\ x[2] = t /\ x[3] = i
    BY DEF Readings
  <2> HIDE DEF x
  <2>2. Expected[x] \in Results /\ Expected[x] = Outcome(Expected, x[1], x[2], x[3])
    BY <2>1, ExpectedIs, ExpectedDef
  <2> QED BY <2>1, <2>2 DEF x
<1> HIDE DEF n
<1>3. Expected[<<v, t, n + 1>>] = Got(<<>>)
  <2>1. n + 1 \in Nat /\ n + 1 # 0 /\ n + 1 > n
    BY <1>1
  <2> QED BY <2>1, <1>2 DEF Outcome, n
<1>4. ASSUME NEW i \in 1..n
      PROVE  Expected[<<v, t, i>>] =
               Then(Expected[<<PartOf(v, i), PartType(t, i), 0>>], Expected[<<v, t, i + 1>>])
  <2>1. i \in Nat /\ i # 0 /\ ~(i > n)
    BY <1>1
  <2> QED BY <2>1, <1>2 DEF Outcome, n
<1> QED BY <1>2, <1>3, <1>4 DEF n

\* Where the parts of a composite that lies in the output are.
Spread(L, out, v, pos, first, q, constructor) ==
  /\ pos[1] = first
  /\ \A i \in 1..Len(v.items) :
       /\ PartOf(v, i) # Missing
       /\ \A end \in Nat : q <= end + 1 => Placed(L, out, PartOf(v, i), pos[i], pos[i + 1], end)
       /\ Suits(constructor, i, PartOf(v, i))
  /\ pos[Len(v.items) + 1] = q
  /\ constructor \in {"none", "str"} \cup Numbers
  /\ constructor \in Numbers => Len(v.items) > 0

LEMMA SpreadSized ==
  ASSUME NEW L, NEW out, Laid(L, out), NEW v \in Values, v.kind \in Lists \cup {"map"},
         NEW pos, NEW c \in Nat, NEW q \in Nat, Chained(L, v.items, pos, c, q)
  PROVE  Spread(L, out, v, pos, c, q, "none")
<1> DEFINE n == Len(v.items)
<1>1. n \in Nat /\ v.items \in Seq(Values) /\ \A i \in 1..n : v.items[i] \in Values
  <2>1. v.items \in Seq(Values)
    BY ValueParts
  <2> QED BY <2>1, LenProperties, ElementOfSeq
<1>2. v.kind # "array8"
  BY DEF Lists
<1>3. /\ pos[1] = c /\ pos[n + 1] = q
      /\ \A i \in 1..n : <<v.items[i], pos[i], pos[i + 1]>> \in L
      /\ \A i \in 1..(n + 1) : pos[i] \in Nat /\ pos[i] <= q
  BY DEF Chained
<1> HIDE DEF n
<1>4. ASSUME NEW i \in 1..n
      PROVE  /\ PartOf(v, i) # Missing
             /\ \A end \in Nat : q <= end + 1 => Placed(L, out, PartOf(v, i), pos[i], pos[i + 1], end)
             /\ Suits("none", i, PartOf(v, i))
  <2>1. ~(i > n) /\ i \in 1..(n + 1) /\ i + 1 \in 1..(n + 1)
    BY <1>1
  <2>2. PartOf(v, i) = v.items[i]
    BY <2>1, <1>2 DEF PartOf, n
  <2> DEFINE u == v.items[i]
  <2>3. u \in Values /\ u.kind \in Scalars \cup Composites
    BY <1>1, ValueParts
  <2> HIDE DEF u
  <2>4. u.kind # "missing" /\ u.kind # "element"
    BY <2>3 DEF Scalars, Composites, Lists, Arrays
  <2>5. u # Missing /\ u \in Nodes
    BY <2>3, <2>4 DEF Missing, Node, Nodes
  <2>6. Suits("none", i, u)
    BY <2>4 DEF Suits
  <2>7. ASSUME NEW end \in Nat, q <= end + 1 PROVE Placed(L, out, u, pos[i], pos[i + 1], end)
    <3>1. pos[i] \in Nat /\ pos[i + 1] \in Nat /\ pos[i + 1] <= end + 1
      BY <2>1, <2>7, <1>3
    <3>2. <<u, pos[i], pos[i + 1]>> \in L
      BY <1>3 DEF u
    <3> QED BY <2>3, <2>5, <3>1, <3>2 DEF Placed
  <2> QED BY <2>2, <2>5, <2>6, <2>7 DEF u
<1> QED BY <1>3, <1>4 DEF Spread, n

LEMMA SpreadArray ==
  ASSUME NEW L, NEW out, NEW v \in Values, NEW p \in Nat, NEW q \in Nat, LiesAsArray8(out, v, p, q)
  PROVE  \E pos : Spread(L, out, v, pos, p + 4, q, out[p + 3].tag)
<1> DEFINE n == Len(v.items)
           pos == [i \in 1..(n + 1) |-> p + 3 + i]
           tag == out[p + 3].tag
<1>1. n \in Nat /\ v.items \in Seq(Values) /\ \A i \in 1..n : v.items[i] \in Values
  <2>1. v.items \in Seq(Values)
    BY ValueParts
  <2> QED BY <2>1, LenProperties, ElementOfSeq
<1>2. /\ v.kind = "array8" /\ q = p + 4 + n
      /\ tag = (IF n = 0 THEN "str" ELSE v.items[1].kind)
      /\ tag \in {"int", "fixed", "str"}
      /\ \A i \in 1..n : v.items[i].kind = tag
      /\ \A k \in (p + 4)..(p + 3 + n) : out[k] = Cell("data", v.items[k - p - 3].n)
  BY DEF LiesAsArray8
<1>3. /\ \A i \in 1..(n + 1) : pos[i] = p + 3 + i
  OBVIOUS
<1> HIDE DEF n, pos, tag
<1>4. pos[1] = p + 4 /\ pos[n + 1] = q
  <2>1. 1 \in 1..(n + 1) /\ n + 1 \in 1..(n + 1) /\ p + 3 + 1 = p + 4 /\ p + 3 + (n + 1) = p + 4 + n
    BY <1>1
  <2> QED BY <2>1, <1>2, <1>3
<1>5. ASSUME NEW i \in 1..n
      PROVE  /\ PartOf(v, i) # Missing
             /\ \A end \in Nat : q <= end + 1 => Placed(L, out, PartOf(v, i), pos[i], pos[i + 1], end)
             /\ Suits(tag, i, PartOf(v, i))
  <2>1. ~(i > n) /\ i \in 1..(n + 1) /\ i + 1 \in 1..(n + 1)
    BY <1>1
  <2> DEFINE w == v.items[i]
             u == Element(w)
  <2>2. PartOf(v, i) = u
    BY <2>1, <1>2 DEF PartOf, n
  <2>3. w \in Values /\ w.kind = tag
    BY <1>1, <1>2
  <2>4. u.kind = "element" /\ u.items = <<w>> /\ u.items[1] = w
    BY DEF Element, Node
  <2>5. u \in Nodes /\ u # Missing
    BY <2>3, <2>4 DEF Nodes, Missing, Node
  <2> DEFINE k == p + 3 + i
  <2>6. k \in (p + 4)..(p + 3 + n) /\ k - p - 3 = i /\ pos[i] = k /\ pos[i + 1] = k + 1 /\ k \in Nat /\ k + 1 <= q
    <3>1. pos[i] = p + 3 + i /\ pos[i + 1] = p + 3 + (i + 1)
      BY <2>1, <1>3
    <3>2. n \in Nat /\ i \in 1..n /\ q = p + 4 + n
      BY <1>1, <1>2
    <3>3. p + 3 + (i + 1) = (p + 3 + i) + 1 /\ (p + 3 + i) - p - 3 = i /\ p + 3 + i \in Nat /\ (p + 3 + i) + 1 <= q
          /\ p + 3 + i \in (p + 4)..(p + 3 + n)
      BY ONLY <3>2, p \in Nat, q \in Nat
    <3> QED BY <3>1, <3>3
  <2>7. out[k] = Cell("data", w.n)
    <3>1. out[k] = Cell("data", v.items[k - p - 3].n)
      BY <2>6, <1>2
    <3> QED BY <2>6, <3>1
  <2> HIDE DEF k, u, w
  <2>8. ASSUME NEW end \in Nat, q <= end + 1 PROVE Placed(L, out, u, pos[i], pos[i + 1], end)
    <3>1. k + 1 <= end + 1
      BY <2>6, <2>8
    <3> QED BY <2>4, <2>5, <2>6, <2>7, <3>1 DEF Placed
  <2>9. Suits(tag, i, u)
    BY <2>3, <2>4, <1>2 DEF Suits
  <2> QED BY <2>2, <2>5, <2>8, <2>9
<1>6. tag \in {"none", "str"} \cup Numbers /\ (tag \in Numbers => n > 0)
  <2>1. n = 0 => tag = "str"
    BY <1>2
  <2>2. n = 0 \/ n > 0
    BY <1>1
  <2> QED BY <2>1, <2>2, <1>2
<1>7. Spread(L, out, v, pos, p + 4, q, tag)
  BY <1>4, <1>5, <1>6 DEF Spread, n
<1> QED BY <1>7 DEF tag

\* The header of a composite says where its parts are.
LEMMA HeaderSpread ==
  ASSUME CompositeInv, phase = "read", NEW L, Laid(L, output), NEW v \in Values, NEW q \in Nat,
         Lies(L, output, v, At, q), q <= Input.end + 1,
         v.kind \in Lists \cup {"map", "array8"}
  PROVE  LET c == Coded(v, At)
             h == Header(c) IN
         /\ ~BadHeader(c)
         /\ h.count = Len(v.items) /\ h.last = q - 1 /\ h.first \in Nat /\ c < h.first /\ h.first <= q
         /\ \E pos : Spread(L, output, v, pos, h.first, q, h.constructor)
<1> DEFINE c == Coded(v, At)
           h == Header(c)
           tag == output[c].tag
<1>1. At \in Nat /\ 1 <= At /\ Input.end \in Nat /\ c \in Nat /\ At <= c
  BY AtWork DEF Coded
<1>2. v.items \in Seq(Values) /\ Len(v.items) \in Nat
  BY ValueParts, LenProperties
<1>3. c < q
  BY DEF Lies
<1>4. /\ h.first = c + HeaderCells(tag)
      /\ h.count = (IF tag = "list0" THEN 0 ELSE output[c + 2].n)
      /\ h.last = (IF tag = "list0" THEN c ELSE c + 1 + output[c + 1].n)
      /\ h.constructor = (IF tag = "array8" THEN output[c + 3].tag ELSE "none")
  BY DEF Header
<1>5. BadHeader(c) <=> c + HeaderCells(tag) - 1 > Input.end \/ h.last < h.first - 1
  BY DEF BadHeader
<1>6. v.kind \notin Scalars /\ v.kind # "array32"
  BY DEF Lists, Scalars
<1>7. \/ LiesAsEmpty(output, v, c, q)
      \/ LiesAsSized(L, output, v, c, q)
      \/ LiesAsArray8(output, v, At, q)
  BY <1>6 DEF Lies, LiesAsScalar, LiesAsArray32
<1> HIDE DEF c, h, tag
<1>8. CASE LiesAsEmpty(output, v, c, q)
  <2>1. v.kind \in Lists /\ v.items = <<>> /\ q = c + 1 /\ tag = "list0"
    BY <1>8 DEF LiesAsEmpty, tag
  <2>2. HeaderCells(tag) = 1
    BY <2>1 DEF HeaderCells
  <2>3. h.first = c + 1 /\ h.count = 0 /\ h.last = c /\ h.constructor = "none"
    BY <2>1, <2>2, <1>4
  <2>4. ~BadHeader(c)
    BY <2>1, <2>2, <2>3, <1>1, <1>3, <1>5
  <2>5. Len(v.items) = 0
    BY <2>1
  <2> DEFINE pos == [i \in 1..1 |-> q]
  <2>6. Chained(L, v.items, pos, q, q)
    BY <2>1, <2>5 DEF Chained
  <2> HIDE DEF pos
  <2>7. Spread(L, output, v, pos, q, q, "none")
    BY <2>1, <2>6, SpreadSized
  <2> QED BY <2>1, <2>3, <2>4, <2>5, <2>7, <1>1 DEF c, h
<1>9. CASE LiesAsSized(L, output, v, c, q)
  <2>1. /\ tag \in {"map8", "map32", "list8", "list32"} /\ c + 3 <= q
        /\ output[c + 1].n = q - c - 2 /\ output[c + 2] = Cell("count", Len(v.items))
        /\ v.kind \in Lists \cup {"map"}
    BY <1>9 DEF LiesAsSized, tag
  <2>2. HeaderCells(tag) = 3
    BY <2>1 DEF HeaderCells
  <2>3. output[c + 2].n = Len(v.items)
    BY <2>1 DEF Cell
  <2>4. h.first = c + 3 /\ h.count = Len(v.items) /\ h.last = q - 1 /\ h.constructor = "none"
    BY <2>1, <2>2, <2>3, <1>1, <1>4
  <2>5. ~BadHeader(c)
    BY <2>1, <2>2, <2>4, <1>1, <1>5
  <2>6. PICK pos : Chained(L, v.items, pos, c + 3, q)
    BY <1>9 DEF LiesAsSized
  <2>7. Spread(L, output, v, pos, c + 3, q, "none")
    <3>1. c + 3 \in Nat
      BY <1>1
    <3> QED BY <2>1, <2>6, <3>1, SpreadSized
  <2> QED BY <2>1, <2>4, <2>5, <2>7, <1>1 DEF c, h
<1>10. CASE LiesAsArray8(output, v, At, q)
  <2>1. /\ v.kind = "array8" /\ q = At + 4 + Len(v.items)
        /\ output[At].tag = "array8" /\ output[At + 1] = Cell("size", Len(v.items) + 2)
        /\ output[At + 2] = Cell("count", Len(v.items))
    BY <1>10 DEF LiesAsArray8
  <2>2. c = At
    BY <2>1 DEF c, Coded
  <2>3. tag = "array8" /\ HeaderCells(tag) = 4
    BY <2>1, <2>2 DEF HeaderCells, tag
  <2>4. output[c + 1].n = Len(v.items) + 2 /\ output[c + 2].n = Len(v.items)
    BY <2>1, <2>2 DEF Cell
  <2>9. /\ h.first = c + 4 /\ h.count = Len(v.items) /\ h.constructor = output[c + 3].tag
        /\ h.last = c + 1 + (Len(v.items) + 2)
    BY <2>3, <2>4, <1>4
  <2>10. c + 1 + (Len(v.items) + 2) = q - 1
    <3> DEFINE n == Len(v.items)
    <3>1. n \in Nat /\ q = c + 4 + n /\ c \in Nat
      BY <2>1, <2>2, <1>1, <1>2
    <3> HIDE DEF n
    <3>2. c + 1 + (n + 2) = q - 1
      BY ONLY <3>1, q \in Nat
    <3> QED BY <3>2 DEF n
  <2>5. /\ h.first = c + 4 /\ h.count = Len(v.items) /\ h.last = q - 1 /\ h.constructor = output[c + 3].tag
    BY <2>9, <2>10
  <2>11. c + HeaderCells(tag) - 1 = c + 3 /\ h.first - 1 = c + 3
    <3>0. c \in Nat
      BY <1>1
    <3>2. HeaderCells(tag) = 4 /\ h.first = c + 4
      BY <2>3, <2>5
    <3>3. c + HeaderCells(tag) = c + 4
      BY <3>2
    <3>4. c + HeaderCells(tag) \in Nat /\ h.first \in Nat
      BY <3>0, <3>2, <3>3
    <3> QED BY <3>0, <3>2, <3>3, <3>4
  <2>12. c + 4 <= q /\ c + 3 <= Input.end /\ c + 3 <= q - 1
    <3> DEFINE n == Len(v.items)
               end == Input.end
    <3>1. n \in Nat /\ q = c + 4 + n /\ c \in Nat /\ end \in Nat /\ q <= end + 1
      BY <2>1, <2>2, <1>1, <1>2
    <3> HIDE DEF n, end
    <3>2. c + 4 <= q /\ c + 3 <= end /\ c + 3 <= q - 1
      BY ONLY <3>1, q \in Nat
    <3> QED BY <3>2 DEF end
  <2>6. ~BadHeader(c) /\ h.first <= q
    <3>1. ~(c + 3 > Input.end) /\ ~(q - 1 < c + 3)
      BY <2>12, <1>1
    <3> QED BY <3>1, <2>5, <2>11, <2>12, <1>5
  <2>7. \E pos : Spread(L, output, v, pos, c + 4, q, output[c + 3].tag)
    BY <1>1, <1>10, <2>2, SpreadArray
  <2> QED BY <2>5, <2>6, <2>7, <1>1 DEF c, h
<1> QED BY <1>7, <1>8, <1>9, <1>10

\* A window that begins with a composite's parts, and the types they are read
\* as.
Holds(w, first, q, constructor) ==
  w.at = first /\ w.constructor = constructor /\ w.end \in Nat /\ q <= w.end + 1
Typed(types, v, t) ==
  Len(types) = PartCount(v, t) /\ \A i \in 1..PartCount(v, t) : types[i] = PartType(t, i)

\* What is to be read of a composite's parts: those its input holds, then
\* nothing.
LEMMA LevelParts ==
  ASSUME NEW L, NEW out, NEW v \in Values, NEW t \in Types, NEW pos, NEW first \in Nat, NEW q \in Nat,
         NEW constructor, Spread(L, out, v, pos, first, q, constructor), NEW rest \in Results,
         NEW w, Holds(w, first, q, constructor),
         w.end + 1 = q \/ PartCount(v, t) = Len(v.items),
         NEW types, Typed(types, v, t)
  PROVE  \E g : /\ Level(L, out, w, types, g, rest)
                /\ g.cont[1] = Then(Expected[<<v, t, 1>>], rest)
                /\ PartCount(v, t) = Len(v.items) => g.pos[Len(types) + 1] = q
<1> DEFINE n == PartCount(v, t)
           m == Len(v.items)
           end == w.end
           at == [i \in Nat |-> IF i <= m THEN pos[i] ELSE q]
           g == [vals |-> [i \in Nat |-> PartOf(v, i)], pos |-> at,
                 cont |-> [i \in Nat |-> Then(Expected[<<v, t, i>>], rest)]]
<1>0. v \in Nodes
  BY DEF Nodes
<1>1. n \in Nat /\ m \in Nat /\ end \in Nat /\ q <= end + 1 /\ (end + 1 = q \/ n = m)
  BY <1>0, PartRead, ValueParts, LenProperties DEF Holds
<1>2. \A i \in Nat : /\ g.vals[i] = PartOf(v, i) /\ g.cont[i] = Then(Expected[<<v, t, i>>], rest)
                     /\ g.pos[i] = IF i <= m THEN pos[i] ELSE q
  OBVIOUS
<1>3. /\ pos[1] = first /\ pos[m + 1] = q
      /\ constructor \in {"none", "str"} \cup Numbers
      /\ constructor \in Numbers => m > 0
      /\ \A i \in 1..m : Placed(L, out, PartOf(v, i), pos[i], pos[i + 1], end) /\ Suits(constructor, i, PartOf(v, i))
  BY <1>1 DEF Spread
<1>4. /\ \A i \in Nat : Expected[<<v, t, i>>] \in Results
      /\ Expected[<<v, t, n + 1>>] = Got(<<>>)
      /\ \A i \in 1..n : Expected[<<v, t, i>>] =
                           Then(Expected[<<PartOf(v, i), PartType(t, i), 0>>], Expected[<<v, t, i + 1>>])
  BY <1>0, ExpectedParts
<1>5. \A i \in 1..n : types[i] = PartType(t, i) /\ PartOf(v, i) \in Nodes /\ PartType(t, i) \in Types
  BY <1>0, PartRead DEF Typed
<1>6. \A i \in Nat : i > m => PartOf(v, i) = Missing
  BY DEF PartOf
<1>7. Missing \in Nodes /\ Missing.kind = "missing"
  BY DEF Nodes, Missing, Node
<1> HIDE DEF g, m, n, end
<1>8. \A i \in 1..(m + 1) : g.pos[i] = pos[i]
  <2> SUFFICES ASSUME NEW i \in 1..(m + 1) PROVE g.pos[i] = pos[i]
    OBVIOUS
  <2>1. i \in Nat /\ (i <= m \/ (i = m + 1 /\ ~(i <= m)))
    BY <1>1
  <2> QED BY <2>1, <1>2, <1>3
<1>9. \A i \in Nat : i > m => g.pos[i] = q
  <2> SUFFICES ASSUME NEW i \in Nat, i > m PROVE g.pos[i] = q
    OBVIOUS
  <2>1. ~(i <= m)
    BY <1>1
  <2> QED BY <2>1, <1>2
<1>10. ASSUME NEW i \in 1..n
       PROVE  /\ Placed(L, out, g.vals[i], g.pos[i], g.pos[i + 1], end)
              /\ Suits(constructor, i, g.vals[i])
              /\ g.cont[i] = Then(Expected[<<g.vals[i], types[i], 0>>], g.cont[i + 1])
  <2>0. i \in Nat /\ i + 1 \in Nat
    BY <1>1
  <2>1. i \in Nat /\ i + 1 \in Nat /\ g.vals[i] = PartOf(v, i)
    BY <2>0, <1>2
  <2>2. ASSUME i <= m
        PROVE  Placed(L, out, g.vals[i], g.pos[i], g.pos[i + 1], end) /\ Suits(constructor, i, g.vals[i])
    <3>1. i \in 1..m /\ i \in 1..(m + 1) /\ i + 1 \in 1..(m + 1)
      BY <2>2, <1>1
    <3>2. g.pos[i] = pos[i] /\ g.pos[i + 1] = pos[i + 1]
      BY <3>1, <1>8
    <3>3. Placed(L, out, PartOf(v, i), pos[i], pos[i + 1], end) /\ Suits(constructor, i, PartOf(v, i))
      BY <3>1, <1>3
    <3> QED BY <2>1, <3>2, <3>3
  <2>3. ASSUME ~(i <= m)
        PROVE  Placed(L, out, g.vals[i], g.pos[i], g.pos[i + 1], end) /\ Suits(constructor, i, g.vals[i])
    <3>1. i > m /\ i + 1 > m /\ end + 1 = q
      BY <2>3, <1>1
    <3>2. g.vals[i] = Missing /\ g.pos[i] = end + 1 /\ g.pos[i + 1] = end + 1 /\ end + 1 \in Nat
      BY <2>1, <3>1, <1>1, <1>6, <1>9
    <3>3. Placed(L, out, Missing, end + 1, end + 1, end)
      BY <3>2, <1>7 DEF Placed
    <3>4. constructor \in Numbers => i # 1
      BY <2>3, <1>1, <1>3
    <3>5. Suits(constructor, i, Missing)
      BY <3>4, <1>3, <1>7 DEF Suits
    <3> QED BY <3>2, <3>3, <3>5
  <2>4. g.cont[i] = Then(Expected[<<g.vals[i], types[i], 0>>], g.cont[i + 1])
    <3> DEFINE x == <<PartOf(v, i), PartType(t, i), 0>>
    <3>1. x \in Readings
      BY <1>5 DEF Readings
    <3>2. Expected[x] \in Results
      BY <3>1, ExpectedIs
    <3>3. Expected[<<v, t, i>>] = Then(Expected[x], Expected[<<v, t, i + 1>>])
      BY <1>4
    <3>4. Expected[<<v, t, i + 1>>] \in Results
      BY <2>1, <1>4
    <3>5. x = <<g.vals[i], types[i], 0>>
      BY <2>1, <1>5
    <3> HIDE DEF x
    <3>6. Then(Expected[<<v, t, i>>], rest) = Then(Expected[x], Then(Expected[<<v, t, i + 1>>], rest))
      BY <3>2, <3>3, <3>4, ThenThen
    <3> QED BY <3>5, <3>6, <2>1, <1>2
  <2> QED BY <2>2, <2>3, <2>4
<1>11. ASSUME NEW i \in 1..(n + 1) PROVE g.cont[i] \in Results
  <2>1. i \in Nat
    BY <1>1
  <2>2. g.cont[i] = Then(Expected[<<v, t, i>>], rest) /\ Expected[<<v, t, i>>] \in Results
    BY <2>1, <1>2, <1>4
  <2> QED BY <2>2, ThenResults
<1>12. g.cont[n + 1] = rest
  <2>1. n + 1 \in Nat
    BY <1>1
  <2> QED BY <2>1, <1>2, <1>4, ThenNothing
<1>13. g.pos[1] = first
  <2>1. 1 \in 1..(m + 1)
    BY <1>1
  <2> QED BY <2>1, <1>3, <1>8
<1>14. Level(L, out, w, types, g, rest)
  <2>1. Len(types) = n /\ w.at = first /\ w.constructor = constructor
    BY DEF n, Typed, Holds
  <2> QED BY <2>1, <1>10, <1>11, <1>12, <1>13 DEF Level, end
<1>15. n = m => g.pos[n + 1] = q
  BY <1>1, <1>9
<1>16. g.cont[1] = Then(Expected[<<v, t, 1>>], rest)
  BY <1>2
<1>17. Len(types) = n
  BY DEF n, Typed
<1> QED BY <1>14, <1>15, <1>16, <1>17 DEF n, m

\* The parts at one level end where those at another begin.
Meets(g, a, w, w2) ==
  g.pos[Len(a) + 1] = w2.at /\ w.end = w2.end /\ w.constructor = "none" /\ w2.constructor = "none"

\* Parts that come before those of a level are read from the same input.
LEMMA LevelJoined ==
  ASSUME NEW L, NEW out, NEW w, NEW a \in Seq(Types), NEW g, NEW w2, NEW b \in Seq(Types), NEW h, NEW rest,
         Level(L, out, w, a, g, h.cont[1]), Level(L, out, w2, b, h, rest),
         Meets(g, a, w, w2)
  PROVE  \E f : Level(L, out, w, a \o b, f, rest) /\ f.cont[1] = g.cont[1]
<1> DEFINE n == Len(a)
           m == Len(b)
           Joint(x, y) == [i \in Nat |-> IF i <= n THEN x[i] ELSE y[i - n]]
           f == [vals |-> Joint(g.vals, h.vals), pos |-> Joint(g.pos, h.pos), cont |-> Joint(g.cont, h.cont)]
           both == a \o b
<1>1. n \in Nat /\ m \in Nat /\ Len(both) = n + m
      /\ \A i \in 1..(n + m) : both[i] = IF i <= n THEN a[i] ELSE b[i - n]
  BY LenProperties, ConcatProperties
<1>2. \A i \in Nat : /\ f.vals[i] = IF i <= n THEN g.vals[i] ELSE h.vals[i - n]
                     /\ f.pos[i] = IF i <= n THEN g.pos[i] ELSE h.pos[i - n]
                     /\ f.cont[i] = IF i <= n THEN g.cont[i] ELSE h.cont[i - n]
  OBVIOUS
<1>3. /\ g.pos[1] = w.at
      /\ \A i \in 1..n :
           /\ Placed(L, out, g.vals[i], g.pos[i], g.pos[i + 1], w.end)
           /\ Suits(w.constructor, i, g.vals[i])
           /\ g.cont[i] = Then(Expected[<<g.vals[i], a[i], 0>>], g.cont[i + 1])
      /\ \A i \in 1..(n + 1) : g.cont[i] \in Results
      /\ g.cont[n + 1] = h.cont[1]
  BY DEF Level
<1>4. /\ h.pos[1] = w2.at
      /\ \A i \in 1..m :
           /\ Placed(L, out, h.vals[i], h.pos[i], h.pos[i + 1], w2.end)
           /\ Suits(w2.constructor, i, h.vals[i])
           /\ h.cont[i] = Then(Expected[<<h.vals[i], b[i], 0>>], h.cont[i + 1])
      /\ \A i \in 1..(m + 1) : h.cont[i] \in Results
      /\ h.cont[m + 1] = rest
  BY DEF Level
<1>5. g.pos[n + 1] = h.pos[1] /\ w.end = w2.end /\ w.constructor = "none" /\ w2.constructor = "none"
  BY <1>4 DEF n, Meets
<1> HIDE DEF f, n, m, both
<1>6. \A i \in 1..(n + 1) : f.pos[i] = g.pos[i] /\ f.cont[i] = g.cont[i]
  <2> SUFFICES ASSUME NEW i \in 1..(n + 1) PROVE f.pos[i] = g.pos[i] /\ f.cont[i] = g.cont[i]
    OBVIOUS
  <2>1. i \in Nat /\ (i <= n \/ (i = n + 1 /\ ~(i <= n) /\ i - n = 1))
    BY <1>1
  <2> QED BY <2>1, <1>2, <1>3, <1>5
<1>7. \A i \in Nat : i > n => f.vals[i] = h.vals[i - n] /\ f.pos[i] = h.pos[i - n] /\ f.cont[i] = h.cont[i - n]
  <2>1. \A i \in Nat : i > n => ~(i <= n)
    BY <1>1
  <2> QED BY <2>1, <1>2
<1>8. ASSUME NEW i \in 1..(n + m)
      PROVE  /\ Placed(L, out, f.vals[i], f.pos[i], f.pos[i + 1], w.end)
             /\ Suits(w.constructor, i, f.vals[i])
             /\ f.cont[i] = Then(Expected[<<f.vals[i], both[i], 0>>], f.cont[i + 1])
  <2>1. CASE i <= n
    <3>1. i \in Nat /\ i \in 1..n /\ i \in 1..(n + 1) /\ i + 1 \in 1..(n + 1)
      BY <2>1, <1>1
    <3>2. f.vals[i] = g.vals[i] /\ f.pos[i] = g.pos[i] /\ f.pos[i + 1] = g.pos[i + 1]
          /\ f.cont[i] = g.cont[i] /\ f.cont[i + 1] = g.cont[i + 1] /\ both[i] = a[i]
      BY <2>1, <3>1, <1>1, <1>2, <1>6
    <3> QED BY <3>1, <3>2, <1>3
  <2>2. CASE ~(i <= n)
    <3> DEFINE j == i - n
    <3>1. i \in Nat /\ i > n /\ i + 1 > n /\ i + 1 \in Nat /\ j \in 1..m /\ (i + 1) - n = j + 1
      BY <2>2, <1>1
    <3>2. f.vals[i] = h.vals[j] /\ f.pos[i] = h.pos[j] /\ f.pos[i + 1] = h.pos[j + 1]
          /\ f.cont[i] = h.cont[j] /\ f.cont[i + 1] = h.cont[j + 1] /\ both[i] = b[j]
      BY <2>2, <3>1, <1>1, <1>7
    <3> HIDE DEF j
    <3>3. Placed(L, out, h.vals[j], h.pos[j], h.pos[j + 1], w.end) /\ Suits("none", j, h.vals[j])
          /\ h.cont[j] = Then(Expected[<<h.vals[j], b[j], 0>>], h.cont[j + 1])
      BY <3>1, <1>4, <1>5
    <3>4. Suits(w.constructor, i, h.vals[j])
      BY <3>3, <1>5 DEF Suits
    <3> QED BY <3>2, <3>3, <3>4
  <2> QED BY <2>1, <2>2
<1>9. ASSUME NEW i \in 1..((n + m) + 1) PROVE f.cont[i] \in Results
  <2>1. CASE i <= n + 1
    <3>1. i \in 1..(n + 1)
      BY <2>1, <1>1
    <3> QED BY <3>1, <1>3, <1>6
  <2>2. CASE ~(i <= n + 1)
    <3>1. i \in Nat /\ i > n /\ i - n \in 1..(m + 1)
      BY <2>2, <1>1
    <3> QED BY <3>1, <1>4, <1>7
  <2> QED BY <2>1, <2>2
<1>10. f.cont[(n + m) + 1] = rest
  <2>1. (n + m) + 1 \in Nat /\ (n + m) + 1 > n /\ ((n + m) + 1) - n = m + 1
    BY <1>1
  <2> QED BY <2>1, <1>4, <1>7
<1>11. f.pos[1] = w.at /\ f.cont[1] = g.cont[1]
  <2>1. 1 \in 1..(n + 1)
    BY <1>1
  <2> QED BY <2>1, <1>3, <1>6
<1>12. Level(L, out, w, both, f, rest)
  BY <1>1, <1>8, <1>9, <1>10, <1>11 DEF Level
<1> QED BY <1>11, <1>12 DEF both

\* What is to come of reading a struct or a list.
LEMMA ExpectedList ==
  ASSUME NEW e, NEW v \in Nodes, NEW t, t.kind \in Lists
  PROVE  /\ v.kind = "missing" => ExpectedOf(e, v, t) = Bad({"err"})
         /\ v.kind = "element" => ExpectedOf(e, v, t) = Bad({"garbled"})
         /\ v.kind \in Scalars => ExpectedOf(e, v, t) = Bad({"err"})
BY DEF ExpectedOf, Lists, Scalars

LEMMA ExpectedWide ==
  ASSUME NEW e, NEW v \in Nodes, NEW t, t.kind \in Lists \cup {"map"}, v.kind = "array32"
  PROVE  ExpectedOf(e, v, t) = Bad(IF v.items = <<>> THEN {"panic"} ELSE {"panic", "garbled"})
BY DEF ExpectedOf, Lists, Scalars

LEMMA ExpectedSized ==
  ASSUME NEW e, NEW v \in Nodes, NEW t, t.kind \in Lists, v.kind \in Lists \cup {"map", "array8"}
  PROVE  ExpectedOf(e, v, t) = e[<<v, t, 1>>]
BY DEF ExpectedOf, Lists, Scalars

\* A nested Deserializer among the others.
Nests(wins2, n, w) == wins2 = Append(Advance(n), w)

LEMMA OneMore ==
  ASSUME CompositeInv, phase = "read", NEW n \in Nat, NEW w \in Frames,
         NEW wins2, Nests(wins2, n, w)
  PROVE  LET d == Len(todo) IN
         /\ \A j \in 1..(d - 1) : wins2[j] = windows[j]
         /\ wins2[d].at = At + n /\ wins2[d].end = Input.end /\ wins2[d].constructor = Input.constructor
         /\ wins2[d + 1] = w
<1> DEFINE d == Len(todo)
           moved == Advance(n)
<1>1. /\ moved \in Seq(Frames) /\ Len(moved) = d /\ d \in Nat /\ d > 0
  BY AtWork, Advanced
<1>2. /\ \A j \in 1..(d - 1) : moved[j] = windows[j]
      /\ moved[d].at = At + n /\ moved[d].end = Input.end /\ moved[d].constructor = Input.constructor
  BY AdvancedAlone
<1> HIDE DEF moved, d
<1>3. wins2[d + 1] = w /\ \A j \in 1..d : wins2[j] = moved[j]
  BY <1>1, AppendProperties DEF moved, Nests
<1>4. d \in 1..d /\ \A j \in 1..(d - 1) : j \in 1..d
  BY <1>1
<1> QED BY <1>2, <1>3, <1>4 DEF d

\* A composite read in a window of its own.
LEMMA Enters ==
  ASSUME CompositeInv, phase = "read", Parts # <<>>,
         NEW L, NEW G, NEW total, ReadingAs(L, G, total, output, windows, todo, decoded),
         NEW v, v = G[Len(todo)].vals[1], v \in Values,
         Expected[<<v, Part, 0>>] = Expected[<<v, Part, 1>>],
         NEW q \in Nat, q = G[Len(todo)].pos[2], Input.constructor \notin Numbers,
         NEW h, h.last = q - 1, h.first \in Nat, h.first <= q, At < h.first,
         NEW pos, Spread(L, output, v, pos, h.first, q, h.constructor),
         NEW parts \in Seq(Types), Typed(parts, v, Part),
         windows' = Append(Advance(h.last + 1 - At), [at |-> h.first, end |-> h.last, constructor |-> h.constructor]),
         todo' = <<parts>> \o Others, decoded' = decoded
  PROVE  \E G2 : ReadingAs(L, G2, total, output, windows', todo', decoded')
<1> DEFINE d == Len(todo)
           g == G[d]
           w == [at |-> h.first, end |-> h.last, constructor |-> h.constructor]
           n == h.last + 1 - At
           wins2 == windows'
           stack2 == todo'
           dec2 == decoded'
           less == Tail(Parts)
           after == g.cont[2]
<1>1. /\ todo \in Seq(Seq(Types)) /\ todo # <<>> /\ Parts \in Seq(Types) /\ less \in Seq(Types) /\ At \in Nat /\ Part \in Types
  BY AtWork, Stack DEF Trees
<1>2. /\ Facing(v, q, after, L, total)
      /\ Level(L, output, Input, Parts, g, Rest(G, d))
  BY FacesPart
<1>3. /\ after \in Results /\ Then(Got(decoded), Then(Expected[<<v, Part, 1>>], after)) = total
  BY <1>2 DEF Facing
<1>4. /\ n \in Nat /\ At + n = q /\ h.last \in Nat /\ h.last + 1 = q
  <2> DEFINE a == At
             f == h.first
             l == h.last
  <2>1. a \in Nat /\ f \in Nat /\ l = q - 1 /\ f <= q /\ a < f
    BY <1>1
  <2> HIDE DEF a, f, l
  <2>2. l + 1 - a \in Nat /\ a + (l + 1 - a) = q /\ l \in Nat /\ l + 1 = q
    BY ONLY <2>1, q \in Nat
  <2> QED BY <2>2 DEF a, l
<1>5. w \in Frames
  BY <1>4 DEF Frames, Spread, Tags, Scalars
<1>5a. Nests(wins2, n, w)
  BY DEF Nests
<1>6. /\ w.at = h.first /\ w.end = h.last /\ w.constructor = h.constructor
  OBVIOUS
<1>6a. stack2 = <<parts>> \o (<<less>> \o Tail(todo)) /\ dec2 = decoded
  BY DEF Others
<1>6b. q = g.pos[2]
  OBVIOUS
<1> HIDE DEF w, n, wins2, stack2, dec2, less, after, g, d
<1>7. /\ \A j \in 1..(d - 1) : wins2[j] = windows[j]
      /\ wins2[d].at = q /\ wins2[d].end = Input.end /\ wins2[d].constructor = Input.constructor
      /\ wins2[d + 1] = w
  <2>1. /\ CompositeInv /\ phase = "read" /\ n \in Nat /\ w \in Frames /\ Nests(wins2, n, w)
    BY <1>4, <1>5, <1>5a
  <2>2. /\ \A j \in 1..(d - 1) : wins2[j] = windows[j]
        /\ wins2[d].at = At + n /\ wins2[d].end = Input.end /\ wins2[d].constructor = Input.constructor
        /\ wins2[d + 1] = w
    BY ONLY <2>1, OneMore DEF d
  <2> QED BY <2>2, <1>4
<1> DEFINE w1 == wins2[d]
           w2 == wins2[d + 1]
           own == Input
<1>8. Level(L, output, w1, less, Past(g), Rest(G, d)) /\ Past(g).cont[1] = after
  <2> DEFINE rest == Rest(G, d)
             types == Parts
  <2>1. types \in Seq(Types) /\ types # <<>> /\ Level(L, output, own, types, g, rest) /\ own.constructor \notin Numbers
        /\ w1.at = g.pos[2] /\ w1.end = own.end /\ w1.constructor = own.constructor /\ less = Tail(types)
        /\ after = g.cont[2]
    BY <1>1, <1>2, <1>6b, <1>7 DEF less, after
  <2> HIDE DEF rest, types, w1, own
  <2>2. Level(L, output, w1, Tail(types), Past(g), rest) /\ Past(g).cont[1] = g.cont[2]
    BY ONLY <2>1, LevelPast
  <2> QED BY <2>1, <2>2 DEF rest
<1>9. \E f : Level(L, output, w2, parts, f, after) /\ f.cont[1] = Then(Expected[<<v, Part, 1>>], after)
  <2> DEFINE t == Part
             first == h.first
             constructor == h.constructor
             out == output
  <2>1. /\ v \in Values /\ t \in Types /\ first \in Nat /\ q \in Nat /\ Spread(L, out, v, pos, first, q, constructor)
        /\ after \in Results /\ Typed(parts, v, t)
    BY <1>1, <1>3
  <2>4. w2.at = first /\ w2.constructor = constructor /\ w2.end = h.last
    BY <1>6, <1>7
  <2>5. h.last \in Nat /\ q <= h.last + 1 /\ h.last + 1 = q
    BY <1>4
  <2> HIDE DEF t, first, constructor, out, w2
  <2>6. /\ v \in Values /\ t \in Types /\ first \in Nat /\ q \in Nat /\ Spread(L, out, v, pos, first, q, constructor)
        /\ after \in Results /\ Holds(w2, first, q, constructor)
        /\ w2.end + 1 = q /\ Typed(parts, v, t)
    BY <2>1, <2>4, <2>5 DEF Holds
  <2>2. \E f : Level(L, out, w2, parts, f, after) /\ f.cont[1] = Then(Expected[<<v, t, 1>>], after)
    BY ONLY <2>6, LevelParts
  <2> QED BY <2>2 DEF t, out
<1>10. PICK f : Level(L, output, w2, parts, f, after) /\ f.cont[1] = Then(Expected[<<v, Part, 1>>], after)
  BY <1>9
<1> DEFINE past == Past(g)
<1>11. /\ todo \in Seq(Seq(Types)) /\ todo # <<>>
       /\ ReadingAs(L, G, total, output, windows, todo, decoded)
       /\ less \in Seq(Types) /\ parts \in Seq(Types) /\ Descends(stack2, todo, less, parts)
       /\ Outside(wins2, windows, todo)
       /\ Level(L, output, wins2[Len(todo)], less, past, Rest(G, Len(todo)))
       /\ w2 = wins2[Len(todo) + 1] /\ Level(L, output, w2, parts, f, past.cont[1])
       /\ Comes(total, dec2, f)
  BY <1>1, <1>3, <1>6a, <1>7, <1>8, <1>10 DEF Descends, d, Outside, Comes
<1> HIDE DEF past, w1, w2, own
<1>12. \E G2 : ReadingAs(L, G2, total, output, wins2, stack2, dec2)
  BY ONLY <1>11, LevelNested
<1> QED BY <1>12 DEF wins2, stack2, dec2

\* The wide array, which no type of a composite gets past.
LEMMA ReadsWide ==
  ASSUME CompositeInv, phase = "read", NEW v, NEW q, NEW after, NEW L, NEW total,
         Laid(L, output), Facing(v, q, after, L, total), v.kind = "array32", Part.kind \in Lists \cup {"map"},
         WideArray(At)
  PROVE  GoesOn(total, phase', output, windows', todo', decoded')
<1> DEFINE e == Expected[<<v, Part, 0>>]
           p == IF v.items = <<>> THEN {"panic"} ELSE {"panic", "garbled"}
<1>1. /\ v \in Nodes /\ e = ExpectedOf(Expected, v, Part) /\ Placed(L, output, v, At, q, Input.end)
  BY DEF Facing
<1>2. e = Bad(p)
  BY <1>1, ExpectedWide
<1>3. phase' \in p
  <2>1. phase' = "panic" \/ (phase' = "garbled" /\ output[At + 2].n > 0)
    BY DEF WideArray, Fail
  <2>2. Lies(L, output, v, At, q)
    <3>1. v.kind \in Composites
      BY DEF Composites, Arrays
    <3> QED BY <1>1, <3>1, FirstCells
  <2>3. LiesAsArray32(output, v, At, q)
    BY <2>2 DEF Lies, LiesAsScalar, LiesAsEmpty, LiesAsSized, LiesAsArray8, Scalars, Lists
  <2>4. output[At + 2].n = Len(v.items)
    BY <2>3 DEF LiesAsArray32, Cell
  <2>5. Len(v.items) > 0 => v.items # <<>>
    OBVIOUS
  <2> QED BY <2>1, <2>4, <2>5
<1>4. p # {"ok"}
  OBVIOUS
<1> HIDE DEF p
<1> QED BY <1>2, <1>3, <1>4, StopsWith DEF e

LEMMA ReadsSequence ==
  ASSUME CompositeInv, NEW L, NEW G, NEW total,
         ReadingAs(L, G, total, output, windows, todo, decoded), ReadSequence
  PROVE  GoesOn(total, phase', output, windows', todo', decoded')
<1> DEFINE g == G[Len(todo)]
           v == g.vals[1]
           q == g.pos[2]
           e == Expected[<<v, Part, 0>>]
           code == IF Peek = "described" THEN At + 1 ELSE At
           tag == TagAt(code)
           h == Header(code)
           parts == IF Part.kind = "struct" THEN Part.items ELSE [i \in 1..h.count |-> Part.items[1]]
<1>1. phase = "read" /\ Parts # <<>> /\ Part.kind \in Lists
  BY DEF ReadSequence, Reading
<1>2. /\ Facing(v, q, g.cont[2], L, total) /\ Laid(L, output)
  BY <1>1, FacesPart
<1>3. /\ v \in Nodes /\ e = ExpectedOf(Expected, v, Part) /\ Suits(Input.constructor, 1, v)
      /\ Part \in Types /\ q \in Nat /\ Placed(L, output, v, At, q, Input.end)
  BY <1>2 DEF Facing
<1>0. /\ tag \in Sized => IF BadHeader(code) THEN Fail("panic") ELSE Nest(h, parts)
      /\ tag = "array32" => WideArray(code)
      /\ tag = "data" => Fail("garbled")
      /\ tag = "nothing" /\ Peek # "described" => Fail("err")
      /\ tag \notin Sized \cup {"array32", "data", "nothing"} => Fail("err")
  BY DEF ReadSequence, Sized
<1>4. At \in Nat /\ Input.end \in Nat
  BY <1>1, AtWork
<1> HIDE DEF g, v, q, e
<1>5. ASSUME NEW o, Fail(o), e = Bad({o}), o # "ok" PROVE GoesOn(total, phase', output, windows', todo', decoded')
  BY <1>2, <1>5, StopsWith DEF Fail, e
<1>6. CASE v.kind = "missing"
  <2>1. Peek = "nothing"
    BY <1>1, <1>2, <1>6, Sights DEF Scalars, Composites, Lists, Arrays
  <2>2. tag = "nothing"
    BY <2>1 DEF Peek
  <2>3. Fail("err")
    BY <1>0, <2>1, <2>2
  <2>4. e = Bad({"err"})
    BY <1>1, <1>3, <1>6, ExpectedList
  <2> QED BY <1>5, <2>3, <2>4
<1>7. CASE v.kind = "element"
  <2>1. Peek = "data"
    BY <1>1, <1>2, <1>7, Sights DEF Scalars, Composites, Lists, Arrays
  <2>2. tag = "data"
    BY <2>1 DEF Peek
  <2>3. Fail("garbled")
    BY <1>0, <2>2
  <2>4. e = Bad({"garbled"})
    BY <1>1, <1>3, <1>7, ExpectedList
  <2> QED BY <1>5, <2>3, <2>4
<1>8. CASE v.kind \in Scalars
  <2>1. Peek \in Scalars
    BY <1>1, <1>2, <1>8, Sights DEF Scalars, Composites, Lists, Arrays
  <2>2. tag \in Scalars
    BY <2>1 DEF Peek, Scalars
  <2>3. Fail("err")
    BY <1>0, <2>2 DEF Scalars, Sized
  <2>4. e = Bad({"err"})
    BY <1>1, <1>3, <1>8, ExpectedList
  <2> QED BY <1>5, <2>3, <2>4
<1>9. CASE v.kind \in Composites
  <2> DEFINE c == Coded(v, At)
  <2>1. /\ v \in Values /\ Lies(L, output, v, At, q) /\ q <= Input.end + 1
        /\ v.kind = "struct" => Peek = "described"
        /\ TagAt(c) = output[c].tag /\ c <= Input.end /\ c \in Nat /\ At <= c
    BY <1>1, <1>2, <1>3, <1>9, FirstCells
  <2>2. /\ v.kind \in Lists => TagAt(c) \in {"list0", "list8", "list32"}
        /\ v.kind = "map" => TagAt(c) \in {"map8", "map32"}
        /\ v.kind \in Arrays => TagAt(c) = v.kind
    BY <1>1, <1>2, <1>3, <1>9, FirstCells
  <2>3. c = code
    <3>1. CASE v.kind = "struct"
      BY <2>1, <3>1 DEF Coded
    <3>2. CASE v.kind # "struct"
      <4>1. c = At /\ Peek = TagAt(c)
        BY <3>2 DEF Coded, Peek
      <4>2. v.kind \in Lists \/ v.kind = "map" \/ v.kind \in Arrays
        BY <1>9 DEF Composites
      <4>3. TagAt(c) # "described"
        BY <2>2, <4>2 DEF Arrays
      <4> QED BY <4>1, <4>3
    <3> QED BY <3>1, <3>2
  <2>4. tag = TagAt(c)
    BY <2>3
  <2>5. CASE v.kind = "array32"
    <3>1. tag = "array32" /\ c = At
      BY <2>2, <2>4, <2>5 DEF Arrays, Coded
    <3>2. WideArray(At)
      BY <1>0, <2>3, <3>1
    <3> QED BY <1>1, <1>2, <2>5, <3>2, ReadsWide
  <2>6. CASE v.kind # "array32"
    <3>1. v.kind \in Lists \cup {"map", "array8"}
      BY <1>9, <2>6 DEF Composites, Arrays
    <3>2. tag \in Sized
      BY <2>2, <2>4, <3>1 DEF Sized, Arrays
    <3>3. /\ ~BadHeader(code)
          /\ h.count = Len(v.items) /\ h.last = q - 1 /\ h.first \in Nat /\ code < h.first /\ h.first <= q
          /\ \E pos : Spread(L, output, v, pos, h.first, q, h.constructor)
      BY <1>1, <1>2, <1>3, <2>1, <2>3, <3>1, HeaderSpread
    <3>4. Nest(h, parts)
      BY <1>0, <3>2, <3>3
    <3>5. ~(h.last > Input.end) /\ At < h.first
      <4> DEFINE l == h.last
                 f == h.first
                 k == code
                 end == Input.end
      <4>1. l = q - 1 /\ q <= end + 1 /\ k < f /\ f \in Nat /\ k \in Nat /\ At <= k
        BY <2>1, <2>3, <3>3
      <4> HIDE DEF l, f, k, end
      <4>2. ~(l > end) /\ At < f
        BY ONLY <4>1, <1>4, <1>3 DEF end
      <4> QED BY <4>2 DEF l, f, end
    <3>6. /\ windows' = Append(Advance(h.last + 1 - At), [at |-> h.first, end |-> h.last, constructor |-> h.constructor])
          /\ todo' = <<parts>> \o Others /\ decoded' = decoded /\ phase' = phase
      BY <3>4, <3>5 DEF Nest
    <3>7. parts \in Seq(Types) /\ Typed(parts, v, Part)
      <4>1. v.items \in Seq(Values) /\ Len(v.items) \in Nat /\ Part.items \in Seq(Types)
        BY <2>1, <1>3, ValueParts, LenProperties, TypeParts
      <4>2. CASE Part.kind = "struct"
        BY <4>1, <4>2 DEF Typed, PartCount, PartType
      <4>3. CASE Part.kind # "struct"
        <5>1. Part.kind = "list"
          BY <1>1, <4>3 DEF Lists
        <5> DEFINE n == Len(v.items)
        <5>2. parts = [i \in 1..n |-> Part.items[1]]
          BY <4>3, <3>3
        <5>3. parts \in Seq(Types)
          BY <1>3, <4>1, <5>1, <5>2, SameType
        <5>5. PartCount(v, Part) = n /\ \A i \in 1..n : PartType(Part, i) = Part.items[1]
          BY <5>1 DEF PartCount, PartType
        <5>6. n \in Nat
          BY <4>1
        <5> HIDE DEF parts, n
        <5>4. Len(parts) = n /\ \A i \in 1..n : parts[i] = Part.items[1]
          BY <5>2, <5>6
        <5> QED BY <5>3, <5>4, <5>5 DEF Typed
      <4> QED BY <4>2, <4>3
    <3>8. e = Expected[<<v, Part, 1>>]
      BY <1>1, <1>3, <3>1, ExpectedSized
    <3>9. Input.constructor \notin Numbers
      BY <1>3, <3>1 DEF Suits, Lists
    <3>10. PICK pos : Spread(L, output, v, pos, h.first, q, h.constructor)
      BY <3>3
    <3> HIDE DEF h, parts, code, c
    <3>11. v = G[Len(todo)].vals[1] /\ q = G[Len(todo)].pos[2] /\ Expected[<<v, Part, 0>>] = Expected[<<v, Part, 1>>]
      BY <3>8 DEF v, q, g, e
    <3>12. \E G2 : ReadingAs(L, G2, total, output, windows', todo', decoded')
      BY <1>1, <1>3, <2>1, <3>3, <3>5, <3>6, <3>7, <3>9, <3>10, <3>11, Enters
    <3> QED BY <1>1, <3>6, <3>12 DEF GoesOn
  <2> QED BY <2>5, <2>6
<1>10. v.kind \in Scalars \cup Composites \cup {"missing", "element"}
  BY <1>3, NodeParts
<1> QED BY <1>6, <1>7, <1>8, <1>9, <1>10

\* What is to come of reading a map.
LEMMA ExpectedMap ==
  ASSUME NEW e, NEW v \in Nodes, NEW t, t.kind = "map"
  PROVE  /\ v.kind = "missing" => ExpectedOf(e, v, t) = Bad({"panic"})
         /\ v.kind = "element" => ExpectedOf(e, v, t) = Bad({"garbled"})
         /\ v.kind \in Scalars \cup {"struct"} => ExpectedOf(e, v, t) = Bad({"err"})
BY DEF ExpectedOf, Lists, Scalars

LEMMA ExpectedOdd ==
  ASSUME NEW e, NEW v \in Nodes, NEW t, t.kind = "map", v.kind \in {"list", "map", "array8"},
         v.kind = "array8" \/ Len(v.items) % 2 # 0
  PROVE  ExpectedOf(e, v, t) = Bad(Outcomes)
BY DEF ExpectedOf, Lists, Scalars

LEMMA ExpectedEven ==
  ASSUME NEW e, NEW v \in Nodes, NEW t, t.kind = "map", v.kind \in {"list", "map"}, Len(v.items) % 2 = 0
  PROVE  ExpectedOf(e, v, t) = e[<<v, t, 1>>]
BY DEF ExpectedOf, Lists, Scalars

\* The entries of a map read from the input itself, before what is left.
LEMMA Merges ==
  ASSUME CompositeInv, phase = "read", Parts # <<>>,
         NEW L, NEW G, NEW total, ReadingAs(L, G, total, output, windows, todo, decoded),
         NEW v, v = G[Len(todo)].vals[1], v \in Values,
         Expected[<<v, Part, 0>>] = Expected[<<v, Part, 1>>], PartCount(v, Part) = Len(v.items),
         NEW q \in Nat, q = G[Len(todo)].pos[2], q <= Input.end + 1, Input.constructor = "none",
         NEW first \in Nat, At < first,
         NEW pos, Spread(L, output, v, pos, first, q, "none"),
         NEW entries \in Seq(Types), Typed(entries, v, Part),
         windows' = Advance(first - At),
         todo' = <<entries \o Tail(Parts)>> \o Tail(todo), decoded' = decoded
  PROVE  \E G2 : ReadingAs(L, G2, total, output, windows', todo', decoded')
<1> DEFINE d == Len(todo)
           g == G[d]
           n == first - At
           wins2 == windows'
           stack2 == todo'
           dec2 == decoded'
           less == Tail(Parts)
           after == g.cont[2]
           own == Input
           wb == [at |-> q, end |-> own.end, constructor |-> "none"]
           s == entries \o less
<1>1. /\ todo \in Seq(Seq(Types)) /\ todo # <<>> /\ Parts \in Seq(Types) /\ less \in Seq(Types) /\ At \in Nat /\ Part \in Types
      /\ own.end \in Nat /\ s \in Seq(Types)
  <2>1. /\ todo \in Seq(Seq(Types)) /\ todo # <<>> /\ Parts \in Seq(Types) /\ less \in Seq(Types) /\ At \in Nat /\ Part \in Types
        /\ own.end \in Nat
    BY AtWork, Stack DEF Trees
  <2> HIDE DEF less
  <2>2. entries \o less \in Seq(Types)
    BY <2>1, ConcatProperties
  <2> QED BY <2>1, <2>2
<1>2. /\ Facing(v, q, after, L, total)
      /\ Level(L, output, own, Parts, g, Rest(G, d))
  BY FacesPart
<1>3. /\ after \in Results /\ Then(Got(decoded), Then(Expected[<<v, Part, 1>>], after)) = total
  BY <1>2 DEF Facing
<1>4. n \in Nat /\ At + n = first
  <2> DEFINE a == At
  <2>1. a \in Nat /\ a < first
    BY <1>1
  <2> HIDE DEF a
  <2>2. first - a \in Nat /\ a + (first - a) = first
    BY ONLY <2>1, first \in Nat
  <2> QED BY <2>2 DEF a, n
<1>5. q = g.pos[2] /\ own.constructor = "none"
  OBVIOUS
<1>6. stack2 = <<s>> \o Tail(todo) /\ dec2 = decoded /\ wins2 = Advance(n)
  OBVIOUS
<1>7. wb.at = q /\ wb.end = own.end /\ wb.constructor = "none"
  OBVIOUS
<1> HIDE DEF n, wins2, stack2, dec2, less, after, g, wb, s, own
<1>8. /\ \A j \in 1..(d - 1) : wins2[j] = windows[j]
      /\ wins2[d].at = first /\ wins2[d].end = own.end /\ wins2[d].constructor = "none"
  BY <1>4, <1>5, <1>6, AdvancedAlone DEF own
<1> DEFINE w1 == wins2[d]
           past == Past(g)
<1>9. Level(L, output, wb, less, past, Rest(G, d)) /\ past.cont[1] = after
  <2> DEFINE rest == Rest(G, d)
             types == Parts
  <2>1. types \in Seq(Types) /\ types # <<>> /\ Level(L, output, own, types, g, rest) /\ own.constructor \notin Numbers
        /\ wb.at = g.pos[2] /\ wb.end = own.end /\ wb.constructor = own.constructor /\ less = Tail(types)
        /\ after = g.cont[2]
    BY <1>1, <1>2, <1>5, <1>7 DEF less, after
  <2> HIDE DEF rest, types
  <2>2. Level(L, output, wb, Tail(types), Past(g), rest) /\ Past(g).cont[1] = g.cont[2]
    BY ONLY <2>1, LevelPast
  <2> QED BY <2>1, <2>2 DEF rest
<1>10. \E f : /\ Level(L, output, w1, entries, f, after)
              /\ f.cont[1] = Then(Expected[<<v, Part, 1>>], after)
              /\ f.pos[Len(entries) + 1] = q
  <2> DEFINE t == Part
             constructor == "none"
             out == output
  <2>1. /\ v \in Values /\ t \in Types /\ first \in Nat /\ q \in Nat /\ Spread(L, out, v, pos, first, q, constructor)
        /\ after \in Results /\ Typed(entries, v, t) /\ PartCount(v, t) = Len(v.items)
    BY <1>1, <1>3
  <2>2. Holds(w1, first, q, constructor)
    BY <1>1, <1>8 DEF Holds, own
  <2> HIDE DEF t, constructor, out, w1
  <2>3. \E f : /\ Level(L, out, w1, entries, f, after)
               /\ f.cont[1] = Then(Expected[<<v, t, 1>>], after)
               /\ PartCount(v, t) = Len(v.items) => f.pos[Len(entries) + 1] = q
    <3>1. /\ v \in Values /\ t \in Types /\ first \in Nat /\ q \in Nat /\ Spread(L, out, v, pos, first, q, constructor)
          /\ after \in Results /\ Typed(entries, v, t) /\ PartCount(v, t) = Len(v.items)
          /\ Holds(w1, first, q, constructor) /\ w1.end \in Nat /\ q <= w1.end + 1
      BY <2>1, <2>2 DEF Holds
    <3> QED BY ONLY <3>1, LevelParts
  <2> QED BY <2>1, <2>3 DEF t, out
<1>11. PICK f : /\ Level(L, output, w1, entries, f, after)
                /\ f.cont[1] = Then(Expected[<<v, Part, 1>>], after)
                /\ f.pos[Len(entries) + 1] = q
  BY <1>10
<1>12. \E k : Level(L, output, w1, s, k, Rest(G, d)) /\ k.cont[1] = f.cont[1]
  <2> DEFINE rest == Rest(G, d)
             out == output
  <2>1. /\ entries \in Seq(Types) /\ less \in Seq(Types)
        /\ Level(L, out, w1, entries, f, past.cont[1]) /\ Level(L, out, wb, less, past, rest)
        /\ Meets(f, entries, w1, wb)
    BY <1>1, <1>7, <1>8, <1>9, <1>11 DEF Meets
  <2> HIDE DEF rest, out, w1, past
  <2>2. \E k : Level(L, out, w1, entries \o less, k, rest) /\ k.cont[1] = f.cont[1]
    BY ONLY <2>1, LevelJoined
  <2> QED BY <2>2 DEF rest, out, s
<1>13. PICK k : Level(L, output, w1, s, k, Rest(G, d)) /\ k.cont[1] = f.cont[1]
  BY <1>12
<1>14. /\ todo \in Seq(Seq(Types)) /\ todo # <<>>
       /\ ReadingAs(L, G, total, output, windows, todo, decoded)
       /\ s \in Seq(Types) /\ Exchanges(stack2, todo, s)
       /\ \A j \in 1..(Len(todo) - 1) : wins2[j] = windows[j]
       /\ Level(L, output, wins2[Len(todo)], s, k, Rest(G, Len(todo)))
       /\ Then(Got(dec2), k.cont[1]) = total
  <2>1. Then(Got(dec2), k.cont[1]) = total
    BY <1>3, <1>6, <1>11, <1>13
  <2>2. Exchanges(stack2, todo, s)
    BY <1>6 DEF Exchanges
  <2>3. ReadingAs(L, G, total, output, windows, todo, decoded)
    OBVIOUS
  <2>4. \A j \in 1..(Len(todo) - 1) : wins2[j] = windows[j]
    BY <1>8
  <2>5. Level(L, output, wins2[Len(todo)], s, k, Rest(G, Len(todo)))
    BY <1>13
  <2> QED BY <1>1, <2>1, <2>2, <2>3, <2>4, <2>5
<1> HIDE DEF d, w1, past
<1>15. \E G2 : ReadingAs(L, G2, total, output, wins2, stack2, dec2)
  BY ONLY <1>14, LevelRead, ZenonT(30)
<1> QED BY <1>15 DEF wins2, stack2, dec2

\* The types of a map's entries, of which m were counted.
EntriesOf(entries, t, m) ==
  entries = [i \in 1..2 * (m \div 2) |-> IF i % 2 = 1 THEN Key ELSE t.items[1]]

LEMMA EntriesTyped ==
  ASSUME NEW t \in Types, t.kind = "map", NEW m \in Nat, m % 2 = 0, NEW entries, EntriesOf(entries, t, m)
  PROVE  /\ entries \in Seq(Types) /\ Len(entries) = m
         /\ \A i \in 1..m : entries[i] = PartType(t, i)
<1> DEFINE n == 2 * (m \div 2)
<1>1. n = m /\ n \in Nat
  OBVIOUS
<1> HIDE DEF n
<1>0. entries = [i \in 1..n |-> IF i % 2 = 1 THEN Key ELSE t.items[1]]
  BY DEF EntriesOf, n
<1>2. Key \in Types /\ t.items[1] \in Types
  BY TypeParts, TypesAssumption
<1>3. \A i \in 1..n : entries[i] \in Types
  BY <1>0, <1>2
<1>4. entries \in Seq(Types) /\ Len(entries) = n
  BY <1>0, <1>1, <1>3
<1>5. \A i \in 1..n : entries[i] = PartType(t, i)
  BY <1>0 DEF PartType
<1> QED BY <1>1, <1>4, <1>5

LEMMA ReadsMap ==
  ASSUME CompositeInv, NEW L, NEW G, NEW total,
         ReadingAs(L, G, total, output, windows, todo, decoded), ReadMap
  PROVE  GoesOn(total, phase', output, windows', todo', decoded')
<1> DEFINE g == G[Len(todo)]
           v == g.vals[1]
           q == g.pos[2]
           e == Expected[<<v, Part, 0>>]
           h == Header(At)
           n == 2 * (h.count \div 2)
           entries == [i \in 1..n |-> IF i % 2 = 1 THEN Key ELSE Part.items[1]]
<1>1. phase = "read" /\ Parts # <<>> /\ Part.kind = "map"
  BY DEF ReadMap, Reading
<1>2. /\ Facing(v, q, g.cont[2], L, total) /\ Laid(L, output)
  BY <1>1, FacesPart
<1>3. /\ v \in Nodes /\ e = ExpectedOf(Expected, v, Part) /\ Suits(Input.constructor, 1, v)
      /\ Part \in Types /\ q \in Nat /\ Placed(L, output, v, At, q, Input.end)
  BY <1>2 DEF Facing
<1>0. /\ Peek = "nothing" => Fail("panic")
      /\ Peek \in Sized =>
           IF BadHeader(At) THEN Fail("panic")
           ELSE /\ windows' = Advance(h.first - At)
                /\ todo' = <<entries \o Tail(Parts)>> \o Tail(todo)
                /\ phase' = phase /\ decoded' = decoded
      /\ Peek = "array32" => WideArray(At)
      /\ Peek = "data" => Fail("garbled")
      /\ Peek \notin Sized \cup {"array32", "data", "nothing"} => Fail("err")
  BY DEF ReadMap, Sized
<1>4. At \in Nat /\ Input.end \in Nat
  BY <1>1, AtWork
<1> HIDE DEF g, v, q, e, h, n, entries
<1>5. ASSUME NEW o, Fail(o), e = Bad({o}), o # "ok" PROVE GoesOn(total, phase', output, windows', todo', decoded')
  BY <1>2, <1>5, StopsWith DEF Fail, e
<1>6. CASE v.kind = "missing"
  <2>1. Peek = "nothing"
    BY <1>1, <1>2, <1>6, Sights DEF Scalars, Composites, Lists, Arrays
  <2>2. Fail("panic")
    BY <1>0, <2>1
  <2>3. e = Bad({"panic"})
    BY <1>1, <1>3, <1>6, ExpectedMap
  <2> QED BY <1>5, <2>2, <2>3
<1>7. CASE v.kind = "element"
  <2>1. Peek = "data"
    BY <1>1, <1>2, <1>7, Sights DEF Scalars, Composites, Lists, Arrays
  <2>2. Fail("garbled")
    BY <1>0, <2>1
  <2>3. e = Bad({"garbled"})
    BY <1>1, <1>3, <1>7, ExpectedMap
  <2> QED BY <1>5, <2>2, <2>3
<1>8. CASE v.kind \in Scalars \cup {"struct"}
  <2>1. Peek \in Scalars \cup {"described"}
    <3>1. CASE v.kind \in Scalars
      BY <1>1, <1>2, <3>1, Sights DEF Scalars, Composites, Lists, Arrays
    <3>2. CASE v.kind = "struct"
      BY <1>1, <1>2, <1>3, <3>2, FirstCells
    <3> QED BY <1>8, <3>1, <3>2
  <2>2. Fail("err")
    BY <1>0, <2>1 DEF Scalars, Sized
  <2>3. e = Bad({"err"})
    BY <1>1, <1>3, <1>8, ExpectedMap
  <2> QED BY <1>5, <2>2, <2>3
<1>9. CASE v.kind \in {"list", "map", "array8", "array32"}
  <2>0. v.kind \in Composites
    BY <1>9 DEF Composites, Lists, Arrays
  <2>1. /\ v \in Values /\ Lies(L, output, v, At, q) /\ q <= Input.end + 1
        /\ Coded(v, At) = At
    BY <1>1, <1>2, <1>3, <1>9, <2>0, FirstCells DEF Coded
  <2>2. /\ v.kind \in Lists => TagAt(Coded(v, At)) \in {"list0", "list8", "list32"}
        /\ v.kind = "map" => TagAt(Coded(v, At)) \in {"map8", "map32"}
        /\ v.kind \in Arrays => TagAt(Coded(v, At)) = v.kind
        /\ TagAt(Coded(v, At)) = output[Coded(v, At)].tag
    BY <1>1, <1>2, <1>3, <2>0, FirstCells
  <2>3. Peek = TagAt(Coded(v, At)) /\ Peek = output[At].tag
    BY <2>1, <2>2 DEF Peek
  <2>4. CASE v.kind = "array32"
    <3>1. Peek = "array32"
      BY <2>2, <2>3, <2>4 DEF Arrays
    <3>2. WideArray(At)
      BY <1>0, <3>1
    <3> QED BY <1>1, <1>2, <2>4, <3>2, ReadsWide
  <2>5. CASE v.kind \in {"list", "map", "array8"} /\ (v.kind = "array8" \/ Len(v.items) % 2 # 0)
    <3>1. e = Bad(Outcomes)
      BY <1>1, <1>3, <2>5, ExpectedOdd
    <3>2. Bad(Outcomes).phase = Outcomes /\ Outcomes # {"ok"}
      BY DEF Bad, Outcomes
    <3>3. total = e
      BY <1>2, <3>1, <3>2, Stops DEF e
    <3> QED BY <3>1, <3>2, <3>3 DEF GoesOn
  <2>6. CASE v.kind \in {"list", "map"} /\ Len(v.items) % 2 = 0
    <3>1. v.kind \in Lists \cup {"map", "array8"}
      BY <2>6 DEF Lists
    <3>2. Peek \in Sized /\ Peek # "array8"
      BY <2>2, <2>3, <2>6 DEF Sized, Lists
    <3>3. /\ ~BadHeader(At)
          /\ h.count = Len(v.items) /\ h.first \in Nat /\ At < h.first
          /\ \E pos : Spread(L, output, v, pos, h.first, q, h.constructor)
      BY <1>1, <1>2, <1>3, <2>1, <3>1, HeaderSpread DEF h
    <3>4. /\ windows' = Advance(h.first - At)
          /\ todo' = <<entries \o Tail(Parts)>> \o Tail(todo)
          /\ phase' = phase /\ decoded' = decoded
      BY <1>0, <3>2, <3>3
    <3>5. h.constructor = "none"
      BY <2>3, <3>2 DEF h, Header
    <3>6. Len(v.items) \in Nat
      BY <2>1, ValueParts, LenProperties
    <3>7. PartCount(v, Part) = Len(v.items)
      BY <1>1 DEF PartCount
    <3>8. /\ entries \in Seq(Types) /\ Len(entries) = Len(v.items)
          /\ \A i \in 1..Len(v.items) : entries[i] = PartType(Part, i)
      <4> DEFINE m == Len(v.items)
                 t == Part
      <4>1. m \in Nat /\ m % 2 = 0 /\ t \in Types /\ t.kind = "map" /\ EntriesOf(entries, t, m)
        BY <1>1, <1>3, <2>6, <3>3, <3>6 DEF n, entries, EntriesOf
      <4> HIDE DEF m, t
      <4>2. entries \in Seq(Types) /\ Len(entries) = m /\ \A i \in 1..m : entries[i] = PartType(t, i)
        BY ONLY <4>1, EntriesTyped
      <4> QED BY <4>2 DEF m, t
    <3>9. Typed(entries, v, Part)
      BY <3>7, <3>8 DEF Typed
    <3>10. e = Expected[<<v, Part, 1>>]
      BY <1>1, <1>3, <2>6, ExpectedEven
    <3>11. Input.constructor = "none"
      BY <1>3, <2>6 DEF Suits
    <3>12. PICK pos : Spread(L, output, v, pos, h.first, q, "none")
      BY <3>3, <3>5
    <3>13. v = G[Len(todo)].vals[1] /\ q = G[Len(todo)].pos[2] /\ Expected[<<v, Part, 0>>] = Expected[<<v, Part, 1>>]
      BY <3>10 DEF v, q, g, e
    <3> DEFINE first == h.first
    <3>14. first \in Nat /\ At < first /\ windows' = Advance(first - At) /\ Spread(L, output, v, pos, first, q, "none")
      BY <3>3, <3>4, <3>12
    <3> HIDE DEF first
    <3>15. \E G2 : ReadingAs(L, G2, total, output, windows', todo', decoded')
      BY <1>1, <1>3, <2>1, <3>4, <3>7, <3>8, <3>9, <3>11, <3>13, <3>14, Merges
    <3> QED BY <1>1, <3>4, <3>15 DEF GoesOn
  <2> QED BY <1>9, <2>4, <2>5, <2>6
<1>10. v.kind \in Scalars \cup Composites \cup {"missing", "element"}
  BY <1>3, NodeParts
<1>11. v.kind \in Composites => v.kind \in {"struct", "list", "map", "array8", "array32"}
  BY DEF Composites, Lists, Arrays
<1> QED BY <1>6, <1>7, <1>8, <1>9, <1>10, <1>11

LEMMA ReadsCloseWindow ==
  ASSUME CompositeInv, NEW L, NEW G, NEW total,
         ReadingAs(L, G, total, output, windows, todo, decoded), CloseWindow
  PROVE  GoesOn(total, phase', output, windows', todo', decoded')
<1> DEFINE m == Len(windows)
           wins2 == windows'
           stack2 == todo'
<1>1. /\ phase = "read" /\ Len(todo) > 1 /\ Head(todo) = <<>> /\ todo' = Tail(todo) /\ windows' = Front(windows)
      /\ phase' = phase /\ decoded' = decoded
  BY DEF CloseWindow, Closing, Parts
<1>2. /\ todo \in Seq(Seq(Types)) /\ windows \in Seq(Frames) /\ m = Len(todo) /\ m \in Nat
  BY <1>1, AtWork
<1>3. \A j \in 1..(Len(todo) - 1) : wins2[j] = windows[j]
  <2>1. m - 1 \in Nat /\ m - 1 <= m
    BY <1>1, <1>2
  <2>2. \A j \in 1..(m - 1) : Front(windows)[j] = windows[j]
    BY <1>2, <2>1, SubSeqProperties DEF Front
  <2> HIDE DEF m
  <2> QED BY <1>1, <1>2, <2>2
<1>4. /\ todo \in Seq(Seq(Types)) /\ Len(todo) > 1 /\ Head(todo) = <<>> /\ Ascends(stack2, todo)
      /\ ReadingAs(L, G, total, output, windows, todo, decoded)
  BY <1>1, <1>2 DEF Ascends
<1> HIDE DEF wins2, stack2
<1>5. ReadingAs(L, G, total, output, wins2, stack2, decoded)
  BY ONLY <1>3, <1>4, LevelClosed
<1> QED BY <1>1, <1>5 DEF GoesOn, wins2, stack2

LEMMA ReadsReturn ==
  ASSUME CompositeInv, NEW L, NEW G, NEW total,
         ReadingAs(L, G, total, output, windows, todo, decoded), Return
  PROVE  GoesOn(total, phase', output, windows', todo', decoded')
<1>1. /\ todo = <<<<>>>> /\ phase' = "ok" /\ decoded' = decoded
  BY DEF Return
<1>2. decoded \in Seq(Nat)
  BY DEF CompositeInv, TypeOK
<1>3. Len(todo) = 1 /\ Lv(todo, 1) = <<>>
  BY <1>1 DEF Lv
<1>4. Level(L, output, windows[1], <<>>, G[1], Rest(G, 1)) /\ Then(Got(decoded), G[1].cont[1]) = total
  <2>1. 1 \in 1..Len(todo)
    BY <1>3
  <2> QED BY <2>1, <1>3 DEF ReadingAs
<1>5. G[1].cont[1] = Got(<<>>)
  <2>1. Len(<<>>) + 1 = 1
    OBVIOUS
  <2>2. G[1].cont[1] = Rest(G, 1)
    BY <1>4, <2>1 DEF Level
  <2> QED BY <2>2 DEF Rest
<1>6. Then(Got(decoded), Got(<<>>)) = Got(decoded)
  <2>1. decoded \o <<>> = decoded
    BY <1>2, ConcatEmptySeq
  <2> QED BY <2>1 DEF Then, Got
<1>7. total = Got(decoded)
  BY <1>4, <1>5, <1>6
<1> QED BY <1>1, <1>7 DEF GoesOn, Concludes, Got

LEMMA ThenNoMore ==
  ASSUME NEW a \in Results
  PROVE  Then(a, Got(<<>>)) = a
<1>1. a.leaves \in Seq(Nat) /\ a = [phase |-> a.phase, leaves |-> a.leaves]
  BY DEF Results
<1>2. a.leaves \o <<>> = a.leaves
  BY <1>1, ConcatEmptySeq
<1> QED BY <1>1, <1>2 DEF Then, Got

\* Nothing of it read, a value is all there is to read.
LEMMA ReadingBegins ==
  ASSUME NEW L, NEW out, Laid(L, out), Len(out) \in Nat, NEW v \in Values, NEW t \in Types,
         <<v, 1, Len(out) + 1>> \in L,
         NEW w, w.at = 1, w.end = Len(out), w.constructor = "none",
         NEW wins, wins[1] = w, NEW stack, Len(stack) = 1, Lv(stack, 1) = <<t>>
  PROVE  \E G : ReadingAs(L, G, Expected[<<v, t, 0>>], out, wins, stack, <<>>)
<1> DEFINE x == <<v, t, 0>>
           e == Expected[x]
           n == Len(out)
           g == [vals |-> [i \in Nat |-> v], pos |-> [i \in Nat |-> IF i = 1 THEN 1 ELSE n + 1],
                 cont |-> [i \in Nat |-> IF i = 1 THEN e ELSE Got(<<>>)]]
           G == <<g>>
<1>1. x \in Readings /\ v \in Nodes
  BY DEF Readings, Nodes
<1>2. e \in Results
  BY <1>1, ExpectedIs
<1>3. /\ g.vals[1] = v /\ g.pos[1] = 1 /\ g.pos[2] = n + 1 /\ g.cont[1] = e /\ g.cont[2] = Got(<<>>)
  OBVIOUS
<1>4. G[1] = g /\ Rest(G, 1) = Got(<<>>)
  BY DEF Rest
<1> HIDE DEF x, e, g, G
<1>5. Placed(L, out, v, 1, n + 1, w.end)
  BY <1>1 DEF Placed
<1>6. v.kind # "element"
  BY ValueParts DEF Scalars, Composites, Lists, Arrays
<1>7. Suits("none", 1, v)
  BY <1>6 DEF Suits
<1>8. Got(<<>>) \in Results
  <2>1. <<>> \in Seq(Nat)
    OBVIOUS
  <2> QED BY <2>1, Gets
<1>9. Level(L, out, wins[1], <<t>>, g, Rest(G, 1))
  <2> DEFINE types == <<t>>
  <2>1. Len(types) = 1 /\ types[1] = t
    OBVIOUS
  <2> HIDE DEF types
  <2>2. ASSUME NEW i \in 1..Len(types)
        PROVE  /\ Placed(L, out, g.vals[i], g.pos[i], g.pos[i + 1], w.end)
               /\ Suits(w.constructor, i, g.vals[i])
               /\ g.cont[i] = Then(Expected[<<g.vals[i], types[i], 0>>], g.cont[i + 1])
    <3>1. i = 1 /\ 1 + 1 = 2
      BY <2>1
    <3>2. Then(Expected[x], g.cont[2]) = g.cont[1]
      BY <1>2, <1>3, ThenNoMore DEF e
    <3> QED BY <3>1, <3>2, <2>1, <1>3, <1>5, <1>7 DEF x
  <2>3. \A i \in 1..(Len(types) + 1) : g.cont[i] \in Results
    <3>1. \A i \in 1..(Len(types) + 1) : i = 1 \/ i = 2
      BY <2>1
    <3> QED BY <3>1, <1>2, <1>3, <1>8
  <2>4. g.cont[Len(types) + 1] = Rest(G, 1)
    BY <2>1, <1>3, <1>4
  <2>5. Level(L, out, w, types, g, Rest(G, 1))
    BY <2>2, <2>3, <2>4, <1>3 DEF Level
  <2> QED BY <2>5 DEF types
<1>10. Then(Got(<<>>), g.cont[1]) = e
  BY <1>2, <1>3, ThenNothing
<1>11. ReadingAs(L, G, e, out, wins, stack, <<>>)
  <2>1. \A j \in 1..Len(stack) : j = 1
    OBVIOUS
  <2> QED BY <2>1, <1>4, <1>9, <1>10 DEF ReadingAs
<1> QED BY <1>11 DEF e, x

LEMMA ReadStartRead == CompositeInv /\ WrittenInv /\ ReadInv /\ StartRead => ReadInv'
<1> SUFFICES ASSUME CompositeInv, WrittenInv, ReadInv, StartRead PROVE ReadInv'
  OBVIOUS
<1>1. /\ phase = "write" /\ phase' = "read" /\ todo' = <<<<type'>>>>
      /\ value' = value /\ output' = output /\ decoded' = decoded
  BY DEF StartRead
<1>2. CompositeInv' /\ WrittenInv'
  BY StepStartRead, WrittenStartRead
<1>3. decoded' = <<>>
  BY <1>1 DEF ReadInv
<1> DEFINE out2 == output'
           v == value'
           t == type'
           wins2 == windows'
           stack2 == todo'
<1>4. v \in Values /\ t \in Types /\ out2 \in Seq([tag : Tags, n : Nat])
  BY <1>2 DEF CompositeInv, TypeOK
<1>5. PICK L : Laid(L, out2) /\ <<v, 1, Len(out2) + 1>> \in L
  BY <1>1, <1>2 DEF WrittenInv
<1>6. ASSUME windows'[1].end = Len(output')
      PROVE  GoesOn(Expected[<<v, t, 0>>], phase', out2, wins2, stack2, decoded')
  <2> DEFINE w == wins2[1]
  <2>1. PICK cut \in Cuts : wins2 = <<[at |-> 1, end |-> Len(output) - cut, constructor |-> "none"]>>
    BY DEF StartRead
  <2>2. w.at = 1 /\ w.constructor = "none" /\ w.end = Len(out2)
    BY <2>1, <1>6
  <2>3. Len(stack2) = 1 /\ Lv(stack2, 1) = <<t>>
    BY <1>1 DEF Lv
  <2>4. Len(out2) \in Nat
    BY <1>4, LenProperties
  <2>5. w = wins2[1]
    OBVIOUS
  <2> HIDE DEF w, out2, v, t, wins2, stack2
  <2>6. \E G : ReadingAs(L, G, Expected[<<v, t, 0>>], out2, wins2, stack2, <<>>)
    BY <1>4, <1>5, <2>2, <2>3, <2>4, <2>5, ReadingBegins
  <2> QED BY <1>1, <1>3, <2>6 DEF GoesOn
<1> QED BY <1>1, <1>6 DEF ReadInv

\* However much of it is read, the outermost input ends where it did.
LEMMA EndKept ==
  ASSUME CompositeInv, phase = "read",
         \/ windows' = windows
         \/ \E n \in Nat : windows' = Advance(n)
         \/ \E n \in Nat, w \in Frames : windows' = Append(Advance(n), w)
         \/ Len(todo) > 1 /\ windows' = Front(windows)
  PROVE  windows'[1].end = windows[1].end
<1> DEFINE m == Len(windows)
<1>1. windows \in Seq(Frames) /\ m \in Nat /\ m > 0 /\ m = Len(todo) /\ DOMAIN windows = 1..m
  BY AtWork
<1>2. 1 \in 1..m
  BY <1>1
<1>3. ASSUME NEW n \in Nat
      PROVE  Advance(n) \in Seq(Frames) /\ Len(Advance(n)) = m /\ Advance(n)[1].end = windows[1].end
  BY <1>1, <1>2, Advanced
<1>4. ASSUME NEW n \in Nat, NEW w \in Frames, windows' = Append(Advance(n), w)
      PROVE  windows'[1].end = windows[1].end
  <2> DEFINE s == Advance(n)
  <2>1. s \in Seq(Frames) /\ Len(s) = m /\ s[1].end = windows[1].end /\ windows' = Append(s, w)
    BY <1>3, <1>4
  <2> HIDE DEF s, m
  <2>2. Append(s, w)[1] = s[1]
    BY <2>1, <1>2, AppendProperties
  <2> QED BY <2>1, <2>2
<1>5. ASSUME m > 1, windows' = Front(windows) PROVE windows'[1].end = windows[1].end
  <2>1. m - 1 \in Nat /\ m - 1 <= m /\ 1 \in 1..(m - 1)
    BY <1>1, <1>5
  <2>2. \A i \in 1..(m - 1) : Front(windows)[i] = windows[i]
    BY <1>1, <2>1, SubSeqProperties DEF Front
  <2>3. Front(windows)[1] = windows[1]
    BY <2>1, <2>2
  <2> HIDE DEF m
  <2> QED BY <2>3, <1>5
<1>6. ASSUME NEW n \in Nat, windows' = Advance(n) PROVE windows'[1].end = windows[1].end
  BY <1>3, <1>6
<1>7. Len(todo) > 1 => m > 1
  BY <1>1
<1> HIDE DEF m
<1>8. CASE windows' = windows
  BY <1>8
<1>9. CASE \E n \in Nat : windows' = Advance(n)
  BY <1>6, <1>9
<1>10. CASE \E n \in Nat, w \in Frames : windows' = Append(Advance(n), w)
  BY <1>4, <1>10
<1>11. CASE Len(todo) > 1 /\ windows' = Front(windows)
  BY <1>5, <1>7, <1>11
<1> QED BY <1>8, <1>9, <1>10, <1>11

LEMMA ReadSequenceMoves ==
  ASSUME CompositeInv, ReadSequence
  PROVE  windows'[1].end = windows[1].end
<1> DEFINE code == IF Peek = "described" THEN At + 1 ELSE At
           tag == TagAt(code)
           h == Header(code)
<1>1. phase = "read"
  BY DEF ReadSequence, Reading
<1>3. At \in Nat /\ code \in Nat /\ At <= code /\ code <= At + 1
  BY <1>1, AtWork
<1>4. \/ windows' = windows
      \/ /\ tag \in Sized /\ ~BadHeader(code)
         /\ windows' = Append(Advance(h.last + 1 - At), [at |-> h.first, end |-> h.last, constructor |-> h.constructor])
  BY DEF ReadSequence, WideArray, Fail, Nest
<1>5. CASE /\ tag \in Sized /\ ~BadHeader(code)
           /\ windows' = Append(Advance(h.last + 1 - At), [at |-> h.first, end |-> h.last, constructor |-> h.constructor])
  <2>1. code <= Input.end
    BY <1>1, <1>3, <1>5, Seen DEF Sized
  <2> HIDE DEF code
  <2>2. /\ h.first \in Nat /\ h.last \in Nat /\ h.constructor \in Tags
        /\ code < h.first /\ h.first <= h.last + 1
    BY <1>1, <1>3, <1>5, <2>1, HeaderRead
  <2> HIDE DEF h
  <2>3. h.last + 1 - At \in Nat
    BY <1>3, <2>2
  <2>4. [at |-> h.first, end |-> h.last, constructor |-> h.constructor] \in Frames
    BY <2>2 DEF Frames
  <2> QED BY <1>1, <1>5, <2>3, <2>4, EndKept
<1> QED BY <1>1, <1>4, <1>5, EndKept

LEMMA ReadMapMoves ==
  ASSUME CompositeInv, ReadMap
  PROVE  windows'[1].end = windows[1].end
<1> DEFINE h == Header(At)
<1>1. phase = "read"
  BY DEF ReadMap, Reading
<1>3. At \in Nat
  BY <1>1, AtWork
<1>4. \/ windows' = windows
      \/ Peek \in Sized /\ ~BadHeader(At) /\ windows' = Advance(h.first - At)
  BY DEF ReadMap, WideArray, Fail
<1>5. CASE Peek \in Sized /\ ~BadHeader(At) /\ windows' = Advance(h.first - At)
  <2>1. At <= Input.end
    BY <1>1, <1>3, <1>5, Seen DEF Sized, Peek
  <2>2. h.first \in Nat /\ At < h.first
    BY <1>1, <1>3, <1>5, <2>1, HeaderRead
  <2> HIDE DEF h
  <2>3. h.first - At \in Nat
    BY <1>3, <2>2
  <2> QED BY <1>1, <1>5, <2>3, EndKept
<1> QED BY <1>1, <1>4, <1>5, EndKept

\* Each step of the reader keeps to what is to come.
LEMMA ReadGoesOn ==
  ASSUME CompositeInv, ReadInv, phase = "read", phase' # "write",
         UNCHANGED <<value, type, output>>, windows'[1].end = windows[1].end,
         \A L, G, total :
           ReadingAs(L, G, total, output, windows, todo, decoded) =>
             GoesOn(total, phase', output, windows', todo', decoded')
  PROVE  ReadInv'
<1> DEFINE e == Expected[<<value, type, 0>>]
<1>1. value \in Values /\ type \in Types
  BY DEF CompositeInv, TypeOK
<1>2. e \in Results
  <2> DEFINE x == <<value, type, 0>>
  <2>1. x \in Readings
    BY <1>1 DEF Readings, Nodes
  <2> HIDE DEF x
  <2>2. Expected[x] \in Results
    BY <2>1, ExpectedIs
  <2> QED BY <2>2 DEF x
<1> HIDE DEF e
<1>3. ASSUME windows'[1].end = Len(output')
      PROVE  GoesOn(e, phase', output, windows', todo', decoded')
  <2>1. GoesOn(e, phase, output, windows, todo, decoded)
    BY <1>3 DEF ReadInv, e
  <2>2. CASE e.phase = Outcomes
    BY <2>2 DEF GoesOn
  <2>3. CASE \E L, G : ReadingAs(L, G, e, output, windows, todo, decoded)
    BY <2>3
  <2>4. ~Concludes(e, phase, decoded)
    BY <1>2 DEF Concludes, Results, Outcomes
  <2> QED BY <2>1, <2>2, <2>3, <2>4 DEF GoesOn
<1>4. e = Expected[<<value', type', 0>>] /\ output' = output
  BY DEF e
<1> QED BY <1>3, <1>4 DEF ReadInv

LEMMA ReadStep == CompositeInv /\ WrittenInv /\ ReadInv /\ [Next]_vars => ReadInv'
<1> SUFFICES ASSUME CompositeInv, WrittenInv, ReadInv, [Next]_vars PROVE ReadInv'
  OBVIOUS
<1>1. CASE WriteScalar \/ WriteComposite \/ WriteEnd \/ PeerEmptyList \/ PeerArray
  <2>1. phase = "write" /\ phase' = "write" /\ decoded' = decoded
    BY <1>1 DEF WriteScalar, WriteComposite, WriteEnd, PeerEmptyList, PeerArray, Writing, Ending
  <2> QED BY <2>1 DEF ReadInv
<1>2. CASE StartRead
  BY <1>2, ReadStartRead
<1>3. CASE ReadNumber
  <2>1. /\ phase = "read" /\ phase' # "write" /\ UNCHANGED <<value, type, output>>
        /\ windows' = windows \/ windows' = Advance(1)
    BY <1>3 DEF ReadNumber, Reading, Fail, Take
  <2>2. windows'[1].end = windows[1].end
    BY <2>1, EndKept
  <2> QED BY <1>3, <2>1, <2>2, ReadsNumber, ReadGoesOn
<1>4. CASE ReadStr
  <2>1. /\ phase = "read" /\ phase' # "write" /\ UNCHANGED <<value, type, output>>
        /\ windows' = windows \/ windows' = Advance(1)
    BY <1>4 DEF ReadStr, Reading, Fail, Take
  <2>2. windows'[1].end = windows[1].end
    BY <2>1, EndKept
  <2> QED BY <1>4, <2>1, <2>2, ReadsStr, ReadGoesOn
<1>5. CASE ReadTuple
  <2>1. /\ phase = "read" /\ phase' # "write" /\ UNCHANGED <<value, type, output>>
        /\ windows' = windows
    BY <1>5 DEF ReadTuple, Reading, Fail
  <2>2. windows'[1].end = windows[1].end
    BY <2>1, EndKept
  <2> QED BY <1>5, <2>1, <2>2, ReadsTuple, ReadGoesOn
<1>6. CASE ReadOption
  <2>1. /\ phase = "read" /\ phase' # "write" /\ UNCHANGED <<value, type, output>>
        /\ windows' = windows \/ windows' = Advance(1)
    BY <1>6 DEF ReadOption, Reading, Fail
  <2>2. windows'[1].end = windows[1].end
    BY <2>1, EndKept
  <2> QED BY <1>6, <2>1, <2>2, ReadsOption, ReadGoesOn
<1>7. CASE ReadSequence
  <2>1. phase = "read" /\ phase' # "write" /\ UNCHANGED <<value, type, output>>
    BY <1>7 DEF ReadSequence, Reading, Fail, WideArray, Nest
  <2> QED BY <1>7, <2>1, ReadSequenceMoves, ReadsSequence, ReadGoesOn
<1>8. CASE ReadMap
  <2>1. phase = "read" /\ phase' # "write" /\ UNCHANGED <<value, type, output>>
    BY <1>8 DEF ReadMap, Reading, Fail, WideArray
  <2> QED BY <1>8, <2>1, ReadMapMoves, ReadsMap, ReadGoesOn
<1>9. CASE CloseWindow
  <2>1. /\ phase = "read" /\ phase' # "write" /\ UNCHANGED <<value, type, output>>
        /\ Len(todo) > 1 /\ windows' = Front(windows)
    BY <1>9 DEF CloseWindow, Closing
  <2>2. windows'[1].end = windows[1].end
    BY <2>1, EndKept
  <2> QED BY <1>9, <2>1, <2>2, ReadsCloseWindow, ReadGoesOn
<1>10. CASE Return
  <2>1. /\ phase = "read" /\ phase' # "write" /\ UNCHANGED <<value, type, output>>
        /\ windows' = windows
    BY <1>10 DEF Return
  <2>2. windows'[1].end = windows[1].end
    BY <2>1, EndKept
  <2> QED BY <1>10, <2>1, <2>2, ReadsReturn, ReadGoesOn
<1>11. CASE Done \/ UNCHANGED vars
  <2>1. UNCHANGED <<writer, value, type, phase, todo, output, offsets, windows, decoded>>
    BY <1>11 DEF Done, vars
  <2> QED BY <2>1 DEF ReadInv
<1> QED BY <1>1, <1>2, <1>3, <1>4, <1>5, <1>6, <1>7, <1>8, <1>9, <1>10, <1>11 DEF Next

LEMMA ReadMeans == ReadInv => ReadsWhatWasWritten
<1> SUFFICES ASSUME ReadInv, phase \in Outcomes, windows[1].end = Len(output)
             PROVE  LET e == Expected[<<value, type, 0>>] IN
                    /\ phase \in e.phase
                    /\ e.phase = {"ok"} => decoded = e.leaves
  BY DEF ReadsWhatWasWritten
<1> DEFINE e == Expected[<<value, type, 0>>]
<1>1. phase # "write" /\ phase # "read" /\ Outcomes # {"ok"}
  BY DEF Outcomes
<1>2. GoesOn(e, phase, output, windows, todo, decoded)
  BY <1>1 DEF ReadInv
<1> HIDE DEF e
<1>3. phase \in e.phase /\ (e.phase = {"ok"} => decoded = e.leaves)
  BY <1>1, <1>2 DEF GoesOn, Concludes
<1> QED BY <1>3 DEF e

\* Whatever was written, by whom, and whichever version of its type the reader
\* has: what de::deserialize makes of all the bytes is what the reference makes
\* of the value, each part in its place, or it fails as the reference says.
THEOREM ReadAsWritten == Spec => []ReadsWhatWasWritten
<1> USE DEF Spec
<1>1. Init => ReadInv
  BY DEF Init, ReadInv
<1>2. CompositeInv /\ WrittenInv /\ ReadInv /\ [Next]_vars => ReadInv'
  BY ReadStep
<1>3. Spec => []ReadInv
  BY <1>1, <1>2, CompositeInvariant, Written, PTL
<1>4. ReadInv => ReadsWhatWasWritten
  BY ReadMeans
<1> QED BY <1>3, <1>4, PTL

=============================================================================
