--------------------------- MODULE Dispatch_proofs ---------------------------
(***************************************************************************)
(* Theorems about Dispatch, for every table of enums and every sequence of *)
(* values: the flag is for Any alone, and what is read is what was sent.   *)
(***************************************************************************)
EXTENDS Dispatch, EnumTypes, SequenceTheorems, TLAPS

\* The flag is up only between deserialize_enum's two assignments to it, and
\* a described value never gets there.
FlagInv ==
  any => /\ ~described
         /\ pc \in {"identifier", "content"}
         /\ Head(todo) = "Any"

\* The flag is down before anything is read.
LEMMA FlagInit == Init => FlagInv
BY DEF Init, FlagInv

\* Every step leaves the flag to an Any that is being read: only
\* deserialize_enum raises it, and it lowers it when the value has been read.
LEMMA FlagStep == FlagInv /\ [Next]_vars => FlagInv'
<1> SUFFICES ASSUME FlagInv, [Next]_vars PROVE FlagInv'
  OBVIOUS
<1>1. CASE Expand
  <2>1. ~any /\ UNCHANGED any
    BY <1>1 DEF Expand, Runs, Finish, FlagInv
  <2> QED BY <2>1 DEF FlagInv
<1>7. CASE Write
  <2>1. ~any /\ UNCHANGED any
    BY <1>7 DEF Write, Runs, FlagInv
  <2> QED BY <2>1 DEF FlagInv
<1>2. CASE EnterEnum
  <2>1. ~any
    BY <1>2 DEF EnterEnum, Runs, FlagInv
  <2>2. CASE Peek = "nothing"
    BY <1>2, <2>1, <2>2 DEF EnterEnum, Finish, FlagInv
  <2>3. CASE Peek # "nothing" /\ described'
    BY <1>2, <2>1, <2>3 DEF EnterEnum, FlagInv
  <2>4. CASE Peek # "nothing" /\ ~described'
    BY <1>2, <2>1, <2>4 DEF EnterEnum, FlagInv
  <2> QED BY <2>2, <2>3, <2>4
<1>3. CASE ReadIdentifier
  <2>1. UNCHANGED <<any, described, todo>>
    BY <1>3 DEF ReadIdentifier, Finish
  <2>2. pc = "identifier" /\ pc' \in {"identifier", "content"}
    BY <1>3 DEF ReadIdentifier, Runs, Finish
  <2> QED BY <2>1, <2>2 DEF FlagInv
<1>4. CASE ReadContent
  <2>1. CASE described
    BY <1>4, <2>1 DEF ReadContent, FlagInv
  <2>2. CASE ~described
    BY <1>4, <2>2 DEF ReadContent, FlagInv
  <2> QED BY <2>1, <2>2
<1>5. CASE Return
  BY <1>5 DEF Return, Finish, FlagInv
<1>6. CASE Done \/ UNCHANGED vars
  BY <1>6 DEF Done, vars, FlagInv
<1> QED BY <1>1, <1>2, <1>3, <1>4, <1>5, <1>6, <1>7 DEF Next

\* The `any` flag never outlives the Any it is for: no other enum, of this
\* value or of one read after it, is dispatched by format code.
THEOREM FlagIsForAny == Spec => []FlagMeansAny
<1>1. FlagInv => FlagMeansAny
  BY DEF FlagInv, FlagMeansAny
<1> QED BY <1>1, FlagInit, FlagStep, PTL DEF Spec

-----------------------------------------------------------------------------
\* A sequence, as a function.
LEMMA SeqDomain ==
  ASSUME NEW S, NEW s \in Seq(S)
  PROVE  DOMAIN s = 1..Len(s) /\ Len(s) \in Nat
OBVIOUS

\* The arms before the i-th are others.
LEMMA Below ==
  ASSUME NEW n \in Nat, NEW i \in 1..n, NEW j \in 1..i - 1
  PROVE  j \in 1..n /\ j # i
OBVIOUS

\* For every enum of the amqp macro, whose descriptors are distinct, and every
\* variant that has a code or a name, the generated match takes the arm of
\* the variant sent, by whichever of its descriptors it was sent.
THEOREM DescriptorsTellApart ==
  ASSUME NEW e \in DOMAIN Defs, Defs[e].derive = "amqp",
         NEW i \in DOMAIN Defs[e].variants, ~any,
         NEW form \in Symbols \cup {"smallulong", "ulong"},
         form \in Symbols => Defs[e].variants[i].name # Blank,
         form \notin Symbols => Defs[e].variants[i].code # 0
  PROVE  Arm(e, Cell(form, Defs[e].variants[i].code, Defs[e].variants[i].name)) = i
<1> DEFINE V == Defs[e].variants
           cell == Cell(form, V[i].code, V[i].name)
<1>0. DOMAIN V = 1..Len(V) /\ Len(V) \in Nat /\ Distinct(V)
  <2>1. /\ V \in Seq([shape : {"newtype", "unit"}, name : STRING, code : Nat, inner : STRING])
        /\ Distinct(V)
    BY DefsAssumption
  <2> HIDE DEF V
  <2> QED BY <2>1, SeqDomain
<1>1. cell.tag = form /\ cell.n = V[i].code /\ cell.s = V[i].name
  BY DEF Cell
<1>2. Matches(e, i, cell)
  BY <1>1 DEF Matches, Symbols, Numbers
<1>3. ASSUME NEW j \in DOMAIN V, Matches(e, j, cell) PROVE j = i
  BY <1>0, <1>1, <1>3 DEF Matches, Symbols, Numbers, Distinct
<1>4. \A j \in 1..i - 1 : j \in DOMAIN V /\ j # i
  <2> HIDE DEF V, cell
  <2>1. i \in 1..Len(V)
    BY <1>0 DEF V
  <2> QED BY <1>0, <2>1, Below
<1>5. \A j \in 1..i - 1 : ~Matches(e, j, cell)
  BY <1>3, <1>4
<1> HIDE DEF cell, V
<1> QED BY <1>2, <1>3, <1>5 DEF Arm, V, cell

-----------------------------------------------------------------------------
\* A value's identifier on the wire, and what sort of enum it is of.
Id(v) == Cell(v.form, Number(v), Name(v))
IsDescribed(v) == Defs[v.enum].own = "described"
IsAny(v) == Defs[v.enum].derive = "any"
Known(v) == v.variant # Foreign /\ ~IsUInt(v) /\ ~IsOwnNone(v)

LEMMA WayFacts ==
  ASSUME NEW v, WellFormed(v)
  PROVE  /\ <<Defs[v.enum].derive, Defs[v.enum].own, Defs[v.enum].peer>> \in Ways
         /\ Distinct(Defs[v.enum].variants) /\ Len(Defs[v.enum].variants) <= ForeignNumber
         /\ DOMAIN Defs[v.enum].variants = 1..Len(Defs[v.enum].variants)
         /\ Len(Defs[v.enum].variants) \in Nat
         /\ \A i \in DOMAIN Defs[v.enum].variants :
              /\ VariantAssumption(Defs[v.enum], Defs[v.enum].variants[i])
              /\ Defs[v.enum].variants[i].code \in Nat
         /\ v.variant \in {Foreign} \cup DOMAIN Defs[v.enum].variants
<1> DEFINE V == Defs[v.enum].variants
<1>1. /\ V \in Seq([shape : {"newtype", "unit"}, name : STRING, code : Nat, inner : STRING])
      /\ Distinct(V) /\ Len(V) <= ForeignNumber
      /\ \A i \in DOMAIN V : VariantAssumption(Defs[v.enum], V[i])
      /\ <<Defs[v.enum].derive, Defs[v.enum].own, Defs[v.enum].peer>> \in Ways
  BY DefsAssumption DEF WellFormed
<1>2. v.variant \in {Foreign} \cup DOMAIN V
  BY DEF WellFormed
<1> HIDE DEF V
<1>3. DOMAIN V = 1..Len(V) /\ Len(V) \in Nat /\ \A i \in DOMAIN V : V[i].code \in Nat
  <2>1. DOMAIN V = 1..Len(V) /\ Len(V) \in Nat
    BY <1>1, SeqDomain
  <2>2. \A i \in 1..Len(V) :
          V[i] \in [shape : {"newtype", "unit"}, name : STRING, code : Nat, inner : STRING]
    BY <1>1, ElementOfSeq
  <2> QED  BY <2>1, <2>2
<1> QED  BY <1>1, <1>2, <1>3 DEF V

\* A value's form is one of those of its enum.
LEMMA Forms ==
  ASSUME NEW v, WellFormed(v)
  PROVE  \/ /\ Defs[v.enum].derive = "amqp" /\ IsDescribed(v) /\ Defs[v.enum].peer = "described"
            /\ \/ v.form \in {"smallulong", "ulong"} /\ Number(v) # 0
               \/ v.form \in Symbols /\ Name(v) # Blank
         \/ /\ Defs[v.enum].derive = "try" /\ IsDescribed(v) /\ Defs[v.enum].peer = "described"
            /\ \/ v.form \in {"smallulong", "ulong"} /\ v.variant = Foreign
               \/ v.form \in Symbols
         \/ /\ Defs[v.enum].derive = "serde" /\ ~IsDescribed(v) /\ ~IsUInt(v)
            /\ v.form \in {"true", "false", "boolean", "ubyte"} \cup Symbols
         \/ /\ Defs[v.enum].derive = "serde" /\ ~IsDescribed(v) /\ IsUInt(v)
            /\ v.form \in UInts
         \/ /\ Defs[v.enum].derive = "any" /\ ~IsDescribed(v) /\ ~IsUInt(v)
            /\ v.variant # Foreign /\ ~IsOwnNone(v) => v.form = Name(v)
            /\ v.variant = Foreign \/ IsOwnNone(v) =>
                 /\ v.form \notin {"described", "nothing"}
                 /\ \A i \in DOMAIN Defs[v.enum].variants : v.form # Defs[v.enum].variants[i].name
<1> DEFINE d == Defs[v.enum]
<1>1. <<d.derive, d.own, d.peer>> \in Ways /\ v.variant \in {Foreign} \cup DOMAIN d.variants
  BY WayFacts
<1>2. ASSUME v.variant # Foreign
      PROVE  /\ Variant(v) = d.variants[v.variant] /\ Name(v) = Variant(v).name
             /\ VariantAssumption(d, Variant(v)) /\ Variant(v).code \in Nat
             /\ d.derive # "serde" => Number(v) = Variant(v).code
  BY <1>1, <1>2, WayFacts DEF Variant, Name, Number
<1>3. v.variant = Foreign => Number(v) # 0 /\ Name(v) # Blank
  BY DEF Number, Name, ForeignNumber, ForeignName, Blank
<1>4. /\ v.variant = Foreign /\ d.derive # "any" => v.form \in PeerForms(v)
      /\ v.variant # Foreign => v.form \in PeerForms(v) \cup {OwnForm(v)}
      /\ v.variant = Foreign /\ d.derive = "any" =>
            /\ v.form \notin {"described", "nothing"}
            /\ \A i \in DOMAIN d.variants : v.form # d.variants[i].name
  BY DEF WellFormed
<1> HIDE DEF d
<1>5. CASE d.derive = "amqp"
  <2>1. d.own = "described" /\ d.peer = "described"
    BY <1>1, <1>5 DEF Ways
  <2>2. v.form \in PeerForms(v) =>
          \/ v.form \in {"smallulong", "ulong"} /\ Number(v) # 0
          \/ v.form \in Symbols /\ Name(v) # Blank
    <3> DEFINE A == IF Number(v) = 0 THEN {}
                    ELSE IF Number(v) < 256 THEN {"smallulong", "ulong"} ELSE {"ulong"}
               B == IF Name(v) \in {Blank} \cup OwnNames THEN {} ELSE Symbols
    <3>1. PeerForms(v) = A \cup B
      BY <2>1, Zenon DEF PeerForms, d
    <3>2. v.form \in A => v.form \in {"smallulong", "ulong"} /\ Number(v) # 0
      <4>1. CASE Number(v) = 0
        BY <4>1
      <4>2. CASE Number(v) # 0 /\ Number(v) < 256
        BY <4>2
      <4>3. CASE Number(v) # 0 /\ ~(Number(v) < 256)
        BY <4>3
      <4> QED  BY <4>1, <4>2, <4>3
    <3>3. v.form \in B => v.form \in Symbols /\ Name(v) # Blank
      OBVIOUS
    <3> HIDE DEF A, B
    <3> QED  BY <3>1, <3>2, <3>3
  <2>3. v.variant # Foreign /\ v.form = OwnForm(v) =>
             \/ v.form \in {"smallulong", "ulong"} /\ Number(v) # 0
             \/ v.form \in Symbols /\ Name(v) # Blank
    BY <1>2, <1>5, <2>1 DEF OwnForm, d, VariantAssumption, Symbols
  <2> QED  BY <1>4, <1>5, <2>1, <2>2, <2>3 DEF d, IsDescribed
<1>6. CASE d.derive = "try"
  <2>1. d.own = "described" /\ d.peer = "described"
    BY <1>1, <1>6 DEF Ways
  <2>2. v.variant = Foreign => v.form \in {"smallulong", "ulong"} \cup Symbols
    BY <1>4, <1>6, <2>1 DEF PeerForms, d
  <2>3. v.variant # Foreign => Number(v) = 0 /\ Variant(v).code = 0
    BY <1>2, <1>6 DEF VariantAssumption
  <2>4. v.variant # Foreign => v.form \in Symbols
    BY <1>4, <2>1, <2>3 DEF PeerForms, OwnForm, d, Symbols
  <2> QED  BY <1>6, <2>1, <2>2, <2>4 DEF d, IsDescribed
<1>7. CASE d.derive = "serde"
  <2>1. \/ d.own = "boolean" /\ d.peer = "boolean"
        \/ d.own = "uint" /\ d.peer = "uint"
        \/ d.own = "symbol" /\ d.peer \in {"symbol", "ubyte"}
    BY <1>1, <1>7 DEF Ways
  <2>2. v.form \in PeerForms(v) \cup {OwnForm(v)}
    BY <1>4, <1>7
  <2>3. CASE d.own = "boolean"
    BY <1>7, <2>1, <2>2, <2>3 DEF d, PeerForms, OwnForm, IsDescribed, IsUInt
  <2>4. CASE d.own = "uint"
    BY <1>7, <2>1, <2>2, <2>4 DEF d, PeerForms, OwnForm, IsDescribed, IsUInt, UInts
  <2>5. CASE d.own = "symbol"
    BY <1>7, <2>1, <2>2, <2>5 DEF d, PeerForms, OwnForm, IsDescribed, IsUInt, Symbols
  <2> QED  BY <2>1, <2>3, <2>4, <2>5
<1>8. CASE d.derive = "any"
  <2>1. d.own = "scalar" /\ d.peer = "scalar"
    BY <1>1, <1>8 DEF Ways
  <2>2. v.variant # Foreign => v.form = Name(v) \/ (Name(v) = "null" /\ v.form = "sym8")
    BY <1>4, <1>8, <2>1 DEF d, PeerForms, OwnForm
  <2>3. v.variant # Foreign /\ ~IsOwnNone(v) => v.form = Name(v)
    BY <2>1, <2>2 DEF IsOwnNone, d
  <2>4. v.variant = Foreign \/ IsOwnNone(v) =>
          /\ v.form \notin {"described", "nothing"}
          /\ \A i \in DOMAIN d.variants : v.form # d.variants[i].name
    <3>1. \A i \in DOMAIN d.variants : d.variants[i].name # "sym8"
      BY <1>8, WayFacts DEF d, VariantAssumption
    <3> QED  BY <1>4, <1>8, <3>1 DEF IsOwnNone
  <2> QED  BY <1>8, <2>1, <2>3, <2>4 DEF d, IsDescribed, IsUInt
<1> QED  BY <1>1, <1>5, <1>6, <1>7, <1>8 DEF Ways

\* The identifier of a known variant is matched by its own arm and by no
\* other, that of a foreign one by none, nor that of this library's Any::None.
LEMMA Recognized ==
  ASSUME NEW v, WellFormed(v), any <=> IsAny(v), ~IsUInt(v),
         NEW i \in DOMAIN Defs[v.enum].variants
  PROVE  Matches(v.enum, i, Id(v)) <=> i = v.variant /\ ~IsOwnNone(v)
<1> DEFINE d == Defs[v.enum]
           V == d.variants
           x == V[v.variant]
<1>1. Id(v).tag = v.form /\ Id(v).n = Number(v) /\ Id(v).s = Name(v)
  BY DEF Id, Cell
<1>2. /\ Distinct(V) /\ Len(V) <= ForeignNumber /\ DOMAIN V = 1..Len(V) /\ Len(V) \in Nat
      /\ VariantAssumption(d, V[i]) /\ V[i].code \in Nat
      /\ v.variant \in {Foreign} \cup DOMAIN V
      /\ v.variant # Foreign => VariantAssumption(d, x) /\ v.variant \in DOMAIN V
  BY WayFacts
<1>3. /\ V[i].name # ForeignName /\ V[i].code # ForeignNumber
      /\ d.derive # "amqp" => V[i].name # Blank
  BY <1>2 DEF VariantAssumption
<1>4. /\ v.variant = Foreign => Name(v) = ForeignName /\ Number(v) = ForeignNumber
      /\ v.variant # Foreign =>
           /\ Name(v) = x.name
           /\ d.derive = "serde" => Number(v) = v.variant - 1
           /\ d.derive # "serde" => Number(v) = x.code
  BY DEF Name, Number, Variant
<1>5. i # v.variant /\ v.variant # Foreign =>
        /\ V[i].code = x.code => V[i].code = 0
        /\ V[i].name = x.name => V[i].name = Blank
  BY <1>2 DEF Distinct
<1>6. i # Foreign /\ i - 1 # ForeignNumber /\ i \in Nat
  BY <1>2 DEF Foreign, ForeignNumber
<1>7. i # v.variant /\ v.variant # Foreign => i - 1 # v.variant - 1
  BY <1>2 DEF Foreign
<1>8. Matches(v.enum, i, Id(v)) <=>
        \/ any /\ V[i].name = v.form
        \/ ~any /\ v.form \in Symbols /\ V[i].name = Name(v) /\ V[i].name # Blank
        \/ ~any /\ v.form \in Numbers /\ d.derive = "serde" /\ i - 1 = Number(v)
        \/ ~any /\ v.form \in Numbers /\ d.derive = "amqp" /\ V[i].code = Number(v) /\ V[i].code # 0
  BY <1>1 DEF Matches
<1>9. any <=> d.derive = "any"
  BY DEF IsAny
<1>10. i = v.variant => V[i] = x
  OBVIOUS
<1> DEFINE M == Matches(v.enum, i, Id(v))
<1>16. d.derive # "any" => ~IsOwnNone(v)
  BY WayFacts DEF Ways, IsOwnNone
<1> HIDE DEF V, x, d, M
<1>11. CASE d.derive = "amqp"
  <2>1. \/ v.form \in {"smallulong", "ulong"} /\ Number(v) # 0
        \/ v.form \in Symbols /\ Name(v) # Blank
    BY <1>11, Forms DEF d
  <2> QED  BY <1>3, <1>4, <1>5, <1>6, <1>8, <1>9, <1>10, <1>11, <1>16, <2>1 DEF Symbols, Numbers, M
<1>12. CASE d.derive = "try"
  <2>1. \/ v.form \in {"smallulong", "ulong"} /\ v.variant = Foreign
        \/ v.form \in Symbols
    BY <1>12, Forms DEF d
  <2> QED  BY <1>3, <1>4, <1>5, <1>6, <1>8, <1>9, <1>10, <1>12, <1>16, <2>1 DEF Symbols, Numbers, M
<1>13. CASE d.derive = "serde"
  <2>1. v.form \in {"true", "false", "boolean", "ubyte"} \cup Symbols
    BY <1>13, Forms DEF d
  <2> QED  BY <1>3, <1>4, <1>5, <1>6, <1>7, <1>8, <1>9, <1>10, <1>13, <1>16, <2>1
           DEF Symbols, Numbers, M
<1>14. CASE d.derive = "any"
  <2>1. /\ v.variant # Foreign /\ ~IsOwnNone(v) => v.form = Name(v)
        /\ v.variant = Foreign \/ IsOwnNone(v) => \A j \in DOMAIN V : v.form # V[j].name
    BY <1>14, Forms DEF d, V
  <2>2. i \in DOMAIN V
    BY DEF V, d
  <2> QED  BY <1>3, <1>4, <1>5, <1>6, <1>8, <1>9, <1>10, <1>14, <2>1, <2>2 DEF M
<1>15. d.derive \in {"amqp", "try", "serde", "any"}
  BY WayFacts DEF Ways, d
<1> QED  BY <1>11, <1>12, <1>13, <1>14, <1>15 DEF M

-----------------------------------------------------------------------------
\* What has been written, one value after the other and cell by cell.
Vals == UNION {UNION {{vs[i], vs[i].inside[1]} : i \in DOMAIN vs} : vs \in Cases}
CellSet == {Id(v) : v \in Vals} \cup {Cell("described", 0, Blank), Cell("content", 0, Blank)}

\* f[n] is where the cells of the n-th value of S start in I.
Placed(f, S, I) ==
  /\ f \in [1..Len(S) + 1 -> Nat \ {0}] /\ f[1] = 1 /\ f[Len(S) + 1] = Len(I) + 1
  /\ \A n \in 1..Len(S) :
       /\ f[n + 1] = f[n] + Len(Cells(S[n])) /\ f[n + 1] <= Len(I) + 1
       /\ \A c \in 1..Len(Cells(S[n])) : I[f[n] + c - 1] = Cells(S[n])[c]

\* t[n] says in which of the w values written the n-th value of S lies; open,
\* that the last of S holds one that is still to come.
Ordered(t, S, w, open) ==
  /\ t \in [1..Len(S) + 1 -> Nat] /\ t[1] = 1 /\ t[Len(S) + 1] = IF open THEN w ELSE w + 1
  /\ Len(S) # 0 => S[1] = values[1]
  /\ open => Len(S) # 0
  /\ \A n \in 1..Len(S) :
       /\ WellFormed(S[n]) /\ t[n] \in 1..w
       /\ S[n].inside = <<>> =>
            /\ Inner(S[n]) = Blank /\ t[n + 1] = t[n] + 1
            /\ n < Len(S) => S[n + 1] = values[t[n] + 1]
       /\ S[n].inside # <<>> =>
            /\ Inner(S[n]) # Blank /\ t[n + 1] = t[n]
            /\ n < Len(S) => S[n + 1].enum = Inner(S[n])
       /\ n = Len(S) => (open <=> S[n].inside # <<>>)

\* A concatenation and an extension by one, part by part.
Joined(x, s, u, T) ==
  /\ x \in Seq(T) /\ Len(x) = Len(s) + Len(u) /\ Len(s) \in Nat /\ Len(u) \in Nat
  /\ \A i \in 1..Len(s) : x[i] = s[i]
  /\ \A i \in 1..Len(u) : x[Len(s) + i] = u[i]
Longer(x, s, v, T) ==
  /\ x \in Seq(T) /\ Len(x) = Len(s) + 1 /\ Len(s) \in Nat
  /\ \A i \in 1..Len(s) : x[i] = s[i]
  /\ x[Len(s) + 1] = v

LEMMA ConcatParts ==
  ASSUME NEW T, NEW s \in Seq(T), NEW u \in Seq(T)
  PROVE  Joined(s \o u, s, u, T)
<1>1. Len(s) \in Nat /\ Len(u) \in Nat
  BY LenProperties
<1>2. \A i \in 1..Len(s) : i \in 1..Len(s) + Len(u) /\ i <= Len(s)
  BY <1>1, SMT
<1>3. \A i \in 1..Len(u) : /\ Len(s) + i \in 1..Len(s) + Len(u) /\ ~(Len(s) + i <= Len(s))
                           /\ Len(s) + i - Len(s) = i
  BY <1>1, SMT
<1> DEFINE x == s \o u
<1>4. /\ x \in Seq(T) /\ Len(x) = Len(s) + Len(u)
      /\ \A i \in 1..Len(s) + Len(u) : x[i] = IF i <= Len(s) THEN s[i] ELSE u[i - Len(s)]
  BY ConcatProperties, Zenon
<1> HIDE DEF x
<1> QED  BY <1>1, <1>2, <1>3, <1>4 DEF x, Joined

LEMMA Single ==
  ASSUME NEW T, NEW v \in T
  PROVE  <<v>> \in Seq(T) /\ Len(<<v>>) = 1 /\ <<v>>[1] = v
OBVIOUS

LEMMA OneMore ==
  ASSUME NEW T, NEW s \in Seq(T), NEW v \in T
  PROVE  Longer(s \o <<v>>, s, v, T)
<1> DEFINE u == <<v>>
<1>1. u \in Seq(T) /\ Len(u) = 1 /\ u[1] = v /\ 1 \in 1..Len(u)
  OBVIOUS
<1> HIDE DEF u
<1>2. Joined(s \o u, s, u, T)
  BY <1>1, ConcatParts
<1> DEFINE x == s \o u
<1> HIDE DEF x
<1>3. Longer(x, s, v, T)
  BY <1>1, <1>2 DEF x, Joined, Longer
<1> QED  BY <1>3 DEF x, u

LEMMA CellsFacts ==
  ASSUME NEW v \in Vals
  PROVE  /\ Cells(v) \in Seq(CellSet)
         /\ ~IsDescribed(v) => Len(Cells(v)) = 1 /\ Cells(v)[1] = Id(v)
         /\ IsDescribed(v) =>
              /\ Len(Cells(v)) = IF v.inside = <<>> THEN 3 ELSE 2
              /\ Cells(v)[1] = Cell("described", 0, Blank) /\ Cells(v)[2] = Id(v)
<1> DEFINE a == Cell("described", 0, Blank)
           b == Cell("content", 0, Blank)
           x == Id(v)
           S == CellSet
<1>1. a \in S /\ b \in S /\ x \in S
  BY DEF CellSet
<1>2. CASE ~IsDescribed(v)
  <2>1. Cells(v) = <<x>>
    BY <1>2 DEF Cells, IsDescribed, Id
  <2> HIDE DEF x, S
  <2>2. <<x>> \in Seq(S) /\ Len(<<x>>) = 1 /\ <<x>>[1] = x
    BY <1>1, Single
  <2> QED  BY <1>2, <2>1, <2>2 DEF x, S
<1>3. CASE IsDescribed(v)
  <2>1. Cells(v) = <<a, x>> \o (IF v.inside = <<>> THEN <<b>> ELSE <<>>)
    BY <1>3 DEF Cells, IsDescribed, Id
  <2> HIDE DEF a, b, x, S
  <2> DEFINE p == <<a, x>>
  <2>2. p \in Seq(S) /\ Len(p) = 2 /\ p[1] = a /\ p[2] = x
    BY <1>1
  <2>3. CASE v.inside = <<>>
    <3>1. Cells(v) = p \o <<b>>
      BY <2>1, <2>3
    <3> HIDE DEF p
    <3>2. Longer(p \o <<b>>, p, b, S)
      BY <1>1, <2>2, OneMore
    <3>3. 1 \in 1..2 /\ 2 \in 1..2 /\ 2 + 1 = 3
      BY SMT
    <3> QED  BY <1>3, <2>2, <2>3, <3>1, <3>2, <3>3 DEF a, x, S, Longer
  <2>4. CASE v.inside # <<>>
    <3>1. Cells(v) = p \o <<>>
      BY <2>1, <2>4
    <3> HIDE DEF p
    <3>2. p \o <<>> = p
      BY <2>2, ConcatEmptySeq
    <3> QED  BY <1>3, <2>2, <2>4, <3>1, <3>2 DEF a, x, S
  <2> QED  BY <2>3, <2>4
<1> QED  BY <1>2, <1>3

\* One value more after those that are placed.
LEMMA PlaceOne ==
  ASSUME NEW S \in Seq(Vals), NEW I \in Seq(CellSet), NEW f, Placed(f, S, I), NEW v \in Vals
  PROVE  /\ S \o <<v>> \in Seq(Vals) /\ I \o Cells(v) \in Seq(CellSet)
         /\ \E g : Placed(g, S \o <<v>>, I \o Cells(v))
<1> DEFINE C == Cells(v)
           X == S \o <<v>>
           J == I \o C
           N == Len(S)
           g == [n \in 1..Len(X) + 1 |-> IF n <= N + 1 THEN f[n] ELSE Len(J) + 1]
<1>1. C \in Seq(CellSet)
  BY CellsFacts
<1>2. /\ X \in Seq(Vals) /\ Len(X) = N + 1 /\ N \in Nat
      /\ \A i \in 1..N : X[i] = S[i]
      /\ X[N + 1] = v
  <2>1. Longer(X, S, v, Vals)
    BY OneMore
  <2> QED  BY <2>1 DEF Longer
<1> HIDE DEF C, X
<1>3. /\ J \in Seq(CellSet) /\ Len(J) = Len(I) + Len(C) /\ Len(I) \in Nat /\ Len(C) \in Nat
      /\ \A i \in 1..Len(I) : J[i] = I[i]
      /\ \A i \in 1..Len(C) : J[Len(I) + i] = C[i]
  <2>1. Joined(J, I, C, CellSet)
    BY <1>1, ConcatParts
  <2> QED  BY <2>1 DEF Joined
<1> HIDE DEF J, N
<1>4. /\ f \in [1..N + 1 -> Nat \ {0}] /\ f[1] = 1 /\ f[N + 1] = Len(I) + 1
      /\ \A n \in 1..N :
           /\ f[n + 1] = f[n] + Len(Cells(S[n])) /\ f[n + 1] <= Len(I) + 1
           /\ \A c \in 1..Len(Cells(S[n])) : I[f[n] + c - 1] = Cells(S[n])[c]
  BY DEF Placed, N
<1>5. /\ DOMAIN g = 1..N + 2 /\ g[1] = 1 /\ g[N + 2] = Len(J) + 1
      /\ \A n \in 1..N + 1 : g[n] = f[n]
  <2>1. 1 \in 1..N + 1 /\ N + 2 \in 1..N + 2 /\ ~(N + 2 <= N + 1) /\ Len(X) + 1 = N + 2
    BY <1>2, SMT
  <2>2. \A n \in 1..N + 1 : n \in 1..N + 2 /\ n <= N + 1
    BY <1>2, SMT
  <2> QED  BY <1>4, <2>1, <2>2
<1>6. g \in [1..Len(X) + 1 -> Nat \ {0}]
  <2>1. \A n \in 1..Len(X) + 1 : g[n] \in Nat \ {0}
    <3>1. \A n \in 1..N + 2 : n \in 1..N + 1 \/ n = N + 2
      BY <1>2, SMT
    <3>2. Len(J) + 1 \in Nat \ {0}
      BY <1>3, SMT
    <3>3. Len(X) + 1 = N + 2
      BY <1>2, SMT
    <3> QED  BY <1>4, <1>5, <3>1, <3>2, <3>3
  <2> QED  BY <2>1
<1> HIDE DEF g
<1>7. ASSUME NEW n \in 1..Len(X)
      PROVE  /\ g[n + 1] = g[n] + Len(Cells(X[n])) /\ g[n + 1] <= Len(J) + 1
             /\ \A c \in 1..Len(Cells(X[n])) : J[g[n] + c - 1] = Cells(X[n])[c]
  <2>1. CASE n = N + 1
    <3>1. X[n] = v /\ g[n] = Len(I) + 1 /\ g[n + 1] = Len(J) + 1 /\ Cells(X[n]) = C
      <4>1. n \in 1..N + 1 /\ n + 1 = N + 2
        BY <1>2, <2>1, SMT
      <4> QED  BY <1>2, <1>4, <1>5, <2>1, <4>1 DEF C
    <3>2. g[n + 1] = g[n] + Len(C) /\ g[n + 1] <= Len(J) + 1
      BY <1>3, <3>1, SMT
    <3>3. \A c \in 1..Len(C) : g[n] + c - 1 = Len(I) + c
      BY <1>3, <3>1, SMT
    <3> QED  BY <1>3, <3>1, <3>2, <3>3
  <2>2. CASE n # N + 1
    <3>1. n \in 1..N /\ n \in 1..N + 1 /\ n + 1 \in 1..N + 1
      BY <1>2, <2>2, SMT
    <3> DEFINE D == Cells(S[n])
    <3>2. /\ X[n] = S[n] /\ g[n] = f[n] /\ g[n + 1] = f[n + 1] /\ f[n] \in Nat \ {0}
          /\ f[n + 1] = f[n] + Len(D) /\ f[n + 1] <= Len(I) + 1 /\ f[n + 1] \in Nat \ {0}
          /\ \A c \in 1..Len(D) : I[f[n] + c - 1] = D[c]
      BY <1>2, <1>4, <1>5, <3>1
    <3>3. Len(D) \in Nat
      <4>1. S[n] \in Vals
        BY <3>1, ElementOfSeq DEF N
      <4> QED  BY <4>1, CellsFacts, LenProperties
    <3>4. g[n + 1] <= Len(J) + 1
      BY <1>3, <3>2, SMT
    <3> HIDE DEF D
    <3>5. ASSUME NEW c \in 1..Len(D) PROVE f[n] + c - 1 \in 1..Len(I)
      <4>1. /\ f[n] \in Nat \ {0} /\ f[n] + Len(D) <= Len(I) + 1 /\ Len(D) \in Nat
            /\ Len(I) \in Nat
        BY <1>3, <3>2, <3>3
      <4> QED  BY <4>1, SMT
    <3> QED  BY <1>3, <3>2, <3>4, <3>5 DEF D
  <2> QED  BY <2>1, <2>2
<1>8. Len(X) + 1 = N + 2
  BY <1>2, SMT
<1>9. Placed(g, X, J)
  BY <1>5, <1>6, <1>7, <1>8 DEF Placed
<1> QED  BY <1>2, <1>3, <1>9 DEF X, J, C

\* One value more: the next of those to be written, or what the last holds.
LEMMA OrderOne ==
  ASSUME NEW S \in Seq(Vals), NEW w \in Nat, NEW open \in BOOLEAN, NEW t, Ordered(t, S, w, open),
         NEW v \in Vals, WellFormed(v), (v.inside = <<>>) <=> (Inner(v) = Blank), NEW z \in Nat,
         ~open => values[w + 1] = v /\ z = w + 1,
         open => v.enum = Inner(S[Len(S)]) /\ z = w
  PROVE  \E u : Ordered(u, S \o <<v>>, z, v.inside # <<>>)
<1> DEFINE X == S \o <<v>>
           N == Len(S)
           last == IF v.inside # <<>> THEN z ELSE z + 1
           u == [n \in 1..N + 2 |-> IF n <= N + 1 THEN t[n] ELSE last]
<1>1. /\ X \in Seq(Vals) /\ Len(X) = N + 1 /\ N \in Nat
      /\ \A i \in 1..N : X[i] = S[i]
      /\ X[N + 1] = v
  <2>1. Longer(X, S, v, Vals)
    BY OneMore
  <2> QED  BY <2>1 DEF Longer
<1> HIDE DEF X
<1>2. /\ t \in [1..N + 1 -> Nat] /\ t[1] = 1 /\ t[N + 1] = z
      /\ N # 0 => S[1] = values[1]
      /\ open => N # 0
      /\ \A n \in 1..N :
           /\ WellFormed(S[n]) /\ t[n] \in 1..w
           /\ S[n].inside = <<>> =>
                /\ Inner(S[n]) = Blank /\ t[n + 1] = t[n] + 1
                /\ n < N => S[n + 1] = values[t[n] + 1]
           /\ S[n].inside # <<>> =>
                /\ Inner(S[n]) # Blank /\ t[n + 1] = t[n]
                /\ n < N => S[n + 1].enum = Inner(S[n])
           /\ n = N => (open <=> S[n].inside # <<>>)
  BY DEF Ordered
<1>3. open => v.enum = Inner(S[N])
  OBVIOUS
<1>4. last \in Nat /\ (v.inside # <<>> => last = z) /\ (v.inside = <<>> => last = z + 1)
  OBVIOUS
<1> HIDE DEF N, last
<1>5. /\ u \in [1..Len(X) + 1 -> Nat] /\ u[1] = 1 /\ u[N + 2] = last /\ Len(X) + 1 = N + 2
      /\ \A n \in 1..N + 1 : u[n] = t[n]
  <2>1. Len(X) + 1 = N + 2 /\ 1 \in 1..N + 1 /\ N + 2 \in 1..N + 2 /\ ~(N + 2 <= N + 1)
    BY <1>1, SMT
  <2>2. \A n \in 1..N + 2 : n <= N + 1 <=> n \in 1..N + 1
    BY <1>1, SMT
  <2>3. \A n \in 1..N + 1 : n \in 1..N + 2
    BY <1>1, SMT
  <2> QED  BY <1>2, <1>4, <2>1, <2>2, <2>3
<1> HIDE DEF u
<1>6. X[1] = values[1]
  <2>1. CASE N = 0
    <3>1. ~open
      BY <1>2, <2>1
    <3>2. values[w + 1] = v /\ z = w + 1 /\ t[N + 1] = 1 /\ N + 1 = 1
      BY <1>2, <2>1, <3>1
    <3> QED  BY <1>1, <1>2, <3>2
  <2>2. CASE N # 0
    <3>1. 1 \in 1..N
      BY <1>1, <2>2, SMT
    <3> QED  BY <1>1, <1>2, <2>2, <3>1
  <2> QED  BY <2>1, <2>2
<1>7. ASSUME NEW n \in 1..Len(X)
      PROVE  /\ WellFormed(X[n]) /\ u[n] \in 1..z
             /\ X[n].inside = <<>> =>
                  /\ Inner(X[n]) = Blank /\ u[n + 1] = u[n] + 1
                  /\ n < Len(X) => X[n + 1] = values[u[n] + 1]
             /\ X[n].inside # <<>> =>
                  /\ Inner(X[n]) # Blank /\ u[n + 1] = u[n]
                  /\ n < Len(X) => X[n + 1].enum = Inner(X[n])
             /\ n = Len(X) => ((v.inside # <<>>) <=> X[n].inside # <<>>)
  <2>1. CASE n = N + 1
    <3>1. N + 1 \in 1..N + 1 /\ ~(N + 1 < N + 1) /\ N + 1 + 1 = N + 2
      BY <1>1, SMT
    <3>2. z \in 1..z
      <4>1. CASE open
        <5>1. N \in 1..N
          BY <1>1, <1>2, <4>1, SMT
        <5>2. t[N] \in 1..w
          BY <1>2, <5>1
        <5> QED  BY <4>1, <5>2, SMT
      <4>2. CASE ~open
        BY <4>2, SMT
      <4> QED  BY <4>1, <4>2
    <3>3. X[n] = v /\ u[n] = z /\ u[n + 1] = last /\ ~(n < Len(X))
      BY <1>1, <1>2, <1>5, <2>1, <3>1
    <3> QED  BY <1>4, <3>2, <3>3
  <2>2. CASE n \in 1..N
    <3>1. n \in 1..N + 1 /\ n + 1 \in 1..N + 1 /\ n < N + 1 /\ n # N + 1
      BY <1>1, <2>2, SMT
    <3>2. X[n] = S[n] /\ u[n] = t[n] /\ u[n + 1] = t[n + 1]
      BY <1>1, <1>5, <2>2, <3>1
    <3>3. t[n] \in 1..z
      <4>1. t[n] \in 1..w /\ (z = w \/ z = w + 1)
        BY <1>2, <2>2
      <4> QED  BY <4>1, SMT
    <3>4. CASE n < N
      <4>1. n + 1 \in 1..N
        BY <1>1, <2>2, <3>4, SMT
      <4> QED  BY <1>1, <1>2, <2>2, <3>1, <3>2, <3>3, <3>4, <4>1, SMTT(30)
    <3>5. CASE ~(n < N)
      <4>1. n = N
        BY <1>1, <2>2, <3>5, SMT
      <4>2. X[n + 1] = v /\ t[n + 1] = z
        BY <1>1, <1>2, <4>1
      <4>3. CASE open
        <5>1. S[n].inside # <<>>
          BY <1>2, <2>2, <4>1, <4>3
        <5> QED  BY <1>1, <1>2, <1>3, <2>2, <3>1, <3>2, <3>3, <4>1, <4>2, <4>3, <5>1
      <4>4. CASE ~open
        <5>1. S[n].inside = <<>>
          BY <1>2, <2>2, <4>1, <4>4
        <5>2. t[n] + 1 = z /\ Inner(S[n]) = Blank /\ WellFormed(S[n]) /\ t[n + 1] = t[n] + 1
          BY <1>2, <2>2, <4>2, <5>1
        <5> QED  BY <1>1, <3>1, <3>2, <3>3, <4>2, <4>4, <5>1, <5>2
      <4> QED  BY <4>3, <4>4
    <3> QED  BY <3>4, <3>5
  <2>3. n \in 1..N \/ n = N + 1
    BY <1>1, SMT
  <2> QED  BY <2>1, <2>2, <2>3
<1>8. u[Len(X) + 1] = (IF v.inside # <<>> THEN z ELSE z + 1) /\ Len(X) # 0
  BY <1>1, <1>5, SMT DEF last
<1>9. Ordered(u, X, z, v.inside # <<>>)
  BY <1>5, <1>6, <1>7, <1>8 DEF Ordered
<1> QED  BY <1>9 DEF X

-----------------------------------------------------------------------------
\* The reader is at the n-th value, and knows what it is of: the enums asked
\* for are its own and those of the values after the one it lies in.
AskedFrom(n, t) ==
  /\ Len(todo) = IF n = Len(sent) + 1 THEN 0 ELSE Len(values) - t[n] + 1
  /\ n <= Len(sent) => todo[1] = sent[n].enum
  /\ \A j \in 2..Len(todo) : todo[j] = values[t[n] + j - 1].enum

\* Where in the n-th value the reader is, and why it may have stopped.
WithinValue(n, f) ==
  LET v == sent[n] IN
  /\ pc = "enum" =>
       /\ ~any /\ at = f[n]
       /\ outcome = "running" \/ (outcome = "ok" /\ todo = <<>>)
  /\ pc \in {"identifier", "content"} =>
       n <= Len(sent) /\ (described <=> IsDescribed(v)) /\ (any <=> IsAny(v))
  /\ pc = "identifier" =>
       /\ at = IF described THEN f[n] + 1 ELSE f[n]
       /\ \/ outcome = "running"
          \/ outcome = "err" /\ ~Known(v)
          \/ outcome = "panic" /\ IsUInt(v) /\ at + 2 >= Len(input)
  /\ pc = "content" =>
       /\ at = IF any THEN f[n] ELSE IF described THEN f[n] + 2 ELSE f[n] + 1
       /\ field = v.variant /\ Known(v) /\ outcome = "running"

Reading(f, t) ==
  /\ Len(decoded) <= Len(sent)
  /\ \A i \in 1..Len(decoded) : decoded[i] = sent[i].variant /\ Known(sent[i])
  /\ AskedFrom(Len(decoded) + 1, t)
  /\ WithinValue(Len(decoded) + 1, f)

DispatchInv ==
  /\ values \in Cases /\ pc \in {"expand", "write", "enum", "identifier", "content"}
  /\ sent \in Seq(Vals) /\ input \in Seq(CellSet)
  /\ todo \in Seq(DOMAIN Defs) /\ decoded \in Seq(Nat)
  /\ pc = "expand" => outcome \in {"running", "uncompilable"}
  /\ pc = "write" => outcome = "running"
  /\ pc # "expand" => \A e \in DOMAIN Defs : Expandable(e)
  /\ pc \in {"expand", "write"} =>
       /\ decoded = <<>> /\ at = 1 /\ ~any /\ Len(todo) < Len(values)
       /\ \A j \in 1..Len(todo) : todo[j] = values[j].enum
       /\ \E f, t : Placed(f, sent, input) /\ Ordered(t, sent, Len(todo), FALSE)
  /\ pc \notin {"expand", "write"} =>
       \E f, t : /\ Placed(f, sent, input) /\ Ordered(t, sent, Len(values), FALSE)
                 /\ Reading(f, t)

LEMMA CaseFacts ==
  ASSUME values \in Cases
  PROVE  /\ Len(values) \in Nat \ {0} /\ DOMAIN values = 1..Len(values)
         /\ \A i \in 1..Len(values) :
              /\ values[i] \in Vals /\ WellFormed(values[i]) /\ values[i].enum \in DOMAIN Defs
              /\ values[i].inside = <<>> <=> Inner(values[i]) = Blank
              /\ values[i].inside # <<>> =>
                   \E w \in Vals : /\ values[i].inside = <<w>> /\ w.inside = <<>>
                                   /\ WellFormed(w) /\ w.enum = Inner(values[i])
                                   /\ Inner(w) = Blank
<1>1. /\ values # <<>> /\ values = [i \in 1..Len(values) |-> values[i]] /\ Len(values) \in Nat
      /\ \A i \in DOMAIN values :
           /\ WellFormed(values[i])
           /\ IF Inner(values[i]) = Blank THEN values[i].inside = <<>>
              ELSE \E w \in {values[i].inside[1]} :
                     /\ values[i].inside = <<w>> /\ w.inside = <<>>
                     /\ WellFormed(w) /\ w.enum = Inner(values[i]) /\ Inner(w) = Blank
  BY CasesAssumption
<1>2. DOMAIN values = 1..Len(values)
  BY <1>1
<1>3. Len(values) # 0
  <2> SUFFICES ASSUME Len(values) = 0 PROVE FALSE
    OBVIOUS
  <2>1. 1..0 = {}
    BY SMT
  <2>2. values = <<>>
    BY <1>1, <2>1
  <2> QED  BY <1>1, <2>2
<1>4. \A i \in DOMAIN values : values[i] \in Vals /\ values[i].inside[1] \in Vals
  BY DEF Vals
<1>5. \A w : <<w>> # <<>>
  BY SMT
<1>6. ASSUME NEW i \in 1..Len(values)
      PROVE  /\ values[i] \in Vals /\ WellFormed(values[i]) /\ values[i].enum \in DOMAIN Defs
             /\ values[i].inside = <<>> <=> Inner(values[i]) = Blank
             /\ values[i].inside # <<>> =>
                  \E w \in Vals : /\ values[i].inside = <<w>> /\ w.inside = <<>>
                                  /\ WellFormed(w) /\ w.enum = Inner(values[i])
                                  /\ Inner(w) = Blank
  <2>1. values[i] \in Vals /\ values[i].inside[1] \in Vals /\ WellFormed(values[i])
    BY <1>1, <1>2, <1>4
  <2>2. values[i].enum \in DOMAIN Defs
    BY <2>1 DEF WellFormed
  <2>3. CASE Inner(values[i]) = Blank
    <3>1. values[i].inside = <<>>
      BY <1>1, <1>2, <2>3
    <3> QED  BY <2>1, <2>2, <2>3, <3>1
  <2>4. CASE Inner(values[i]) # Blank
    <3> DEFINE w == values[i].inside[1]
    <3>1. /\ values[i].inside = <<w>> /\ w.inside = <<>>
          /\ WellFormed(w) /\ w.enum = Inner(values[i]) /\ Inner(w) = Blank
      BY <1>1, <1>2, <2>4
    <3>2. values[i].inside # <<>> /\ w \in Vals
      BY <1>5, <2>1, <3>1
    <3> QED  BY <2>1, <2>2, <2>4, <3>1, <3>2
  <2> QED  BY <2>3, <2>4
<1> QED  BY <1>1, <1>2, <1>3, <1>6

LEMMA FormTags ==
  ASSUME NEW v, WellFormed(v)
  PROVE  /\ v.form \notin {"described", "nothing"}
         /\ IsDescribed(v) => ~IsAny(v)
         /\ ~IsAny(v) => (v.form \in UInts <=> IsUInt(v))
         /\ IsUInt(v) => ~IsAny(v)
         /\ v.enum \in DOMAIN Defs /\ (IsAny(v) <=> v.enum = "Any")
         /\ v.variant \in Nat
<1>1. IsAny(v) /\ v.variant # Foreign => Name(v) \notin {"described", "nothing"}
  BY WayFacts DEF IsAny, Name, Variant, VariantAssumption
<1>2. v.enum \in DOMAIN Defs /\ (IsAny(v) <=> v.enum = "Any")
  BY DefsAssumption DEF WellFormed, IsAny
<1>3. v.variant \in Nat
  <2>1. v.variant \in {Foreign} \cup 1..Len(Defs[v.enum].variants)
    BY WayFacts
  <2> QED  BY <2>1, SMT DEF Foreign
<1>4. /\ v.form \notin {"described", "nothing"}
      /\ IsDescribed(v) => ~IsAny(v)
      /\ ~IsAny(v) => (v.form \in UInts <=> IsUInt(v))
      /\ IsUInt(v) => ~IsAny(v)
  <2>1. IsUInt(v) <=> Defs[v.enum].peer = "uint"
    BY DEF IsUInt
  <2>2. Symbols = {"sym8", "sym32"} /\ UInts = {"uint0", "smalluint", "uint"}
    BY DEF Symbols, UInts
  <2> QED  BY <1>1, <2>1, <2>2, Forms DEF IsAny
<1> QED  BY <1>2, <1>3, <1>4

\* The cells at the reader's position.
LEMMA AtValue ==
  ASSUME NEW f, NEW t, NEW w, Placed(f, sent, input), Ordered(t, sent, w, FALSE),
         sent \in Seq(Vals), input \in Seq(CellSet), NEW n \in 1..Len(sent)
  PROVE  LET v == sent[n] IN
         /\ v \in Vals /\ WellFormed(v) /\ f[n] \in Nat \ {0} /\ f[n] <= Len(input)
         /\ ~IsDescribed(v) => input[f[n]] = Id(v) /\ f[n + 1] = f[n] + 1
         /\ IsDescribed(v) =>
              /\ input[f[n]] = Cell("described", 0, Blank)
              /\ input[f[n] + 1] = Id(v) /\ f[n] + 1 <= Len(input)
              /\ f[n + 1] = IF v.inside = <<>> THEN f[n] + 3 ELSE f[n] + 2
<1> DEFINE v == sent[n]
           C == Cells(v)
<1>1. v \in Vals /\ WellFormed(v)
  BY ElementOfSeq DEF Ordered
<1>2. /\ C \in Seq(CellSet) /\ Len(C) \in Nat
      /\ ~IsDescribed(v) => Len(C) = 1 /\ C[1] = Id(v)
      /\ IsDescribed(v) => /\ Len(C) = IF v.inside = <<>> THEN 3 ELSE 2
                           /\ C[1] = Cell("described", 0, Blank) /\ C[2] = Id(v)
  BY <1>1, CellsFacts, LenProperties
<1>3. f[n] \in Nat \ {0} /\ Len(input) \in Nat
  <2>1. n \in 1..Len(sent) + 1
    BY LenProperties, SMT
  <2> QED  BY <2>1, LenProperties DEF Placed
<1>4. /\ f[n + 1] = f[n] + Len(C) /\ f[n + 1] <= Len(input) + 1
      /\ \A c \in 1..Len(C) : input[f[n] + c - 1] = C[c]
  BY DEF Placed
<1> HIDE DEF C, v
<1>5. f[n] + 1 - 1 = f[n] /\ f[n] + 2 - 1 = f[n] + 1
  BY <1>3, SMT
<1>6. CASE ~IsDescribed(v)
  <2>1. 1 \in 1..Len(C)
    <3>1. Len(C) = 1
      BY <1>2, <1>6
    <3> QED  BY <3>1, SMT
  <2>2. input[f[n]] = Id(v) /\ f[n + 1] = f[n] + 1
    BY <1>2, <1>4, <1>5, <1>6, <2>1
  <2>3. f[n] <= Len(input)
    BY <1>3, <1>4, <2>2, SMT
  <2> QED  BY <1>1, <1>3, <1>6, <2>2, <2>3 DEF v
<1>7. CASE IsDescribed(v)
  <2>1. Len(C) \in {2, 3} /\ Len(C) = IF v.inside = <<>> THEN 3 ELSE 2
    BY <1>2, <1>7
  <2>2. 1 \in 1..Len(C) /\ 2 \in 1..Len(C)
    BY <2>1, SMT
  <2>3. input[f[n]] = Cell("described", 0, Blank) /\ input[f[n] + 1] = Id(v)
    BY <1>2, <1>4, <1>5, <1>7, <2>2
  <2>4. f[n] <= Len(input) /\ f[n] + 1 <= Len(input)
    BY <1>3, <1>4, <2>1, SMT
  <2>5. f[n + 1] = IF v.inside = <<>> THEN f[n] + 3 ELSE f[n] + 2
    BY <1>4, <2>1
  <2> QED  BY <1>1, <1>3, <1>7, <2>3, <2>4, <2>5 DEF v
<1> QED  BY <1>6, <1>7

-----------------------------------------------------------------------------
LEMMA DispatchInit == Init => DispatchInv
<1> SUFFICES ASSUME Init PROVE DispatchInv
  OBVIOUS
<1>1. /\ values \in Cases /\ sent = <<>> /\ input = <<>> /\ todo = <<>> /\ decoded = <<>>
      /\ at = 1 /\ pc = "expand" /\ ~any /\ outcome = "running"
  BY DEF Init
<1>2. <<>> \in Seq(Vals) /\ <<>> \in Seq(CellSet) /\ <<>> \in Seq(DOMAIN Defs) /\ <<>> \in Seq(Nat)
      /\ Len(<<>>) = 0
  BY EmptySeq
<1>3. 0 < Len(values)
  BY <1>1, CaseFacts, SMT
<1> DEFINE f == [n \in 1..1 |-> 1]
<1>4. f \in [1..0 + 1 -> Nat \ {0}] /\ f \in [1..0 + 1 -> Nat] /\ f[1] = 1 /\ f[0 + 1] = 0 + 1 /\ 1..0 = {}
  BY SMT
<1> HIDE DEF f
<1>5. Placed(f, sent, input) /\ Ordered(f, sent, Len(todo), FALSE)
  BY <1>1, <1>2, <1>4 DEF Placed, Ordered
<1> QED  BY <1>1, <1>2, <1>3, <1>4, <1>5 DEF DispatchInv

LEMMA ExpandStep ==
  ASSUME DispatchInv, Expand
  PROVE  DispatchInv'
<1>1. /\ pc = "expand" /\ UNCHANGED <<values, sent, input, at, todo, described, any, field, decoded>>
      /\ \/ pc' = "write" /\ outcome' = "running" /\ \A e \in DOMAIN Defs : Expandable(e)
         \/ pc' = "expand" /\ outcome' = "uncompilable"
  BY DEF Expand, Runs, Finish
<1>2. ASSUME NEW t PROVE Ordered(t, sent, Len(todo), FALSE)' <=> Ordered(t, sent, Len(todo), FALSE)
  BY <1>1 DEF Ordered
<1> QED  BY <1>1, <1>2 DEF DispatchInv

LEMMA WriteStep ==
  ASSUME DispatchInv, Write
  PROVE  DispatchInv'
<1> DEFINE w == Len(todo)
           v == values[w + 1]
           S == IF v.inside = <<>> THEN sent \o <<v>> ELSE sent \o <<v>> \o v.inside
           J == IF v.inside = <<>> THEN input \o Cells(v)
                ELSE input \o Cells(v) \o Cells(v.inside[1])
<1>1. /\ values \in Cases /\ sent \in Seq(Vals) /\ input \in Seq(CellSet)
      /\ todo \in Seq(DOMAIN Defs) /\ decoded = <<>> /\ w < Len(values)
      /\ \A j \in 1..w : todo[j] = values[j].enum
      /\ pc = "write" /\ outcome = "running" /\ at = 1 /\ ~any
      /\ \A e \in DOMAIN Defs : Expandable(e)
  BY DEF DispatchInv, Write, Runs
<1>2. PICK f, t : Placed(f, sent, input) /\ Ordered(t, sent, w, FALSE)
  BY <1>1 DEF DispatchInv
<1>3. /\ UNCHANGED <<values, at, decoded, any, outcome>> /\ todo' = Append(todo, v.enum)
      /\ sent' = sent \o <<v>> \o v.inside
      /\ input' = input \o Cells(v) \o (IF v.inside = <<>> THEN <<>> ELSE Cells(v.inside[1]))
      /\ pc' = IF Len(todo') = Len(values) THEN "enum" ELSE "write"
  BY DEF Write
<1>4. w \in Nat /\ Len(values) \in Nat /\ w + 1 \in 1..Len(values)
  <2>1. w \in Nat /\ Len(values) \in Nat
    BY <1>1, LenProperties, CaseFacts
  <2> QED  BY <1>1, <2>1, SMT
<1>5. /\ v \in Vals /\ WellFormed(v) /\ v.enum \in DOMAIN Defs
      /\ v.inside = <<>> <=> Inner(v) = Blank
      /\ v.inside # <<>> =>
           \E x \in Vals : /\ v.inside = <<x>> /\ x.inside = <<>> /\ WellFormed(x)
                           /\ x.enum = Inner(v) /\ Inner(x) = Blank
  BY <1>1, <1>4, CaseFacts
<1> HIDE DEF w, v
<1>6. /\ sent \o <<v>> \in Seq(Vals) /\ input \o Cells(v) \in Seq(CellSet)
      /\ \E g : Placed(g, sent \o <<v>>, input \o Cells(v))
  BY <1>1, <1>2, <1>5, PlaceOne
<1>7. \E u : Ordered(u, sent \o <<v>>, w + 1, v.inside # <<>>)
  <2>1. values[w + 1] = v /\ w + 1 \in Nat
    BY <1>4 DEF v
  <2>2. (v.inside = <<>>) <=> (Inner(v) = Blank)
    BY <1>5
  <2> QED  BY <1>1, <1>2, <1>4, <1>5, <2>1, <2>2, OrderOne
<1>8. /\ sent' \in Seq(Vals) /\ input' \in Seq(CellSet)
      /\ \E g, u : Placed(g, sent', input') /\ Ordered(u, sent', w + 1, FALSE)
  <2>1. CASE v.inside = <<>>
    <3>1. sent' = sent \o <<v>> /\ input' = input \o Cells(v)
      <4>1. sent' = (sent \o <<v>>) \o <<>> /\ input' = (input \o Cells(v)) \o <<>>
        BY <1>3, <2>1
      <4> QED  BY <1>6, <4>1, ConcatEmptySeq
    <3> QED  BY <1>6, <1>7, <2>1, <3>1
  <2>2. CASE v.inside # <<>>
    <3>1. PICK x \in Vals : /\ v.inside = <<x>> /\ x.inside = <<>> /\ WellFormed(x)
                            /\ x.enum = Inner(v) /\ Inner(x) = Blank
      BY <1>5, <2>2
    <3> DEFINE T == sent \o <<v>>
               K == input \o Cells(v)
    <3>2. sent' = T \o <<x>> /\ input' = K \o Cells(x)
      <4>1. <<x>>[1] = x
        OBVIOUS
      <4> QED  BY <1>3, <2>2, <3>1, <4>1
    <3>3. T \in Seq(Vals) /\ Len(T) = Len(sent) + 1 /\ T[Len(sent) + 1] = v
      <4>1. Longer(T, sent, v, Vals)
        BY <1>1, <1>5, OneMore
      <4> QED  BY <4>1 DEF Longer
    <3>4. PICK g, u : Placed(g, T, K) /\ Ordered(u, T, w + 1, TRUE)
      <4>1. v.inside # <<>> <=> TRUE
        BY <2>2
      <4> QED  BY <1>6, <1>7, <2>2
    <3>5. K \in Seq(CellSet)
      BY <1>6
    <3> HIDE DEF T, K
    <3>6. /\ T \o <<x>> \in Seq(Vals) /\ K \o Cells(x) \in Seq(CellSet)
          /\ \E h : Placed(h, T \o <<x>>, K \o Cells(x))
      BY <3>1, <3>3, <3>4, <3>5, PlaceOne
    <3>7. \E h : Ordered(h, T \o <<x>>, w + 1, x.inside # <<>>)
      <4>1. x.enum = Inner(T[Len(T)]) /\ w + 1 \in Nat /\ TRUE \in BOOLEAN
        BY <1>4, <3>1, <3>3
      <4>2. (x.inside = <<>>) <=> (Inner(x) = Blank)
        BY <3>1
      <4> QED  BY <3>1, <3>3, <3>4, <4>1, <4>2, OrderOne
    <3> QED  BY <3>1, <3>2, <3>6, <3>7
  <2> QED  BY <2>1, <2>2
<1>9. /\ todo' \in Seq(DOMAIN Defs) /\ Len(todo') = w + 1
      /\ \A j \in 1..w + 1 : todo'[j] = values[j].enum
  <2>1. /\ todo' \in Seq(DOMAIN Defs) /\ Len(todo') = w + 1
        /\ \A j \in 1..w : todo'[j] = todo[j]
        /\ todo'[w + 1] = v.enum
    BY <1>1, <1>3, <1>5, AppendProperties DEF w
  <2>2. \A j \in 1..w + 1 : j \in 1..w \/ j = w + 1
    BY <1>4, SMT
  <2> QED  BY <1>1, <2>1, <2>2 DEF v
<1>10. PICK g, u : Placed(g, sent', input') /\ Ordered(u, sent', w + 1, FALSE)
  BY <1>8
<1>11. Ordered(u, sent, Len(todo), FALSE)' /\ Placed(g, sent, input)'
  BY <1>3, <1>9, <1>10 DEF Ordered
<1>12. CASE w + 1 # Len(values)
  <2>1. w + 1 < Len(values)
    BY <1>4, <1>12, SMT
  <2>2. pc' = "write"
    BY <1>3, <1>9, <1>12
  <2> QED  BY <1>1, <1>3, <1>8, <1>9, <1>11, <2>1, <2>2 DEF DispatchInv
<1>13. CASE w + 1 = Len(values)
  <2>1. pc' = "enum"
    BY <1>3, <1>9, <1>13
  <2>2. Ordered(u, sent, Len(values), FALSE)'
    BY <1>3, <1>9, <1>11, <1>13
  <2>3. /\ u[1] = 1 /\ u[Len(sent') + 1] = w + 2 /\ g[1] = 1 /\ Len(sent') \in Nat
        /\ Len(sent') # 0 => sent'[1] = values[1]
    <3>1. /\ u[1] = 1 /\ u[Len(sent') + 1] = (w + 1) + 1 /\ g[1] = 1
          /\ Len(sent') # 0 => sent'[1] = values[1]
      BY <1>10 DEF Ordered, Placed
    <3>2. (w + 1) + 1 = w + 2
      BY <1>4, SMT
    <3>3. Len(sent') \in Nat
      BY <1>8, LenProperties
    <3> QED  BY <3>1, <3>2, <3>3
  <2>4. Len(sent') # 0
    BY <1>4, <2>3, SMT
  <2>5. Len(<<>>) = 0 /\ 0 + 1 = 1
    BY EmptySeq, SMT
  <2>6. AskedFrom(1, u)'
    <3>1. Len(values) = Len(values) - 1 + 1 /\ 1 # Len(sent') + 1
      BY <1>4, <2>3, <2>4, SMT
    <3>2. 1 \in 1..w + 1 /\ \A j \in 2..w + 1 : j \in 1..w + 1 /\ 1 + j - 1 = j
      BY <1>4, SMT
    <3>3. Len(todo') = Len(values') - u[1] + 1
      BY <1>3, <1>9, <1>13, <2>3, <3>1
    <3>4. todo'[1] = sent'[1].enum
      BY <1>9, <2>3, <2>4, <3>2
    <3>5. \A j \in 2..Len(todo') : todo'[j] = values'[u[1] + j - 1].enum
      BY <1>3, <1>9, <2>3, <3>2
    <3> QED  BY <3>1, <3>3, <3>4, <3>5 DEF AskedFrom
  <2>7. WithinValue(1, g)'
    BY <1>1, <1>3, <2>1, <2>3 DEF WithinValue
  <2>8. Reading(g, u)'
    <3>1. Len(decoded') = 0 /\ 0 <= Len(sent') /\ 1..0 = {}
      <4>1. decoded' = <<>>
        BY <1>1, <1>3
      <4> QED  BY <2>3, <2>5, <4>1, SMT
    <3> QED  BY <2>5, <2>6, <2>7, <3>1 DEF Reading
  <2>9. decoded' \in Seq(Nat)
    BY <1>1, <1>3, EmptySeq
  <2> QED  BY <1>1, <1>3, <1>8, <1>9, <1>11, <2>1, <2>2, <2>8, <2>9 DEF DispatchInv
<1> QED  BY <1>12, <1>13

\* What a step of the reader leaves alone.
LEMMA ReaderStep ==
  ASSUME DispatchInv, pc \notin {"expand", "write"}, UNCHANGED <<values, sent, input>>,
         pc' \in {"enum", "identifier", "content"},
         todo' \in Seq(DOMAIN Defs), decoded' \in Seq(Nat),
         NEW f, NEW t, Placed(f, sent, input), Ordered(t, sent, Len(values), FALSE), Reading(f, t)'
  PROVE  DispatchInv'
<1>1. Ordered(t, sent, Len(values), FALSE)' /\ Placed(f, sent, input)'
  BY DEF Ordered
<1>2. /\ values \in Cases /\ sent \in Seq(Vals) /\ input \in Seq(CellSet)
      /\ \A e \in DOMAIN Defs : Expandable(e)
  BY DEF DispatchInv
<1> QED  BY <1>1, <1>2 DEF DispatchInv

LEMMA EnterStep ==
  ASSUME DispatchInv, EnterEnum
  PROVE  DispatchInv'
<1>1. /\ pc = "enum" /\ outcome = "running" /\ todo # <<>>
      /\ UNCHANGED <<values, sent, input, todo, decoded, outcome>> \/ Peek = "nothing"
      /\ Peek # "nothing" =>
           /\ described' = (Peek = "described") /\ at' = IF described' THEN at + 1 ELSE at
           /\ any' = (IF described' THEN any ELSE Head(todo) = "Any") /\ pc' = "identifier"
  BY DEF EnterEnum, Runs
<1>2. PICK f, t : /\ Placed(f, sent, input) /\ Ordered(t, sent, Len(values), FALSE)
                  /\ Reading(f, t)
  BY <1>1 DEF DispatchInv
<1>3. /\ sent \in Seq(Vals) /\ input \in Seq(CellSet) /\ todo \in Seq(DOMAIN Defs)
      /\ decoded \in Seq(Nat)
  BY DEF DispatchInv
<1> DEFINE n == Len(decoded) + 1
           v == sent[n]
<1>4. n \in 1..Len(sent)
  <2>1. /\ Len(decoded) \in Nat /\ Len(sent) \in Nat /\ Len(decoded) <= Len(sent)
        /\ Len(todo) # 0 /\ n # Len(sent) + 1
    <3>1. Len(todo) # 0
      BY <1>1, <1>3, EmptySeq
    <3> QED  BY <1>2, <1>3, <3>1, LenProperties DEF Reading, AskedFrom
  <2> QED  BY <2>1, SMT
<1>5. /\ WellFormed(v) /\ f[n] \in Nat \ {0} /\ f[n] <= Len(input)
      /\ ~IsDescribed(v) => input[f[n]] = Id(v)
      /\ IsDescribed(v) => input[f[n]] = Cell("described", 0, Blank)
  BY <1>2, <1>3, <1>4, AtValue
<1>6. at = f[n] /\ ~any /\ Head(todo) = v.enum
  <2>1. todo[1] = v.enum /\ Head(todo) = todo[1]
    BY <1>1, <1>2, <1>3, <1>4, HeadTailProperties DEF Reading, AskedFrom
  <2> QED  BY <1>1, <1>2, <2>1 DEF Reading, WithinValue
<1>7. Peek # "nothing" /\ (Peek = "described" <=> IsDescribed(v))
  <2>1. Peek = input[f[n]].tag
    BY <1>5, <1>6 DEF Peek
  <2>2. Cell("described", 0, Blank).tag = "described" /\ Id(v).tag = v.form
    BY DEF Cell, Id
  <2> QED  BY <1>5, <2>1, <2>2, FormTags
<1> HIDE DEF n, v
<1>8. /\ pc' = "identifier" /\ outcome' = "running" /\ (described' <=> IsDescribed(v))
      /\ (any' <=> IsAny(v)) /\ at' = IF described' THEN f[n] + 1 ELSE f[n]
  <2>1. /\ pc' = "identifier" /\ outcome' = "running"
        /\ at' = IF described' THEN f[n] + 1 ELSE f[n]
    BY <1>1, <1>6, <1>7
  <2>2. described' <=> IsDescribed(v)
    <3>1. described' = (Peek = "described")
      BY <1>1, <1>7
    <3>2. described' <=> Peek = "described"
      BY <3>1, Zenon
    <3> QED  BY <1>7, <3>2
  <2>3. any' <=> IsAny(v)
    <3>1. any' = (IF described' THEN any ELSE Head(todo) = "Any")
      BY <1>1, <1>7
    <3>2. IsDescribed(v) => ~IsAny(v)
      BY <1>5, FormTags
    <3>3. IsAny(v) <=> v.enum = "Any"
      BY <1>5, FormTags
    <3>4. CASE described'
      <4>1. any' = any
        BY <3>1, <3>4, Zenon
      <4> QED  BY <1>6, <2>2, <3>2, <3>4, <4>1
    <3>5. CASE ~described'
      <4>1. any' = (Head(todo) = "Any")
        BY <3>1, <3>5, Zenon
      <4>2. any' <=> Head(todo) = "Any"
        BY <4>1, Zenon
      <4> QED  BY <1>6, <3>3, <4>2, Zenon
    <3> QED  BY <3>4, <3>5
  <2> QED  BY <2>1, <2>2, <2>3
<1>9. UNCHANGED <<values, sent, input, todo, decoded>> /\ n' = n /\ v' = v
  BY <1>1, <1>7 DEF n, v
<1>10. Reading(f, t)'
  <2>1. UNCHANGED <<values, sent, input, todo, decoded>>
    BY <1>9
  <2>2. WithinValue(n, f)'
    <3>1. n <= Len(sent)
      BY <1>4, SMT
    <3> QED  BY <1>8, <1>9, <2>1, <3>1 DEF WithinValue, v
  <2> QED  BY <1>2, <2>1, <2>2 DEF Reading, AskedFrom, n
<1> QED  BY <1>1, <1>2, <1>3, <1>7, <1>8, <1>10, ReaderStep

LEMMA IdentifierStep ==
  ASSUME DispatchInv, ReadIdentifier
  PROVE  DispatchInv'
<1>1. pc = "identifier" /\ outcome = "running" /\ UNCHANGED <<values, sent, input, todo, decoded, described, any>>
  BY DEF ReadIdentifier, Runs, Finish
<1>2. PICK f, t : /\ Placed(f, sent, input) /\ Ordered(t, sent, Len(values), FALSE)
                  /\ Reading(f, t)
  BY <1>1 DEF DispatchInv
<1>3. /\ sent \in Seq(Vals) /\ input \in Seq(CellSet) /\ todo \in Seq(DOMAIN Defs)
      /\ decoded \in Seq(Nat) /\ Len(input) \in Nat
  BY LenProperties DEF DispatchInv
<1> DEFINE n == Len(decoded) + 1
           v == sent[n]
<1>4. n \in 1..Len(sent) /\ n <= Len(sent)
  <2>1. Len(decoded) \in Nat /\ Len(sent) \in Nat /\ n <= Len(sent)
    BY <1>1, <1>2, <1>3, LenProperties DEF Reading, WithinValue
  <2> QED  BY <2>1, SMT
<1>5. /\ (described <=> IsDescribed(v)) /\ (any <=> IsAny(v))
      /\ at = IF described THEN f[n] + 1 ELSE f[n]
  BY <1>1, <1>2 DEF Reading, WithinValue
<1>6. /\ WellFormed(v) /\ f[n] \in Nat \ {0} /\ f[n] <= Len(input)
      /\ ~IsDescribed(v) => input[f[n]] = Id(v)
      /\ IsDescribed(v) => input[f[n] + 1] = Id(v) /\ f[n] + 1 <= Len(input)
  BY <1>2, <1>3, <1>4, AtValue
<1>7. /\ input[at] = Id(v) /\ at <= Len(input) /\ at \in Nat
      /\ Id(v).tag = v.form /\ Peek = v.form /\ v.form # "nothing"
  <2>1. input[at] = Id(v) /\ at <= Len(input) /\ at \in Nat
    BY <1>5, <1>6
  <2>2. Id(v).tag = v.form
    BY DEF Id, Cell
  <2>3. v.form # "nothing"
    BY <1>6, FormTags
  <2> QED  BY <2>1, <2>2, <2>3 DEF Peek
<1>8. Head(todo) = v.enum
  <2>1. todo # <<>>
    <3>1. Len(todo) = Len(values) - t[n] + 1 /\ t[n] \in 1..Len(values) /\ Len(values) \in Nat
      <4>1. values \in Cases /\ Len(sent) \in Nat
        BY <1>3, LenProperties DEF DispatchInv
      <4>2. n # Len(sent) + 1
        BY <1>4, <4>1, SMT
      <4> QED  BY <1>2, <1>4, <4>1, <4>2, CaseFacts DEF Reading, AskedFrom, Ordered
    <3>2. Len(todo) # 0
      BY <3>1, SMT
    <3> QED  BY <3>2, EmptySeq
  <2> QED  BY <1>2, <1>3, <1>4, <2>1, HeadTailProperties DEF Reading, AskedFrom
<1> DEFINE V == Defs[v.enum].variants
<1>9. ASSUME UNCHANGED at, pc' \in {"identifier", "content"},
             pc' = "identifier" =>
               \/ outcome' = "err" /\ ~Known(v)
               \/ outcome' = "panic" /\ IsUInt(v) /\ at + 2 >= Len(input),
             pc' = "content" => FALSE
      PROVE  DispatchInv'
  <2>1. WithinValue(n, f)'
    BY <1>1, <1>4, <1>5, <1>9 DEF WithinValue
  <2>2. Reading(f, t)'
    BY <1>1, <1>2, <2>1 DEF Reading, AskedFrom
  <2> QED  BY <1>1, <1>2, <1>3, <1>9, <2>2, ReaderStep
<1>10. n' = n /\ v' = v
  BY <1>1
<1> HIDE DEF n, v, V
<1>11. CASE ~any /\ v.form \in UInts
  <2>1. IsUInt(v) /\ ~Known(v)
    BY <1>5, <1>6, <1>11, FormTags DEF Known
  <2>2. /\ UNCHANGED <<at, pc>>
        /\ outcome' = IF FourBytesLeft THEN "err" ELSE "panic"
    BY <1>7, <1>11 DEF ReadIdentifier, Finish
  <2>3. ~FourBytesLeft => at + 2 >= Len(input)
    <3>1. ~FourBytesLeft => ~(at + 3 <= Len(input))
      BY DEF FourBytesLeft
    <3> QED  BY <1>3, <1>7, <3>1, SMT
  <2> QED  BY <1>1, <1>9, <2>1, <2>2, <2>3
<1>12. CASE any \/ v.form \notin UInts
  <2>1. ~IsUInt(v)
    BY <1>5, <1>6, <1>12, FormTags
  <2>2. \A i \in DOMAIN V : Matches(v.enum, i, Id(v)) <=> i = v.variant /\ ~IsOwnNone(v)
    BY <1>5, <1>6, <2>1, Recognized DEF V
  <2>3. CASE v.variant = Foreign \/ IsOwnNone(v)
    <3>1. DOMAIN V = 1..Len(V) /\ Len(V) \in Nat
      BY <1>6, WayFacts DEF V
    <3>2. ~\E i \in DOMAIN V : Matches(v.enum, i, Id(v))
      <4>1. \A i \in 1..Len(V) : i # Foreign
        BY SMT DEF Foreign
      <4> QED  BY <2>2, <2>3, <3>1, <4>1
    <3>3. outcome' = "err" /\ UNCHANGED <<at, pc>>
      BY <1>7, <1>8, <1>12, <3>2 DEF ReadIdentifier, Finish, V
    <3> QED  BY <1>1, <1>9, <2>3, <3>3 DEF Known
  <2>4. CASE v.variant # Foreign /\ ~IsOwnNone(v)
    <3>1. v.variant \in DOMAIN V /\ DOMAIN V = 1..Len(V) /\ Len(V) \in Nat
      BY <1>6, <2>4, WayFacts DEF V
    <3>2. Matches(v.enum, v.variant, Id(v))
      BY <2>2, <2>4, <3>1
    <3>3. Arm(v.enum, Id(v)) = v.variant
      <4>1. \A j \in 1..v.variant - 1 : j \in DOMAIN V /\ j # v.variant
        BY <3>1, SMT
      <4>2. \A j \in 1..v.variant - 1 : ~Matches(v.enum, j, Id(v))
        BY <2>2, <4>1
      <4> QED  BY <2>2, <3>1, <3>2, <4>2 DEF Arm, V
    <3>4. /\ field' = v.variant /\ at' = (IF any THEN at ELSE at + 1) /\ pc' = "content"
          /\ outcome' = "running"
      BY <1>1, <1>7, <1>8, <1>12, <3>1, <3>2, <3>3 DEF ReadIdentifier, V
    <3>5. at' = IF any THEN f[n] ELSE IF described THEN f[n] + 2 ELSE f[n] + 1
      <4>1. any => ~described
        BY <1>5, <1>6, FormTags
      <4>2. f[n] + 1 + 1 = f[n] + 2
        BY <1>6, SMT
      <4> QED  BY <1>5, <3>4, <4>1, <4>2
    <3>6. WithinValue(n, f)'
      BY <1>1, <1>4, <1>5, <1>10, <2>1, <2>4, <3>4, <3>5 DEF WithinValue, Known, v
    <3>7. Reading(f, t)'
      BY <1>1, <1>2, <3>6 DEF Reading, AskedFrom, n
    <3> QED  BY <1>1, <1>2, <1>3, <3>4, <3>7, ReaderStep
  <2> QED  BY <2>3, <2>4
<1> QED  BY <1>11, <1>12

LEMMA ContentStep ==
  ASSUME DispatchInv, ReadContent
  PROVE  DispatchInv'
<1>1. pc = "content" /\ pc' = "enum" /\ UNCHANGED <<values, sent, input, described, field, outcome>>
  BY DEF ReadContent, Runs
<1>2. PICK f, t : /\ Placed(f, sent, input) /\ Ordered(t, sent, Len(values), FALSE)
                  /\ Reading(f, t)
  BY <1>1 DEF DispatchInv
<1> DEFINE n == Len(decoded) + 1
           v == sent[n]
           x == Variant(v)
           N == Len(sent)
           L == Len(values)
<1>3. /\ sent \in Seq(Vals) /\ input \in Seq(CellSet) /\ todo \in Seq(DOMAIN Defs)
      /\ decoded \in Seq(Nat) /\ N \in Nat /\ L \in Nat /\ Len(todo) \in Nat
      /\ Len(decoded) \in Nat /\ \A e \in DOMAIN Defs : Expandable(e)
  <2>1. values \in Cases
    BY DEF DispatchInv
  <2> QED  BY <1>1, <2>1, CaseFacts, LenProperties DEF DispatchInv
<1>4. n \in 1..N /\ n <= N /\ (n # N => n < N) /\ n # N + 1 /\ n \in Nat
  <2>1. n <= N
    BY <1>1, <1>2 DEF Reading, WithinValue
  <2> QED  BY <1>3, <2>1, SMT
<1>5. /\ (described <=> IsDescribed(v)) /\ (any <=> IsAny(v))
      /\ at = IF any THEN f[n] ELSE IF described THEN f[n] + 2 ELSE f[n] + 1
      /\ field = v.variant /\ Known(v) /\ outcome = "running"
  BY <1>1, <1>2 DEF Reading, WithinValue
<1>6. /\ WellFormed(v) /\ f[n] \in Nat
      /\ ~IsDescribed(v) => f[n + 1] = f[n] + 1
      /\ IsDescribed(v) => f[n + 1] = IF v.inside = <<>> THEN f[n] + 3 ELSE f[n] + 2
  BY <1>2, <1>3, <1>4, AtValue
<1>7. /\ t[n] \in 1..L
      /\ v.inside = <<>> =>
           Inner(v) = Blank /\ t[n + 1] = t[n] + 1 /\ (n < N => sent[n + 1] = values[t[n] + 1])
      /\ v.inside # <<>> =>
           Inner(v) # Blank /\ t[n + 1] = t[n] /\ n < N /\ sent[n + 1].enum = Inner(v)
      /\ t[N + 1] = L + 1 /\ (n < N => t[n + 1] \in 1..L)
  <2>1. n < N => n + 1 \in 1..N
    BY <1>3, <1>4, SMT
  <2> QED  BY <1>2, <1>4, <2>1 DEF Ordered
<1>8. /\ Len(todo) = L - t[n] + 1 /\ todo[1] = v.enum
      /\ \A j \in 2..Len(todo) : todo[j] = values[t[n] + j - 1].enum
  BY <1>2, <1>4 DEF Reading, AskedFrom
<1>9. /\ todo # <<>> /\ Head(todo) = v.enum
      /\ Tail(todo) \in Seq(DOMAIN Defs) /\ Len(Tail(todo)) = Len(todo) - 1
      /\ \A i \in 1..Len(Tail(todo)) : Tail(todo)[i] = todo[i + 1]
  <2>1. Len(todo) # 0
    BY <1>3, <1>7, <1>8, SMT
  <2>2. todo # <<>>
    BY <2>1, EmptySeq
  <2> QED  BY <1>3, <1>8, <2>2, HeadTailProperties
<1>10. /\ x = Defs[v.enum].variants[v.variant] /\ Inner(v) = x.inner
       /\ VariantAssumption(Defs[v.enum], x) /\ v.enum \in DOMAIN Defs
       /\ v.variant \in DOMAIN Defs[v.enum].variants /\ v.variant \in Nat
  BY <1>5, <1>6, WayFacts, FormTags DEF Variant, Inner, Known
<1>11. /\ at' = (IF any \/ (x.shape = "newtype" /\ x.inner = Blank) THEN at + 1 ELSE at)
       /\ todo' = (IF x.inner = Blank THEN <<>> ELSE <<x.inner>>) \o Tail(todo)
       /\ any' = (IF described THEN any ELSE FALSE)
       /\ decoded' = Append(decoded, v.variant)
  BY <1>5, <1>9, <1>10 DEF ReadContent
<1>12. IsDescribed(v) => x.shape = "newtype" /\ ~any
  <2>1. IsDescribed(v) => Defs[v.enum].derive \in {"amqp", "try"} /\ ~any
    BY <1>5, <1>6, WayFacts, FormTags DEF Ways, IsDescribed
  <2> QED  BY <1>3, <1>10, <2>1 DEF Expandable, VariantAssumption
<1>13. ~IsDescribed(v) => x.shape = "unit"
  BY <1>10 DEF VariantAssumption, IsDescribed
<1> HIDE DEF n, v, x, N, L
<1>14. at' = f[n + 1] /\ ~any'
  <2>1. f[n] + 1 + 1 = f[n] + 2 /\ f[n] + 2 + 1 = f[n] + 3
    BY <1>6, SMT
  <2>2. CASE IsDescribed(v)
    <3>1. at = f[n] + 2 /\ ~any
      BY <1>5, <1>12, <2>2
    <3>2. CASE v.inside = <<>>
      BY <1>6, <1>7, <1>10, <1>11, <1>12, <2>1, <2>2, <3>1, <3>2
    <3>3. CASE v.inside # <<>>
      BY <1>6, <1>7, <1>10, <1>11, <1>12, <2>2, <3>1, <3>3
    <3> QED  BY <1>11, <3>1, <3>2, <3>3
  <2>3. CASE ~IsDescribed(v)
    <3>1. x.shape # "newtype"
      BY <1>13, <2>3
    <3> QED  BY <1>5, <1>6, <1>11, <2>3, <3>1
  <2> QED  BY <2>2, <2>3
<1>15. /\ decoded' \in Seq(Nat) /\ Len(decoded') = n
       /\ \A i \in 1..n : decoded'[i] = sent[i].variant /\ Known(sent[i])
  <2>1. /\ decoded' \in Seq(Nat) /\ Len(decoded') = Len(decoded) + 1
        /\ \A i \in 1..Len(decoded) : decoded'[i] = decoded[i]
        /\ decoded'[Len(decoded) + 1] = v.variant
    <3> DEFINE y == v.variant
    <3>1. y \in Nat /\ decoded' = Append(decoded, y)
      BY <1>10, <1>11
    <3> HIDE DEF y
    <3>2. /\ Append(decoded, y) \in Seq(Nat) /\ Len(Append(decoded, y)) = Len(decoded) + 1
          /\ \A i \in 1..Len(decoded) : Append(decoded, y)[i] = decoded[i]
          /\ Append(decoded, y)[Len(decoded) + 1] = y
      BY <1>3, <3>1, AppendProperties
    <3> QED  BY <3>1, <3>2 DEF y
  <2>2. \A i \in 1..n : i \in 1..Len(decoded) \/ i = n
    BY <1>3, SMT DEF n
  <2> QED  BY <1>2, <1>5, <2>1, <2>2 DEF Reading, n, v
<1>16. /\ todo' \in Seq(DOMAIN Defs)
       /\ Len(todo') = IF n + 1 = N + 1 THEN 0 ELSE L - t[n + 1] + 1
       /\ n + 1 <= N => todo'[1] = sent[n + 1].enum
       /\ \A j \in 2..Len(todo') : todo'[j] = values[t[n + 1] + j - 1].enum
  <2> DEFINE T == Tail(todo)
  <2>1. /\ T \in Seq(DOMAIN Defs) /\ Len(T) = L - t[n] /\ Len(T) \in Nat
        /\ \A i \in 1..Len(T) : T[i] = values[t[n] + i].enum
    <3>1. T \in Seq(DOMAIN Defs) /\ Len(T) = Len(todo) - 1 /\ \A i \in 1..Len(T) : T[i] = todo[i + 1]
      BY <1>9
    <3> HIDE DEF T
    <3>2. Len(T) = L - t[n] /\ Len(T) \in Nat
      BY <1>3, <1>7, <1>8, <3>1, SMTT(30)
    <3>3. \A i \in 1..Len(T) : i + 1 \in 2..Len(todo) /\ t[n] + (i + 1) - 1 = t[n] + i
      BY <1>3, <1>7, <3>1, <3>2, SMTT(30)
    <3> QED  BY <1>8, <3>1, <3>2, <3>3
  <2>2. CASE v.inside = <<>>
    <3>1. todo' = T
      <4>1. todo' = <<>> \o T
        BY <1>7, <1>10, <1>11, <2>2
      <4> QED  BY <2>1, <4>1, ConcatEmptySeq
    <3> HIDE DEF T
    <3>2. t[n + 1] = t[n] + 1
      BY <1>7, <2>2
    <3>3. CASE n = N
      <4>1. L - t[n] = 0
        <5>1. t[n] + 1 = L + 1
          BY <1>7, <3>2, <3>3
        <5> QED  BY <1>3, <1>7, <5>1, SMT
      <4>2. ~(n + 1 <= N) /\ ~\E j \in 2..0 : TRUE
        BY <1>3, <3>3, SMT
      <4> QED  BY <2>1, <3>1, <3>3, <4>1, <4>2
    <3>4. CASE n # N
      <4>1. n < N /\ n + 1 # N + 1
        BY <1>3, <1>4, <3>4, SMT
      <4>2. sent[n + 1] = values[t[n] + 1] /\ t[n] + 1 \in 1..L
        BY <1>7, <2>2, <3>2, <4>1
      <4>3. 1 \in 1..Len(T) /\ L - t[n] = L - (t[n] + 1) + 1
        <5>1. /\ t[n] + 1 \in 1..L /\ t[n] \in 1..L /\ L \in Nat
              /\ Len(T) = L - t[n] /\ Len(T) \in Nat
          BY <1>3, <1>7, <2>1, <4>2
        <5> QED  BY <5>1, SMT
      <4>4. \A j \in 2..Len(T) : j \in 1..Len(T) /\ (t[n] + 1) + j - 1 = t[n] + j
        BY <1>7, <2>1, SMT
      <4> QED  BY <2>1, <3>1, <3>2, <4>1, <4>2, <4>3, <4>4
    <3> QED  BY <3>3, <3>4
  <2>3. CASE v.inside # <<>>
    <3>1. t[n + 1] = t[n] /\ n < N /\ sent[n + 1].enum = x.inner /\ x.inner # Blank
      BY <1>7, <1>10, <2>3
    <3> DEFINE A == <<x.inner>>
    <3>2. A \in Seq(DOMAIN Defs) /\ Len(A) = 1 /\ A[1] = x.inner
      <4>1. x.inner \in DOMAIN Defs
        BY <1>10, <3>1 DEF VariantAssumption
      <4> QED  BY <4>1, Single
    <3>3. todo' = A \o T
      BY <1>11, <3>1
    <3> HIDE DEF A, T
    <3>4. Joined(A \o T, A, T, DOMAIN Defs)
      BY <2>1, <3>2, ConcatParts
    <3>5. /\ todo' \in Seq(DOMAIN Defs) /\ Len(todo') = 1 + Len(T) /\ todo'[1] = x.inner
          /\ \A i \in 1..Len(T) : todo'[1 + i] = T[i]
      <4>1. 1 \in 1..1
        BY SMT
      <4> QED  BY <3>2, <3>3, <3>4, <4>1 DEF Joined
    <3>6. \A j \in 2..Len(todo') : /\ j - 1 \in 1..Len(T) /\ 1 + (j - 1) = j
                                    /\ t[n] + (j - 1) = t[n] + j - 1
      BY <1>7, <2>1, <3>5, SMT
    <3>7. \A j \in 2..Len(todo') : todo'[j] = values[t[n] + j - 1].enum
      BY <2>1, <3>5, <3>6
    <3>8. n + 1 # N + 1 /\ 1 + (L - t[n]) = L - t[n] + 1
      BY <1>3, <1>4, <1>7, <3>1, SMT
    <3> QED  BY <2>1, <3>1, <3>5, <3>7, <3>8
  <2> QED  BY <2>2, <2>3
<1>17. Len(decoded') + 1 = n + 1 /\ sent' = sent /\ values' = values
  BY <1>1, <1>15
<1>18. AskedFrom(Len(decoded) + 1, t)'
  BY <1>16, <1>17 DEF AskedFrom, N, L
<1>19. WithinValue(Len(decoded) + 1, f)'
  BY <1>1, <1>5, <1>14, <1>17 DEF WithinValue
<1>20. Reading(f, t)'
  <2>1. \A i \in 1..Len(decoded') : decoded'[i] = sent'[i].variant /\ Known(sent'[i])
    BY <1>15, <1>17
  <2>2. Len(decoded') <= Len(sent')
    BY <1>4, <1>15, <1>17 DEF N
  <2> QED  BY <1>18, <1>19, <2>1, <2>2 DEF Reading
<1> QED  BY <1>1, <1>2, <1>15, <1>16, <1>20, ReaderStep

LEMMA ReturnStep ==
  ASSUME DispatchInv, Return
  PROVE  DispatchInv'
<1>1. /\ pc = "enum" /\ todo = <<>> /\ outcome' = "ok"
      /\ UNCHANGED <<values, sent, input, at, todo, pc, described, any, field, decoded>>
  BY DEF Return, Runs, Finish
<1>2. PICK f, t : /\ Placed(f, sent, input) /\ Ordered(t, sent, Len(values), FALSE)
                  /\ Reading(f, t)
  BY <1>1 DEF DispatchInv
<1>3. todo \in Seq(DOMAIN Defs) /\ decoded \in Seq(Nat)
  BY DEF DispatchInv
<1>4. Reading(f, t)'
  BY <1>1, <1>2 DEF Reading, AskedFrom, WithinValue
<1> QED  BY <1>1, <1>2, <1>3, <1>4, ReaderStep

LEMMA DispatchStutter ==
  ASSUME DispatchInv, UNCHANGED vars
  PROVE  DispatchInv'
<1>1. UNCHANGED <<values, sent, input, at, todo, pc, described, any, field, decoded, outcome>>
  BY DEF vars
<1>2. ASSUME NEW t, NEW w PROVE Ordered(t, sent, w, FALSE)' <=> Ordered(t, sent', w, FALSE)
  BY <1>1 DEF Ordered
<1>3. CASE pc \in {"expand", "write"}
  BY <1>1, <1>2, <1>3 DEF DispatchInv
<1>4. CASE pc \notin {"expand", "write"}
  <2>1. PICK f, t : /\ Placed(f, sent, input) /\ Ordered(t, sent, Len(values), FALSE)
                    /\ Reading(f, t)
    BY <1>4 DEF DispatchInv
  <2>2. Reading(f, t)'
    BY <1>1, <2>1 DEF Reading, AskedFrom, WithinValue
  <2>3. todo \in Seq(DOMAIN Defs) /\ decoded \in Seq(Nat) /\ pc \in {"enum", "identifier", "content"}
    BY <1>4 DEF DispatchInv
  <2> QED  BY <1>1, <1>4, <2>1, <2>2, <2>3, ReaderStep
<1> QED  BY <1>3, <1>4

\* DispatchInv is inductive.
THEOREM DispatchInvariant == Spec => []DispatchInv
<1>1. ASSUME DispatchInv, [Next]_vars PROVE DispatchInv'
  <2>1. CASE Expand
    BY <1>1, <2>1, ExpandStep
  <2>2. CASE Write
    BY <1>1, <2>2, WriteStep
  <2>3. CASE EnterEnum
    BY <1>1, <2>3, EnterStep
  <2>4. CASE ReadIdentifier
    BY <1>1, <2>4, IdentifierStep
  <2>5. CASE ReadContent
    BY <1>1, <2>5, ContentStep
  <2>6. CASE Return
    BY <1>1, <2>6, ReturnStep
  <2>7. CASE Done \/ UNCHANGED vars
    BY <1>1, <2>7, DispatchStutter DEF Done
  <2> QED  BY <1>1, <2>1, <2>2, <2>3, <2>4, <2>5, <2>6, <2>7 DEF Next
<1> QED  BY <1>1, DispatchInit, PTL DEF Spec

-----------------------------------------------------------------------------
\* What the invariant says of the values read, and of each way to stop.
LEMMA Stopped ==
  ASSUME DispatchInv
  PROVE  /\ \A i \in DOMAIN decoded : i \in DOMAIN sent /\ decoded[i] = sent[i].variant
         /\ outcome = "ok" =>
              /\ Len(decoded) = Len(sent) /\ at = Len(input) + 1
              /\ \A i \in DOMAIN sent : Known(sent[i])
         /\ outcome \in {"err", "panic"} => \E i \in DOMAIN sent : ~Known(sent[i])
         /\ outcome = "panic" => Defs[Head(todo)].peer = "uint" /\ at + 2 >= Len(input)
         /\ outcome \in {"running", "uncompilable", "ok", "err", "panic"}
<1>1. /\ DOMAIN decoded = 1..Len(decoded) /\ Len(decoded) \in Nat
      /\ DOMAIN sent = 1..Len(sent) /\ Len(sent) \in Nat
      /\ values \in Cases /\ todo \in Seq(DOMAIN Defs)
  BY LenProperties DEF DispatchInv
<1>2. CASE pc \in {"expand", "write"}
  <2>1. decoded = <<>> /\ outcome \in {"running", "uncompilable"}
    BY <1>2 DEF DispatchInv
  <2>2. DOMAIN decoded = {}
    BY <2>1
  <2> QED  BY <2>1, <2>2
<1>3. CASE pc \in {"enum", "identifier", "content"}
  <2>1. PICK f, t : /\ Placed(f, sent, input) /\ Ordered(t, sent, Len(values), FALSE)
                    /\ Reading(f, t)
    BY <1>3 DEF DispatchInv
  <2> DEFINE n == Len(decoded) + 1
  <2>2. /\ Len(decoded) <= Len(sent)
        /\ \A i \in 1..Len(decoded) : decoded[i] = sent[i].variant /\ Known(sent[i])
        /\ AskedFrom(n, t) /\ WithinValue(n, f)
    BY <2>1 DEF Reading
  <2>3. n \in Nat /\ (n <= Len(sent) => n \in 1..Len(sent)) /\ n <= Len(sent) + 1
    BY <1>1, <2>2, SMT
  <2>4. n <= Len(sent) => Len(todo) # 0
    <3> SUFFICES ASSUME n <= Len(sent) PROVE Len(todo) # 0
      OBVIOUS
    <3>1. n # Len(sent) + 1
      BY <1>1, SMT
    <3>2. Len(todo) = Len(values) - t[n] + 1 /\ t[n] \in 1..Len(values) /\ Len(values) \in Nat
      BY <1>1, <2>1, <2>2, <2>3, <3>1, CaseFacts DEF AskedFrom, Ordered
    <3> QED  BY <3>2, SMT
  <2>5. /\ \A i \in DOMAIN decoded : i \in DOMAIN sent /\ decoded[i] = sent[i].variant
        /\ n = Len(sent) + 1 => \A i \in DOMAIN sent : Known(sent[i])
    <3>1. 1..Len(decoded) \subseteq 1..Len(sent) /\ (n = Len(sent) + 1 => Len(decoded) = Len(sent))
      <4>1. Len(decoded) \in Nat /\ Len(sent) \in Nat /\ Len(decoded) <= Len(sent)
        BY <1>1, <2>2
      <4> QED  BY <4>1, SMT
    <3> QED  BY <1>1, <2>2, <3>1
  <2> HIDE DEF n
  <2>6. CASE pc = "enum"
    <3>1. at = f[n] /\ (outcome = "running" \/ (outcome = "ok" /\ todo = <<>>))
      BY <2>2, <2>6 DEF WithinValue
    <3>2. ASSUME outcome = "ok" PROVE n = Len(sent) + 1 /\ Len(decoded) = Len(sent)
      <4>1. Len(todo) = 0
        BY <3>1, <3>2, EmptySeq
      <4>2. Len(decoded) \in Nat /\ Len(sent) \in Nat /\ Len(decoded) <= Len(sent)
            /\ ~(Len(decoded) + 1 <= Len(sent))
        BY <1>1, <2>2, <2>4, <4>1 DEF n
      <4> QED  BY <4>2, SMT DEF n
    <3>3. f[Len(sent) + 1] = Len(input) + 1
      BY <2>1 DEF Placed
    <3> QED  BY <2>5, <3>1, <3>2, <3>3
  <2>7. CASE pc = "identifier"
    <3>1. /\ n <= Len(sent)
          /\ \/ outcome = "running"
             \/ outcome = "err" /\ ~Known(sent[n])
             \/ outcome = "panic" /\ IsUInt(sent[n]) /\ at + 2 >= Len(input)
      BY <2>2, <2>7 DEF WithinValue
    <3>2. n \in DOMAIN sent /\ Head(todo) = sent[n].enum
      <4>1. Len(todo) # 0 /\ todo[1] = sent[n].enum
        BY <2>2, <2>4, <3>1 DEF AskedFrom
      <4>2. todo # <<>>
        BY <4>1, EmptySeq
      <4> QED  BY <1>1, <2>3, <3>1, <4>1, <4>2, HeadTailProperties
    <3> QED  BY <2>5, <3>1, <3>2 DEF Known, IsUInt
  <2>8. CASE pc = "content"
    BY <2>2, <2>5, <2>8 DEF WithinValue
  <2> QED  BY <1>3, <2>6, <2>7, <2>8
<1> QED  BY <1>2, <1>3 DEF DispatchInv

\* Whatever is read is what was sent, value by value and to the last cell, for
\* every table of enums and every sequence of values in any of their forms.
THEOREM VariantsRead == Spec => []VariantsAreSent
<1>1. DispatchInv => VariantsAreSent
  BY Stopped DEF VariantsAreSent
<1> QED  BY <1>1, DispatchInvariant, PTL

\* What is known is read, in every form; what is not read is a variant unknown,
\* a uint or this library's Any::None, and only a uint makes the reader panic.
THEOREM KnownRead == Spec => []KnownVariantsAreRead
<1>1. ASSUME NEW v PROVE Known(v) <=> v.variant # Foreign /\ ~IsUInt(v) /\ ~IsOwnNone(v)
  BY DEF Known
<1>2. DispatchInv => KnownVariantsAreRead
  BY <1>1, Stopped DEF KnownVariantsAreRead
<1> QED  BY <1>2, DispatchInvariant, PTL

\* This library's form of a known variant is one that a peer may use, exactly
\* where the two of them have the same primitive type for the enum, it is not
\* Any::None, and it is no name that only this library has.
LEMMA OwnAndPeer ==
  ASSUME NEW v, WellFormed(v), v.variant # Foreign, v.form = OwnForm(v)
  PROVE  v.form \in PeerForms(v) <=> /\ Defs[v.enum].own = Defs[v.enum].peer
                                     /\ ~IsOwnNone(v)
                                     /\ ~(v.form \in Symbols /\ Name(v) \in OwnNames)
<1> DEFINE d == Defs[v.enum]
<1>1. /\ <<d.derive, d.own, d.peer>> \in Ways
      /\ Name(v) = Variant(v).name /\ VariantAssumption(d, Variant(v)) /\ Variant(v).code \in Nat
      /\ d.derive = "serde" => Number(v) \in Nat
      /\ d.derive # "serde" => Number(v) = Variant(v).code
  <2>1. v.variant \in 1..Len(d.variants) /\ Len(d.variants) \in Nat
    BY WayFacts
  <2>2. v.variant - 1 \in Nat
    BY <2>1, SMT
  <2> QED  BY <2>1, <2>2, WayFacts DEF Variant, Name, Number
<1>7. d.own # "scalar" => ~IsOwnNone(v)
  BY DEF IsOwnNone
<1> HIDE DEF d
<1>2. CASE d.own = "described"
  <2>1. d.peer = "described" /\ d.derive \in {"amqp", "try"}
    BY <1>1, <1>2 DEF Ways
  <2>2. Number(v) = Variant(v).code /\ (Variant(v).code = 0 => Name(v) # Blank)
    BY <1>1, <2>1 DEF VariantAssumption
  <2>3. v.form = IF Variant(v).code = 0 THEN "sym8"
                 ELSE IF Variant(v).code < 256 THEN "smallulong" ELSE "ulong"
    BY <1>2 DEF OwnForm, d
  <2>4. PeerForms(v) =
          (IF Number(v) = 0 THEN {} ELSE IF Number(v) < 256 THEN {"smallulong", "ulong"} ELSE {"ulong"})
          \cup (IF Name(v) \in {Blank} \cup OwnNames THEN {} ELSE Symbols)
    BY <2>1, Zenon DEF PeerForms, d
  <2>5. v.form \in PeerForms(v) <=> ~(v.form \in Symbols /\ Name(v) \in OwnNames)
    <3>1. CASE Variant(v).code = 0
      BY <2>2, <2>3, <2>4, <3>1 DEF Symbols
    <3>2. CASE Variant(v).code # 0
      BY <2>2, <2>3, <2>4, <3>2 DEF Symbols
    <3> QED  BY <3>1, <3>2
  <2> QED  BY <1>2, <1>7, <2>1, <2>5 DEF d
<1>3. CASE d.own = "boolean"
  <2>1. d.peer = "boolean"
    BY <1>1, <1>3 DEF Ways
  <2> QED  BY <1>3, <1>7, <2>1 DEF d, OwnForm, PeerForms, Symbols
<1>4. CASE d.own = "uint"
  <2>1. d.peer = "uint"
    BY <1>1, <1>4 DEF Ways
  <2> QED  BY <1>4, <1>7, <2>1 DEF d, OwnForm, PeerForms, Symbols
<1>5. CASE d.own = "symbol"
  <2>1. d.peer \in {"symbol", "ubyte"}
    BY <1>1, <1>5 DEF Ways
  <2> QED  BY <1>5, <1>7, <2>1 DEF d, OwnForm, PeerForms, Symbols
<1>6. CASE d.own = "scalar"
  <2>1. d.peer = "scalar"
    BY <1>1, <1>6 DEF Ways
  <2>2. IsOwnNone(v) <=> Name(v) = "null"
    <3>1. Name(v) = "null" => v.form = "sym8"
      BY <1>6 DEF OwnForm, d
    <3> QED  BY <1>6, <3>1 DEF IsOwnNone, d
  <2>3. PeerForms(v) = {Name(v)}
    BY <2>1 DEF PeerForms, d
  <2>4. v.form = IF Name(v) = "null" THEN "sym8" ELSE Name(v)
    BY <1>6 DEF OwnForm, d
  <2>5. Name(v) \notin Symbols
    BY <1>1, <1>6 DEF Ways, VariantAssumption, Symbols
  <2> QED  BY <1>6, <2>1, <2>2, <2>3, <2>4, <2>5 DEF d
<1> QED  BY <1>1, <1>2, <1>3, <1>4, <1>5, <1>6 DEF Ways

\* Of the enums of this library, three are not written as AMQP asks.
LEMMA OwnTypes ==
  ASSUME NEW e \in DOMAIN Enums
  PROVE  Enums[e].own = Enums[e].peer <=> e \notin {"SenderSettleMode", "ReceiverSettleMode", "Code"}
BY DEF Enums, Enum, DescribedEnum, Performative, Body, DeliveryState, Outcome, SaslFrame,
       TypeNotation, Try, Role, TerminusDurability, DistributionMode, ExpiryPolicy,
       SenderSettleMode, ReceiverSettleMode, Code, Mechanism, AnyScalar

\* With the enums of this library, whatever is sent: a peer finds a value of
\* this library in a form that AMQP 1.0 has for it, but for those three,
\* Any::None, and the names that only this library has.
THEOREM OwnValuesAreLegal ==
  ASSUME Defs = Enums
  PROVE  Spec => []PeersCanRead
<1>1. ASSUME DispatchInv PROVE PeersCanRead
  <2> SUFFICES ASSUME NEW i \in DOMAIN sent, sent[i].variant # Foreign,
                      sent[i].form = OwnForm(sent[i])
               PROVE  sent[i].form \in PeerForms(sent[i])
                        <=> /\ sent[i].enum \notin {"SenderSettleMode", "ReceiverSettleMode", "Code"}
                            /\ ~IsOwnNone(sent[i])
                            /\ ~(sent[i].form \in Symbols /\ Name(sent[i]) \in OwnNames)
    BY DEF PeersCanRead
  <2>1. i \in 1..Len(sent)
    <3>1. sent \in Seq(Vals)
      BY <1>1 DEF DispatchInv
    <3> QED  BY <3>1, LenProperties
  <2>2. PICK t, w : Ordered(t, sent, w, FALSE)
    BY <1>1 DEF DispatchInv
  <2>3. WellFormed(sent[i])
    BY <2>1, <2>2 DEF Ordered
  <2>4. sent[i].enum \in DOMAIN Enums
    BY <2>3 DEF WellFormed
  <2> QED  BY <2>3, <2>4, OwnAndPeer, OwnTypes
<1> QED  BY <1>1, DispatchInvariant, PTL
=============================================================================
