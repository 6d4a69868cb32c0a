----------------------------- MODULE MCComposite -----------------------------
(* Structs of up to three parts, nested composites among them, read as the  *)
(* same type, an older one and a newer one; what a peer writes as two.      *)
EXTENDS CompositeReading, FiniteSetsExt

Num(n) == Node("int", n, <<>>)
Fix(n) == Node("fixed", n, <<>>)
Str(n) == Node("str", n, <<>>)
None == Node("none", 0, <<>>)
Struct(parts) == Node("struct", 0, parts)
List(parts) == Node("list", 0, parts)
Map(parts) == Node("map", 0, parts)
Array8(parts) == Node("array8", 0, parts)
Array32(parts) == Node("array32", 0, parts)

TInt == Key
TFix == Node("fixed", 0, <<>>)
TStr == Node("str", 0, <<>>)
Option(t) == Node("option", 0, <<t>>)
ListOf(t) == Node("list", 0, <<t>>)
MapOf(t) == Node("map", 0, <<t>>)
Pair == Node("tuple", 0, <<>>)

\* Scalars are numbered by place, so that one read in the wrong place shows.
Scalar(n) == {Num(n), None}
Inner(n) ==
  Scalar(n) \cup {Fix(n)}
  \cup {Struct(<<>>), Struct(<<Num(n)>>), Struct(<<None>>), Struct(<<Num(n), Num(n + 1)>>)}
  \cup {List(<<>>), List(<<Num(n), Num(n + 1)>>)}
  \cup {List(<<Struct(<<Num(n)>>), Struct(<<Num(n + 1), Num(n + 2)>>)>>)}
  \cup {Map(<<>>), Map(<<Num(n), Num(n + 1)>>),
        Map(<<Num(n), Num(n + 1), Num(n + 2), None>>)}
  \cup {Array32(<<>>), Array32(<<Str(n), Str(n + 1)>>)}

MCValues ==
  {Num(1), None, Array32(<<>>), Array32(<<Str(1)>>)}
  \cup {Struct(<<>>)} \cup {Struct(<<a>>) : a \in Inner(1)}
  \cup {Struct(<<a, b>>) : a \in Inner(1), b \in Inner(11)}
  \cup {Struct(<<a, b, c>>) : a \in Inner(1), b \in Inner(11), c \in Scalar(21)}

InnerType ==
  {TInt, Option(TInt), Option(TFix), Struct(<<TInt>>), Option(Struct(<<TInt, Option(TInt)>>)),
   ListOf(TInt), Option(ListOf(Struct(<<TInt>>)))}
MapType == {MapOf(Option(TInt))}

MCTypes ==
  {TInt, TFix, ListOf(TInt)}
  \cup {Struct(<<s>>) : s \in InnerType}
  \cup {Struct(<<s, t>>) : s \in InnerType \cup MapType, t \in InnerType}
  \cup {Struct(<<s, t, Option(TInt)>>) : s \in InnerType, t \in InnerType \cup MapType}

OwnCases == {<<v, "own", MCTypes>> : v \in MCValues}

MCArrays == {<<Array32(parts), "own", {ListOf(TStr)}>> : parts \in {<<>>, <<Str(1)>>, <<Str(1), Str(2)>>}}

\* What a peer may send: every format, and arrays of strings and of numbers.
PeerInner(n) ==
  {Num(n), Fix(n), Str(n), None, Struct(<<>>), Struct(<<Num(n), Str(n + 1)>>)}
  \cup {List(<<>>), List(<<Str(n)>>), List(<<Struct(<<Num(n), None>>), Struct(<<>>)>>)}
  \cup {Map(<<>>), Map(<<Num(n), Str(n + 1)>>)}
  \cup {Array8(<<>>), Array8(<<Str(n)>>), Array8(<<Str(n), Str(n + 1)>>)}
  \cup {Array8(<<Num(n), Num(n + 1)>>), Array8(<<Fix(n)>>), Array32(<<>>), Array32(<<Str(n)>>)}

MCPeerValues ==
  PeerInner(1) \cup {Struct(<<a>>) : a \in PeerInner(1)}
  \cup {Struct(<<a, b>>) : a \in PeerInner(1), b \in PeerInner(11)}

PeerInnerType ==
  {TInt, TFix, TStr, Option(TStr), ListOf(TStr), Option(ListOf(TStr)), Option(ListOf(Pair)),
   ListOf(TInt), Struct(<<Option(TInt), Option(TStr)>>), Struct(<<TStr>>),
   ListOf(Struct(<<Option(TInt)>>))}

MCPeerTypes ==
  {t \in PeerInnerType : t.kind # "option"}
  \cup {Struct(<<s>>) : s \in PeerInnerType}
  \cup {Struct(<<s, t>>) : s \in PeerInnerType \cup {MapOf(Option(TStr))}, t \in PeerInnerType}

PeerCases == {<<v, "peer", MCPeerTypes>> : v \in MCPeerValues}

MCCases == OwnCases \cup PeerCases

\* The trees with all their parts: a type is five levels deep at most.
OfOne(trees) == UNION {ToSet(t.items) : t \in trees}
Whole(trees) ==
  LET second == OfOne(trees)
      third == OfOne(second)
      fourth == OfOne(third) IN
  UNION {trees, second, third, fourth, OfOne(fourth)}

MCValueTrees == Whole({c[1] : c \in MCCases})
MCTypeTrees == Whole(MCTypes \cup MCPeerTypes)
MCHeight[t \in MCTypeTrees] == Max({IF t = Key THEN 0 ELSE 1} \cup {MCHeight[part] + 1 : part \in ToSet(t.items)})
MCCuts == {0, 1, 3}
=============================================================================
