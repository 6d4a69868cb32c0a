----------------------------- MODULE MCDispatch -----------------------------
(* Every variant of every enum in every form, and a variant that is not      *)
(* known; alone, and followed by one of each kind of enum.                   *)
EXTENDS EnumTypes, Dispatch

Value(e, i, form, inside) == [enum |-> e, variant |-> i, form |-> form, inside |-> inside]
Variants(e) == {Foreign} \cup DOMAIN Defs[e].variants

Forms(e, i) ==
  LET v == Value(e, i, "", <<>>) IN
  IF i = Foreign THEN IF e = "Any" THEN {"vbin8", "str32", "ubyte", "sym8"} ELSE PeerForms(v)
  ELSE PeerForms(v) \cup {OwnForm(v)}

Plain(e) == UNION {{Value(e, i, f, <<>>) : f \in Forms(e, i)} : i \in Variants(e)}
InsideOf(v) ==
  IF v.variant # Foreign /\ Defs[v.enum].variants[v.variant].inner = "Any"
  THEN {[v EXCEPT !.inside = <<w>>] : w \in Plain("Any")}
  ELSE {v}
Singles == UNION {UNION {InsideOf(v) : v \in Plain(e)} : e \in DOMAIN Defs}

\* Of each enum the last variant, as this library writes it.
LastOf(e) ==
  LET n == Len(Defs[e].variants)
      v == Value(e, n, "", <<>>) IN
  InsideOf([v EXCEPT !.form = OwnForm(v)])
Lasts == UNION {LastOf(e) : e \in DOMAIN Defs}

MCCases == {<<v>> : v \in Singles} \cup {<<v, w>> : v \in Singles, w \in Lasts}

\* An enum as the macro's documentation allows it: all variants of one type.
UnitEnums == [Pair |-> DescribedEnum(<<Unit("first"), Unit("second")>>)]
UnitCases == {<<Value("Pair", 1, "sym8", <<>>)>>}
=============================================================================
