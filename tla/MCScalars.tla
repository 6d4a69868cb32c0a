----------------------------- MODULE MCScalars -----------------------------
(* All the values of all the types, for a byte of four values and words of  *)
(* one to four bytes.                                                       *)
EXTENDS Scalars

MCSize == [t \in Types |->
  CASE t \in {"u8", "i8", "bool"} -> Base
    [] t \in {"u16", "i16"} -> Base^2
    [] t \in {"u64", "i64", "f64"} -> Base^4
    [] OTHER -> Base^3]
=============================================================================
