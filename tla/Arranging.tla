------------------------------ MODULE Arranging ------------------------------
(***************************************************************************)
(* What the code gets from Vec::retain, dedup and the stable sort_by_key:  *)
(* the elements of a list at chosen indices, arranged in an order.  An     *)
(* order is given by the function from each chosen index to the set of     *)
(* those that come earlier; a stable sort orders by key, and by index      *)
(* among equal keys.                                                       *)
(***************************************************************************)
EXTENDS Integers, FiniteSets

PlaceOf(i, earlier) == Cardinality(earlier[i]) + 1
IndexAt(n, earlier) == CHOOSE i \in DOMAIN earlier : PlaceOf(i, earlier) = n
Arranged(s, earlier) ==
  [n \in 1 .. Cardinality(DOMAIN earlier) |-> s[IndexAt(n, earlier)]]

(* The elements of s at I, in the order they have in s. *)
ByIndex(I) == [i \in I |-> {j \in I : j < i}]
Selected(s, I) == Arranged(s, ByIndex(I))
=============================================================================
