----------------------------- MODULE Enumerations -----------------------------
(***************************************************************************)
(* Sorted and filtered arrays, as JavaScript's sort and filter make them.  An  *)
(* element's place is the number of elements before it, so that no recursion   *)
(* is needed and the order can be reasoned about.                              *)
(***************************************************************************)
EXTENDS Integers, FiniteSets
Sets == INSTANCE FiniteSetsExt

\* The elements of S in a strict order, which is given as a relation on S.
InOrder(S, Before) ==
  [k \in 1 .. Cardinality(S) |->
     CHOOSE x \in S : Cardinality({y \in S : <<y, x>> \in Before}) = k - 1]

Ascending(S) == InOrder(S, {p \in S \X S : p[1] < p[2]})

\* The items of a sequence that have their places in S.
Picked(s, S) == LET places == Ascending(S) IN [k \in DOMAIN places |-> s[places[k]]]
=============================================================================
