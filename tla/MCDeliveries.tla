---------------------------- MODULE MCDeliveries ----------------------------
(***************************************************************************)
(* Small instances of Deliveries.                                           *)
(***************************************************************************)
EXTENDS Deliveries, TLC

CONSTANTS h1, h2, e1, e2, c1, c2, a1, a2, a3, t1, t2, f1, n1, n2, j1, j2,
          u1, d1, d2, d3, q1

\* Both envelopes update one card.
OneScope(e) == "card"

\* The second node waits for the first.
Chain == [n \in Node |-> IF n = n2 THEN {n1} ELSE {}]

\* One line, and two of which the second has the same text.
Facts == {<<"x">>, <<"y", "x">>}

Interchangeable == Permutations(Host) \cup Permutations(Approval)
=============================================================================
