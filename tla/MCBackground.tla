---------------------------- MODULE MCBackground ----------------------------
(***************************************************************************)
(* Small instances of Background.                                           *)
(***************************************************************************)
EXTENDS Background, TLC

CONSTANTS h1, h2, r1, r2, l1, l2, s1, s2, i1

\* A file with an envelope that waits before one that is over.
OldFile == [records |-> <<[id |-> 1, over |-> FALSE], [id |-> 2, over |-> TRUE]>>,
            next |-> 3]

Interchangeable == Permutations(Host) \cup Permutations(Post)
=============================================================================
