----------------------------- MODULE MCDatabase -----------------------------
(* Two collections, one vector and two workers for TLC. *)
EXTENDS Database, TLC

CONSTANTS n1, n2, i1, w1, w2

\* No set of ids, but a value that TLC can compare with one.
TornFile == {"torn"}

Symmetry == Permutations(Names) \cup Permutations(Workers)
==============================================================================
