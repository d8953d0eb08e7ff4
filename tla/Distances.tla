------------------------------ MODULE Distances ------------------------------
(***************************************************************************)
(* What "nearest" means.  A vector is a point of a line, its distance the  *)
(* euclidean one; an id is a natural number, as candidates at the same     *)
(* distance are ordered by id.                                             *)
(***************************************************************************)
EXTENDS Indices, FiniteSets

CONSTANT Far \* numeric_limits<double>::max(): the distance of an id without a vector

ASSUME LineAssumption == Ids \subseteq Nat /\ IsFiniteSet(Ids) /\ Vals \subseteq Int
ASSUME FarAssumption == Far \in Nat /\ \A a, b \in Vals : a - b < Far

Distance(a, b) == IF a > b THEN a - b ELSE b - a

\* How far each id is from the query q.
From(q, vectors) ==
  [id \in Ids |-> IF vectors[id] = Nil THEN Far ELSE Distance(q, vectors[id])]

\* The order of pair<double, id_t>.
Before(d, a, b) == d[a] < d[b] \/ (d[a] = d[b] /\ a < b)

\* The n first of S.
Nearest(S, n, d) == {s \in S : Cardinality({r \in S : Before(d, r, s)}) < n}

\* What the brute-force search answers: the k vectors nearest to q.
Exact(vectors, q, k) == Nearest(Present(vectors), k, From(q, vectors))
==============================================================================
