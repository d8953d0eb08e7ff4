--------------------------- MODULE MCNearestSearch ---------------------------
(***************************************************************************)
(* Instances for TLC: which ids a call may name together, and which        *)
(* vectors they may be given.                                              *)
(***************************************************************************)
EXTENDS NearestSearch

Singles == {{id} : id \in Ids}

\* Each id has a place of its own, 1 a second one, next to 3's.
OwnPlaces == [id \in Ids |-> IF id = 1 THEN {1, 3} ELSE {id}]

\* One at a time, or all of them, with or without the id 0.
SomeBatches == Singles \cup {Ids, Ids \ {0}}

\* The graph of an hnsw index takes many more forms than clusters do.
SomeUpdates == [kind \in Kinds |-> IF kind = "hnsw" THEN 3 ELSE 5]

\* All vectors in one add, and only one.
OneBatch == {Ids}
OneUpdate == [kind \in Kinds |-> 1]
==============================================================================
