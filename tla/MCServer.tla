------------------------------ MODULE MCServer ------------------------------
(* Calls and threads for TLC: which RPCs the calls of a run are of.          *)
EXTENDS Server, TLC

CONSTANTS c1, c2, s1, p1, p2, w1, w2

\* The RPC whose handler does most by itself, another one, and a stream.
MixedRpcs == c1 :> "DeleteVector" @@ c2 :> "Upsert" @@ s1 :> "StreamUpsert"

\* Two calls of one RPC: one that changes nothing, and one that logs last.
Searches == c1 :> "Search" @@ c2 :> "Search"
AddIndexes == c1 :> "AddIndex" @@ c2 :> "AddIndex"

Symmetry == Permutations(Pollers) \cup Permutations(Workers)
==============================================================================
