------------------------------- MODULE Indices -------------------------------
(***************************************************************************)
(* What the two kinds of index of a collection remember between calls, and *)
(* how each call changes it.  An index stores ids, never vectors: a value  *)
(* here stands for the vector the index read when it placed the id.        *)
(***************************************************************************)
EXTENDS Integers

CONSTANTS Ids, Vals, Nil

ASSUME NilAssumption == Nil \notin Vals

\* A partial map from ids to vectors.
Stored == [Ids -> Vals \cup {Nil}]
Empty == [id \in Ids |-> Nil]
Present(m) == {id \in Ids : m[id] # Nil}

-----------------------------------------------------------------------------
(* hnsw: the graph lags behind the collection; the two pending sets say by *)
(* how much, and the next search drains them.  inserted[id] is the vector  *)
(* the node was linked under.  stray are the ids without a node that the   *)
(* graph may still lead to: the entry point when no node of the top layer  *)
(* is left to replace it, and what a link points to that was cut on one    *)
(* side only.                                                              *)

HnswIndex == [kind : {"hnsw"}, inserted : Stored, stray : SUBSET Ids,
              to_be_inserted : SUBSET Ids, to_be_removed : SUBSET Ids]

HnswOf(read) == [kind |-> "hnsw", inserted |-> read, stray |-> {},
                 to_be_inserted |-> {}, to_be_removed |-> {}]

HnswAdded(i, ids) ==
  [i EXCEPT !.to_be_removed = @ \cup (ids \cap Present(i.inserted)),
            !.to_be_inserted = @ \cup ids]

\* Mutant: a removal only calls off a pending insertion.
HnswRemoved_PendingOnly(i, ids) == [i EXCEPT !.to_be_inserted = @ \ ids]

HnswRemoved(i, ids) ==
  [i EXCEPT !.to_be_removed = @ \cup (ids \ i.to_be_inserted),
            !.to_be_inserted = @ \ ids]

\* Mutant: only insertions make a search rebuild.
HnswPending_InsertionsOnly(i) == i.to_be_inserted # {}

HnswPending(i) == i.to_be_inserted # {} \/ i.to_be_removed # {}

\* First half of build(): the ids to be removed leave the graph.  Any of them
\* may leave a trace there.
HnswPruned(i) ==
  [i EXCEPT !.inserted = [id \in Ids |-> IF id \in i.to_be_removed THEN Nil ELSE @[id]],
            !.stray = @ \cup (i.to_be_removed \cap Present(i.inserted)),
            !.to_be_removed = {}]

\* insert(): an id whose vector is gone (Nil) is skipped, but by then a graph
\* without an entry point has made it the entry point.
HnswInserted(i, id, vec) ==
  IF vec # Nil THEN [i EXCEPT !.inserted[id] = vec, !.stray = @ \ {id}]
  ELSE [i EXCEPT !.stray = @ \cup {id}]

\* What a walk through the graph may come upon.
HnswReach(i) == IF i.inserted = Empty THEN {} ELSE Present(i.inserted) \cup i.stray

HnswSettled(i) == [i EXCEPT !.to_be_removed = {}, !.to_be_inserted = {}]

-----------------------------------------------------------------------------
(* ivf_flat: built says clusters_ is not empty; filed[id][v] counts the    *)
(* entries of id in the cluster of v (clusters are told apart by the       *)
(* vectors they were chosen for); since is vectors_since_rebuild_; k is    *)
(* k_, the number of clusters the index was asked for.                     *)

Filing == [Ids -> [Vals -> Nat]]

IvfIndex == [kind : {"ivf_flat"}, k : Nat, built : BOOLEAN, filed : Filing, since : Nat]

FiledOf(read) == [id \in Ids |-> [v \in Vals |-> IF read[id] = v THEN 1 ELSE 0]]

\* The vectors that k_means puts into clusters: none if it is to make none.
Clustered(k, read) == IF k = 0 THEN Empty ELSE read

IvfOf(k, read) ==
  [kind |-> "ivf_flat", k |-> k, built |-> Clustered(k, read) # Empty,
   filed |-> FiledOf(Clustered(k, read)), since |-> 0]

\* Mutant: the clusters are emptied, their centroids stay.
IvfCleared_KeepsCentroids(i) == [i EXCEPT !.filed = FiledOf(Empty), !.since = 0]

\* build() starts by forgetting every cluster.
IvfCleared(i) == [i EXCEPT !.built = FALSE, !.filed = FiledOf(Empty), !.since = 0]

IvfRebuilt(i, read) ==
  [i EXCEPT !.built = Clustered(i.k, read) # Empty, !.filed = FiledOf(Clustered(i.k, read))]

IvfFiled(i, id, vec) == [i EXCEPT !.filed[id][vec] = @ + 1]

\* remove_vectors_incremental erases one entry of each id, the first it finds;
\* pick says in which cluster that is.
IvfPicks(i, ids) ==
  {pick \in [ids -> Vals] :
     \A id \in ids : (\E v \in Vals : i.filed[id][v] > 0) => i.filed[id][pick[id]] > 0}

\* Mutant: what std::find returned is erased unchecked.
IvfUnfiled_Unchecked(i, pick) ==
  [i EXCEPT !.filed =
     [id \in Ids |-> [v \in Vals |->
        IF id \in DOMAIN pick /\ pick[id] = v
        THEN i.filed[id][v] - 1 ELSE i.filed[id][v]]]]

IvfUnfiled(i, pick) ==
  [i EXCEPT !.filed =
     [id \in Ids |-> [v \in Vals |->
        IF id \in DOMAIN pick /\ pick[id] = v /\ i.filed[id][v] > 0
        THEN i.filed[id][v] - 1 ELSE i.filed[id][v]]]]

IvfHolds(i) == {id \in Ids : \E v \in Vals : i.filed[id][v] > 0}

-----------------------------------------------------------------------------
Kinds == {"hnsw", "ivf_flat"}
Index == HnswIndex \cup IvfIndex

\* What an index is asked for by, as far as it matters here.
Params == [kind : Kinds, k : Nat]

\* init() of a new index over the vectors it could read.
Fresh(params, read) ==
  IF params.kind = "hnsw" THEN HnswOf(read) ELSE IvfOf(params.k, read)
==============================================================================
