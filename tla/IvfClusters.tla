----------------------------- MODULE IvfClusters -----------------------------
(***************************************************************************)
(* The clusters of an ivf_flat index: k-means over what the collection     *)
(* holds, filing into the cluster with the nearest centroid, and a search  *)
(* that looks into the nearest clusters only.  A centroid is a mean, kept  *)
(* as the sum and the number of the vectors it is the mean of.             *)
(***************************************************************************)
EXTENDS Distances, Sequences, Functions

CONSTANTS K,             \* k_, the number of clusters asked for
          Threshold,     \* rebuild_threshold_
          MaxIterations  \* of k-means

ASSUME ClustersAssumption ==
  K \in Nat /\ Threshold \in Nat /\ MaxIterations \in Nat \ {0}

\* entries[id]: how often the cluster lists id.
Centroid == Int \X (Nat \ {0})
Cluster == [centroid : Centroid, entries : [Ids -> Nat]]
Clusters == [clusters : Seq(Cluster), since : Nat]

NoClusters == [clusters |-> <<>>, since |-> 0]

\* Distances to two centroids compared, without a division.
Gap(x, c) == Distance(x * c[2], c[1])
Closer(x, c1, c2) == Gap(x, c1) * c2[2] < Gap(x, c2) * c1[2]
SameMean(c1, c2) == c1[1] * c2[2] = c2[1] * c1[2]

\* Mutant: d <= min_dist, the last of the nearest.
NearestOf_Last(cs, x) ==
  CHOOSE j \in DOMAIN cs : \A i \in DOMAIN cs :
    ~Closer(x, cs[i], cs[j]) /\ (i > j => Closer(x, cs[j], cs[i]))

\* The first of the nearest centroids: the one the loops with d < min_dist keep,
\* and the first a search takes off its queue.
NearestOf(cs, x) ==
  CHOOSE j \in DOMAIN cs : \A i \in DOMAIN cs :
    ~Closer(x, cs[i], cs[j]) /\ (i < j => Closer(x, cs[j], cs[i]))

-----------------------------------------------------------------------------
(* k_means over the vectors of ids, from the seeds: the first K vectors in  *)
(* the order of an unordered map, any one vector of each id.                *)

Seeds(ids) ==
  LET n == IF K < Cardinality(ids) THEN K ELSE Cardinality(ids) IN
  {s \in [1 .. n -> ids] : IsInjective(s)}

Members(chosen, j) == {id \in DOMAIN chosen : chosen[id] = j}

\* Mutant: a round adds to the sum of the round before.
Recentred_SumsOn(c, members, vectors) ==
  IF members = {} THEN c ELSE <<c[1] + SumFunctionOnSet(vectors, members), Cardinality(members)>>

\* The mean of its members; a centroid without members stays.
Recentred(c, members, vectors) ==
  LET mean == <<SumFunctionOnSet(vectors, members), Cardinality(members)>> IN
  IF members = {} \/ SameMean(mean, c) THEN c ELSE mean

Round(cs, ids, vectors) ==
  LET chosen == [id \in ids |-> NearestOf(cs, vectors[id])]
      next == [j \in DOMAIN cs |-> Recentred(cs[j], Members(chosen, j), vectors)]
  IN  [chosen |-> chosen, centroids |-> next, changed |-> next # cs]

\* The rounds of k-means; from the first that changes nothing they stay the same.
RoundsOf(ids, vectors, seed) ==
  LET R[n \in 1 .. MaxIterations] ==
        IF n = 1 THEN Round([j \in DOMAIN seed |-> <<vectors[seed[j]], 1>>], ids, vectors)
        ELSE LET last == R[n - 1] IN
             IF last.changed THEN Round(last.centroids, ids, vectors) ELSE last
  IN  R

\* The round it ends with: the first that changes nothing, or the last it may take.
LastRound(ids, vectors, seed) == RoundsOf(ids, vectors, seed)[MaxIterations]

\* Without vectors, or if no cluster is asked for, it takes no round.
KMeans(ids, vectors, seed) ==
  LET end == LastRound(ids, vectors, seed) IN
  IF ids = {} \/ K = 0 THEN <<>>
  ELSE [j \in DOMAIN seed |->
         [centroid |-> end.centroids[j],
          entries |-> [id \in Ids |-> IF id \in Members(end.chosen, j) THEN 1 ELSE 0]]]

-----------------------------------------------------------------------------
(* The index *)

Centroids(i) == [j \in DOMAIN i.clusters |-> i.clusters[j].centroid]

\* build(), for each order in which the ids may come.
Builds(vectors) ==
  {[clusters |-> KMeans(Present(vectors), vectors, s), since |-> 0] : s \in Seeds(Present(vectors))}

\* The clusters keep their centroids; e[j] is what the j-th lists.
WithEntries(i, e) ==
  [i EXCEPT !.clusters = [j \in DOMAIN @ |-> [@[j] EXCEPT !.entries = e[j]]]]

\* add_vectors_incremental
FiledIn(i, ids, vectors) ==
  LET goes(id, j) == id \in ids /\ vectors[id] # Nil /\ NearestOf(Centroids(i), vectors[id]) = j IN
  WithEntries(i, [j \in DOMAIN i.clusters |->
    [id \in Ids |-> i.clusters[j].entries[id] + IF goes(id, j) THEN 1 ELSE 0]])

Holders(i, id) == {j \in DOMAIN i.clusters : i.clusters[j].entries[id] > 0}

\* Mutant: what std::find returned is erased unchecked.
Unfiled_Unchecked(i, ids) ==
  WithEntries(i, [j \in DOMAIN i.clusters |->
    [id \in Ids |-> i.clusters[j].entries[id] - IF id \in ids /\ j = 1 THEN 1 ELSE 0]])

\* remove_vectors_incremental: one entry goes, from the first cluster with one.
Unfiled(i, ids) ==
  LET first(id, j) == j \in Holders(i, id) /\ \A h \in Holders(i, id) : j <= h IN
  WithEntries(i, [j \in DOMAIN i.clusters |->
    [id \in Ids |-> i.clusters[j].entries[id] - IF id \in ids /\ first(id, j) THEN 1 ELSE 0]])

\* Mutant: the new ids are filed after a rebuild, too.
ClustersAdded_FilesTwice(i, ids, vectors) ==
  LET since == i.since + Cardinality(ids) IN
  IF i.clusters = <<>> \/ since >= Threshold THEN {FiledIn(b, ids, vectors) : b \in Builds(vectors)}
  ELSE {FiledIn([i EXCEPT !.since = since], ids, vectors)}

\* on_vectors_added
ClustersAdded(i, ids, vectors) ==
  LET since == i.since + Cardinality(ids) IN
  IF i.clusters = <<>> \/ since >= Threshold THEN Builds(vectors)
  ELSE {FiledIn([i EXCEPT !.since = since], ids, vectors)}

\* on_vectors_removed: at the threshold build() forgets the clusters, and then
\* fails to lock vec_mutex_, which its own thread holds.
ClustersRemoved(i, ids) ==
  LET since == i.since + Cardinality(ids) IN
  IF i.clusters = <<>> THEN i
  ELSE IF since >= Threshold THEN NoClusters
  ELSE Unfiled([i EXCEPT !.since = since], ids)

-----------------------------------------------------------------------------
(* search_for_top_k *)

\* The n clusters nearest to q.
Probed(i, q, n) ==
  LET cs == Centroids(i)
      first(a, b) == Closer(q, cs[a], cs[b]) \/ (~Closer(q, cs[b], cs[a]) /\ a < b)
  IN  {j \in DOMAIN cs : Cardinality({h \in DOMAIN cs : first(h, j)}) < n}

\* How often each id that has a vector is met in them.
Met(i, vectors, q, n) ==
  [id \in Present(vectors) |->
     SumFunctionOnSet([j \in DOMAIN i.clusters |-> i.clusters[j].entries[id]], Probed(i, q, n))]

\* The entries <<id, copy>> it may answer with: of all it met, k nearest ones.
Answered(i, vectors, q, k, n) ==
  LET met == Met(i, vectors, q, n)
      d == From(q, vectors)
      found == UNION {{id} \X (1 .. met[id]) : id \in DOMAIN met}
  IN  {best \in SUBSET found :
         /\ Cardinality(best) = IF k < Cardinality(found) THEN k ELSE Cardinality(found)
         /\ \A e \in best, f \in found \ best : d[e[1]] <= d[f[1]]}
==============================================================================
