---------------------------- MODULE NearestSearch ----------------------------
(***************************************************************************)
(* What the searches of a collection find.  The collection has one index,  *)
(* of either kind; calls take effect one after the other, except that the  *)
(* hook of an add comes after the vectors are written, with other calls in *)
(* between (Collection has the interleavings of the locks).  The drain of  *)
(* an hnsw index is cut at each insert, in the order of an unordered set.  *)
(***************************************************************************)
EXTENDS HnswGraph, IvfClusters

CONSTANTS Batches,   \* the sets of ids a call may name
          Places,    \* the vectors an id may be given
          MaxUpdates \* bound on the adds and removals of a behaviour, by kind of index

ASSUME CallsAssumption ==
  /\ Batches \subseteq (SUBSET Ids) \ {{}}
  /\ Places \in [Ids -> (SUBSET Vals) \ {{}}]
  /\ MaxUpdates \in [Kinds -> Nat]

VARIABLES
  vectors,   \* vectors_ of the collection
  unnoted,   \* the ids an add has written and not yet told the index
  installed, \* the kind of the index
  graph,     \* the hnsw index
  ivf,       \* the ivf_flat index
  pc,        \* "build" while a search drains the hnsw index
  shadow,    \* the hnsw index as Indices has it (history)
  astray,    \* whether the graph has ever been unsound (history)
  cut,       \* whether a node of layer 0 has ever had too many links (history)
  updates,   \* how many adds and removals there have been (history)
  refiled    \* ids filed again since the last build of the clusters (history)

collection == <<vectors, unnoted, installed>>
history == <<shadow, astray, cut, updates, refiled>>
vars == <<collection, graph, ivf, pc, history>>

Live == Present(vectors)
Hnsw == installed = "hnsw"

\* entry_point_: "global entry point (node with max level)".
EntryIsTop(g) ==
  IF g.inserted = {} THEN g.entry_point = 0 /\ g.max_layer = -1
  ELSE /\ g.entry_point \in g.inserted \ {0}
       /\ g.node_levels[g.entry_point] = g.max_layer

\* Every link joins two different nodes.
LinksJoinNodes(g) ==
  \A lc \in Layers, id \in Ids :
    g.neighbours[lc][id] \subseteq IF id \in g.inserted THEN g.inserted \ {id} ELSE {}

Sound(g) == EntryIsTop(g) /\ LinksJoinNodes(g)

\* The insert of id gives a link in layer 0 to a node that has no room for it.
Crowds(old, new, id) ==
  \E n \in Ids : n \in new.neighbours[0][id] /\ Cardinality(old.neighbours[0][n]) >= Cap(0)

Init ==
  /\ vectors = Empty /\ unnoted = {}
  /\ installed \in Kinds
  /\ graph = NoGraph /\ ivf = NoClusters
  /\ pc = "ready"
  /\ shadow = HnswOf(Empty) /\ astray = FALSE /\ cut = FALSE /\ updates = 0 /\ refiled = {}

\* add_vectors writes under vec_mutex_ ...
Write(ids, place) ==
  /\ pc = "ready" /\ unnoted = {} /\ updates < MaxUpdates[installed]
  /\ updates' = updates + 1
  /\ vectors' = [id \in Ids |-> IF id \in ids THEN place[id] ELSE vectors[id]]
  /\ unnoted' = ids
  /\ UNCHANGED <<installed, graph, ivf, pc, shadow, astray, cut, refiled>>

\* ... and tells the index after it has let go of it.
Notify ==
  /\ pc = "ready" /\ unnoted # {}
  /\ unnoted' = {}
  /\ \/ /\ Hnsw
        /\ graph' = GraphAdded(graph, unnoted)
        /\ shadow' = HnswAdded(shadow, unnoted)
        /\ UNCHANGED <<ivf, refiled>>
     \/ /\ ~Hnsw
        /\ ivf' \in ClustersAdded(ivf, unnoted, vectors)
        /\ refiled' = IF ivf'.since = 0 THEN {}
                      ELSE refiled \cup {id \in unnoted : Holders(ivf, id) # {}}
        /\ UNCHANGED <<graph, shadow>>
  /\ UNCHANGED <<vectors, installed, pc, astray, cut, updates>>

Remove(ids) ==
  /\ pc = "ready" /\ ids \subseteq Live /\ updates < MaxUpdates[installed]
  /\ updates' = updates + 1
  /\ vectors' = [id \in Ids |-> IF id \in ids THEN Nil ELSE vectors[id]]
  /\ \/ /\ Hnsw
        /\ graph' = GraphRemoved(graph, ids)
        /\ shadow' = HnswRemoved(shadow, ids)
        /\ UNCHANGED ivf
     \/ /\ ~Hnsw
        /\ ivf' = ClustersRemoved(ivf, ids)
        /\ UNCHANGED <<graph, shadow>>
  /\ UNCHANGED <<unnoted, installed, pc, astray, cut, refiled>>

\* A search finds changes pending: build() takes out what is to be removed ...
Drain ==
  /\ pc = "ready" /\ Hnsw /\ graph.to_be_inserted \cup graph.to_be_removed # {}
  /\ graph' \in Prunes(graph)
  /\ shadow' = HnswPruned(shadow)
  /\ astray' = (astray \/ ~Sound(graph'))
  /\ pc' = "build"
  /\ UNCHANGED <<collection, ivf, cut, updates, refiled>>

\* ... and inserts what is to be inserted, each id at a random level.
Insert(id, level) ==
  /\ pc = "build" /\ id \in graph.to_be_inserted /\ ~graph.undefined
  /\ graph' \in Inserts(graph, id, level, vectors)
  /\ shadow' = HnswInserted(shadow, id, vectors[id])
  /\ astray' = (astray \/ ~Sound(graph'))
  /\ cut' = (cut \/ Crowds(graph, graph', id))
  /\ UNCHANGED <<collection, ivf, pc, updates, refiled>>

Drained ==
  /\ pc = "build" /\ graph.to_be_inserted = {} /\ ~graph.undefined
  /\ pc' = "ready"
  /\ shadow' = HnswSettled(shadow)
  /\ UNCHANGED <<collection, graph, ivf, astray, cut, updates, refiled>>

Next ==
  \/ \E ids \in Batches : \E place \in [ids -> Vals] :
       (\A id \in ids : place[id] \in Places[id]) /\ Write(ids, place)
  \/ Notify
  \/ \E ids \in Batches : Remove(ids)
  \/ Drain
  \/ \E id \in Ids, level \in Layers : Insert(id, level)
  \/ Drained

Spec == Init /\ [][Next]_vars

-----------------------------------------------------------------------------
(* Properties *)

\* Every variable keeps its type; in particular no cluster lists an id less than
\* never, and the levels stay within the layers there are.
TypeOK ==
  /\ vectors \in Stored
  /\ unnoted \in SUBSET Ids
  /\ installed \in Kinds
  /\ graph \in Graph
  /\ ivf \in Clusters
  /\ pc \in {"ready", "build"}
  /\ shadow \in HnswIndex
  /\ astray \in BOOLEAN
  /\ cut \in BOOLEAN
  /\ updates \in 0 .. MaxUpdates[installed]
  /\ refiled \in SUBSET Ids

Settled == pc = "ready" /\ unnoted = {} /\ graph.to_be_inserted \cup graph.to_be_removed = {}

\* "Search top-k neighbors for a query": whatever the query, and whichever way
\* the descent goes, the search answers what the brute-force search would.
FindsNearest ==
  Hnsw /\ Settled =>
    \A q \in Vals, k \in 1 .. Cardinality(Ids) :
      Answers(graph, vectors, q, k) = {Exact(vectors, q, k)}

\* It does as long as the graph has never been unsound and no node has had to
\* drop a link of layer 0 for want of room: the inserts, in any order and at any
\* levels, and the removals keep all nodes joined there, and what the shrinking
\* drops in the upper layers costs no answer.
HnswExact == ~astray /\ ~cut => FindsNearest

\* "max neighbors per node": of a graph that has not gone astray, no node has
\* more than M_ neighbours in a layer, or M0_ in layer 0, although each insert
\* adds links to nodes that are full.
HnswDegree ==
  ~astray => \A lc \in Layers, id \in Ids : Cardinality(graph.neighbours[lc][id]) <= Cap(lc)

\* A link to id that id does not have.
OneSided(g, id) ==
  \E lc \in Layers, n \in Ids : id \in g.neighbours[lc][n] /\ n \notin g.neighbours[lc][id]

\* What makes the graph unsound: taking out the entry point (its layer may have
\* no other node; an emptied graph keeps max_layer_), taking out a node that has
\* dropped a link which the other node has kept, inserting the id 0 as the entry
\* point, and inserting an id whose vector is gone.  Nothing else does.
GoesAstray ==
  [][~astray /\ astray' =>
       \/ graph.entry_point \in graph.to_be_removed
       \/ \E id \in graph.to_be_removed : OneSided(graph, id)
       \/ graph'.entry_point = 0 /\ graph'.inserted # {}
       \/ \E id \in graph.to_be_inserted \ graph'.to_be_inserted : vectors[id] = Nil]_vars

\* Indices has the index right: it knows which ids have a node and which are
\* pending, and a walk comes upon no id without a node that it does not call
\* stray, in an unsound graph too.
WithinIndices ==
  Hnsw /\ pc = "ready" /\ ~graph.undefined =>
    /\ graph.inserted = Present(shadow.inserted)
    /\ graph.to_be_inserted = shadow.to_be_inserted
    /\ graph.to_be_removed = shadow.to_be_removed
    /\ \A q \in Vals : \A a \in Answers(graph, vectors, q, Cardinality(Ids)) : a \subseteq HnswReach(shadow)

\* However the collection came about, and with whichever of its vectors k-means
\* begins, its last round moves no centroid: max_iterations ends none too early,
\* which would leave vectors in clusters that are no longer the nearest.
KMeansRests ==
  ~Hnsw /\ K # 0 => \A s \in Seeds(Live) : ~LastRound(Live, vectors, s).changed

\* However the collection came about, and with whichever of its vectors k-means
\* begins, no round that moves a centroid chooses the clusters as an earlier one
\* did: the loop cannot go round in circles until max_iterations ends it.
KMeansNoCircle ==
  ~Hnsw /\ K # 0 =>
    \A s \in Seeds(Live) :
      LET R == RoundsOf(Live, vectors, s) IN
      \A l \in 1 .. MaxIterations :
        R[l].changed => \A n \in 1 .. l - 1 : R[n].chosen # R[l].chosen

\* A vector of an index with clusters, looked for under itself, is found in the
\* first cluster a search probes: k-means, the filing of an add and the search
\* agree on which of two clusters at the same distance is the nearest, over any
\* history of rebuilds, updates and removals.
IvfFindsStored ==
  ~Hnsw /\ ivf.clusters # <<>> =>
    \A id \in Live \ unnoted : Met(ivf, vectors, vectors[id], 1)[id] > 0

\* S is as near to q as any so many vectors.
TopOf(S, q, k) ==
  LET d == From(q, vectors) IN
  /\ Cardinality(S) = IF k < Cardinality(Live) THEN k ELSE Cardinality(Live)
  /\ \A a \in S, b \in Live \ S : d[a] <= d[b]

\* A search that probes all clusters answers with the nearest vectors, each once,
\* unless an id was filed while it had an entry already: only that makes the
\* index answer with an id twice, and leave out another for it.
IvfExact ==
  ~Hnsw /\ ivf.clusters # <<>> /\ unnoted = {} /\ refiled = {} =>
    \A q \in Vals, k \in 1 .. Cardinality(Ids) :
      \A best \in Answered(ivf, vectors, q, k, Len(ivf.clusters)) :
        TopOf({e[1] : e \in best}, q, k)
==============================================================================
