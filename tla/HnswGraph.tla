------------------------------ MODULE HnswGraph ------------------------------
(***************************************************************************)
(* The layered graph of an hnsw index.  Layer 0 should join all nodes; a   *)
(* search descends greedily from the entry point through the upper layers  *)
(* and then walks layer 0.  The id 0 stands for "no entry point".          *)
(*                                                                         *)
(* ef_construction_ and ef_search_ (64 and 32) are taken to be no smaller  *)
(* than the number of ids: a walk with such an ef ends only when it has    *)
(* met all it can reach.                                                   *)
(***************************************************************************)
EXTENDS Distances

CONSTANTS M,       \* max neighbours of a node in the upper layers
          MaxLevel \* bound on the random level of a node

ASSUME LayersAssumption == M \in Nat /\ M >= 2 /\ MaxLevel \in Nat

Layers == 0 .. MaxLevel

\* undefined: the code has changed a set while it iterated over it.
Graph == [neighbours : [Layers -> [Ids -> SUBSET Ids]], node_levels : [Ids -> -1 .. MaxLevel],
          inserted : SUBSET Ids, to_be_inserted : SUBSET Ids, to_be_removed : SUBSET Ids,
          entry_point : Ids \cup {0}, max_layer : -1 .. MaxLevel, undefined : BOOLEAN]

NoGraph ==
  [neighbours |-> [lc \in Layers |-> [id \in Ids |-> {}]], node_levels |-> [id \in Ids |-> -1],
   inserted |-> {}, to_be_inserted |-> {}, to_be_removed |-> {},
   entry_point |-> 0, max_layer |-> -1, undefined |-> FALSE]

\* M_, and M0_ in layer 0.
Cap(lc) == IF lc = 0 THEN 2 * M ELSE M

-----------------------------------------------------------------------------
(* search_layer *)

\* With a large ef: all that can be reached from the nodes eps.
Reached(links, eps) ==
  LET R[n \in 0 .. Cardinality(Ids)] ==
        IF n = 0 THEN eps ELSE LET S == R[n - 1] IN S \cup UNION {links[s] : s \in S}
  IN  R[Cardinality(Ids)]

\* With ef = 1: from e to the nearest of its neighbours while one is nearer to
\* the query.  Of neighbours at the same distance any may be met first.
Move(links, d, e) ==
  LET nearer == {n \in links[e] : d[n] < d[e]} IN
  IF nearer = {} THEN {e} ELSE {n \in nearer : \A m \in nearer : d[n] <= d[m]}

Descents(links, d, e) ==
  LET E[n \in 0 .. Cardinality(Ids)] ==
        IF n = 0 THEN {e} ELSE UNION {Move(links, d, x) : x \in E[n - 1]}
  IN  E[Cardinality(Ids)]

\* Where the descent from ep through the layers above lc may end.
Landings(g, d, ep, lc) ==
  LET E[l \in -1 .. g.max_layer] ==
        IF l = g.max_layer THEN {ep}
        ELSE UNION {Descents(g.neighbours[l + 1], d, e) : e \in E[l + 1]}
  IN  IF lc >= g.max_layer THEN {ep} ELSE E[lc]

\* search_knn: the ids it would answer with, for each way the walk may go.  It
\* throws if one of them has no vector.
Answers(g, vectors, q, k) ==
  LET d == From(q, vectors)
      n == IF k < Cardinality(g.inserted) THEN k ELSE Cardinality(g.inserted)
  IN  IF g.inserted = {} THEN {{}}
      ELSE {Nearest(Reached(g.neighbours[0], {e}), n, d) : e \in Landings(g, d, g.entry_point, 0)}

-----------------------------------------------------------------------------
(* insert *)

\* Mutant: the neighbours do not link back.
Linked_OneWay(links, id, found, cap, d) ==
  [links EXCEPT ![id] = @ \cup Nearest(found, cap, d)]

\* Mutant: nothing is shrunk.
Linked_NoShrink(links, id, found, cap, d) ==
  LET chosen == Nearest(found, cap, d) IN
  [n \in Ids |-> links[n] \cup (IF n = id THEN chosen ELSE {})
                         \cup (IF n \in chosen THEN {id} ELSE {})]

\* Links between id and the nearest of what was found, and then the shrinking of
\* each neighbour that has too many: all its candidates are given the same
\* distance, so it keeps those with the smallest ids.
Linked(links, id, found, cap, d) ==
  LET chosen == Nearest(found, cap, d)
      both == [n \in Ids |-> links[n] \cup (IF n = id THEN chosen ELSE {})
                                      \cup (IF n \in chosen THEN {id} ELSE {})]
  IN  [n \in Ids |-> IF n \in both[id] /\ Cardinality(both[n]) > cap
                     THEN Nearest(both[n], cap, [m \in Ids |-> d[n]]) ELSE both[n]]

\* The layers insert links id in are those up to its level that there are.
Top(g, level) == IF level < g.max_layer THEN level ELSE g.max_layer

\* The graph with id linked to the nearest of what was found in each layer.
Grown(g, id, level, d, found) ==
  LET top == Top(g, level)
      new == [lc \in Layers |-> IF lc > top THEN g.neighbours[lc]
                                ELSE Linked(g.neighbours[lc], id, found[lc], Cap(lc), d)]
      iterated(lc) == g.neighbours[lc][id] \cup Nearest(found[lc], Cap(lc), d)
  IN  [g EXCEPT !.neighbours = new,
                !.node_levels[id] = level,
                !.inserted = @ \cup {id},
                !.to_be_inserted = @ \ {id},
                !.entry_point = IF level > g.max_layer THEN id ELSE IF @ = 0 THEN id ELSE @,
                !.max_layer = IF level > @ THEN level ELSE @,
                !.undefined = @ \/ \E lc \in 0 .. top :
                                id \in iterated(lc) /\ Cardinality(iterated(lc)) > Cap(lc)]

\* insert(id) at a level, once the descent has landed at ep: each layer is walked
\* from what was found in the one above.
Inserted(g, id, level, d, ep) ==
  LET top == Top(g, level)
      Found[lc \in 0 .. top] ==
        Reached(g.neighbours[lc], IF lc = top THEN {ep} ELSE Found[lc + 1])
  IN  Grown(g, id, level, d, Found)

\* The graphs insert may leave behind.
Inserts(g, id, level, vectors) ==
  LET ep == IF g.entry_point = 0 THEN id ELSE g.entry_point
      d == From(vectors[id], vectors)
  IN  IF vectors[id] = Nil
      THEN {[g EXCEPT !.node_levels[id] = level, !.entry_point = ep, !.to_be_inserted = @ \ {id}]}
      ELSE {Inserted(g, id, level, d, e) : e \in Landings(g, d, ep, level)}

-----------------------------------------------------------------------------
(* build, first half: the ids to be removed go, with the links to them of    *)
(* those they have a link to; the entry point is replaced by a node of its   *)
(* layer if there is one.                                                    *)

\* Mutant: only the removed ids' own links go.
WithoutLinks_OwnOnly(links, gone) == [n \in Ids |-> IF n \in gone THEN {} ELSE links[n]]

WithoutLinks(links, gone) ==
  [n \in Ids |-> IF n \in gone THEN {} ELSE {m \in links[n] : m \notin gone \/ n \notin links[m]}]

Prunes(g) ==
  LET rest == g.inserted \ g.to_be_removed
      tops == {id \in rest : g.node_levels[id] = g.max_layer}
      entries == IF g.entry_point = 0 \/ g.entry_point \in rest THEN {g.entry_point}
                 ELSE IF rest = {} THEN {0}
                 ELSE IF tops = {} THEN {g.entry_point} ELSE tops
  IN  {[g EXCEPT !.neighbours = [lc \in Layers |-> WithoutLinks(@[lc], g.to_be_removed)],
                 !.node_levels = [id \in Ids |-> IF id \in g.to_be_removed THEN -1 ELSE @[id]],
                 !.inserted = rest,
                 !.entry_point = e,
                 !.undefined = @ \/ \E lc \in Layers, id \in g.to_be_removed :
                                      id \in g.neighbours[lc][id],
                 !.to_be_removed = {}] : e \in entries}

-----------------------------------------------------------------------------
(* The hooks *)

GraphAdded(g, ids) ==
  [g EXCEPT !.to_be_removed = @ \cup (ids \cap g.inserted), !.to_be_inserted = @ \cup ids]

\* Mutant: a pending insertion is not called off.
GraphRemoved_KeepsPending(g, ids) == [g EXCEPT !.to_be_removed = @ \cup ids]

GraphRemoved(g, ids) ==
  [g EXCEPT !.to_be_removed = @ \cup (ids \ g.to_be_inserted), !.to_be_inserted = @ \ ids]
==============================================================================
