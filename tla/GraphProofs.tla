------------------------------ MODULE GraphProofs ------------------------------
(***************************************************************************)
(* What the searches of an hnsw index find, for any number of ids, layers  *)
(* and neighbours and for any history of adds, removals and rebuilds.      *)
(***************************************************************************)
EXTENDS NearestSearch, FiniteSetTheorems, TLAPS

-----------------------------------------------------------------------------
(* Induction over the naturals, for a set rather than a predicate. *)

LEMMA Least ==
  ASSUME NEW T, T \subseteq Nat, T # {}
  PROVE  \E n \in T : \A m \in T : n <= m
<1> DEFINE less == OpToRel(<, Nat)
<1>1. \A x, y \in Nat : x < y => <<x, y>> \in less
  BY DEF OpToRel
<1>2. IsWellFoundedOn(less, Nat)
  BY NatLessThanWellFounded
<1> HIDE DEF less
<1>3. PICK x \in T : \A y \in T : ~ (<<y, x>> \in less)
  BY <1>2, WFMin
<1>4. ASSUME NEW y \in T PROVE x <= y
  <2>1. x \in Nat /\ y \in Nat /\ ~(y < x)
    BY <1>1, <1>3
  <2> QED
    BY <2>1
<1> QED
  BY <1>4

LEMMA Induct ==
  ASSUME NEW S, 0 \in S, \A n \in Nat : n \in S => n + 1 \in S
  PROVE  Nat \subseteq S
<1> SUFFICES ASSUME Nat \ S # {} PROVE FALSE
  OBVIOUS
<1>1. PICK n \in Nat \ S : \A m \in Nat \ S : n <= m
  BY Least
<1>2. n # 0 /\ n - 1 \in Nat
  BY <1>1
<1>3. n - 1 \in S
  BY <1>1, <1>2
<1> QED
  BY <1>1, <1>2, <1>3

\* A function on 0 .. N given by its first value and its steps.
LEMMA Iterates ==
  ASSUME NEW A, NEW c \in A, NEW N \in Nat, NEW s \in [1 .. N -> [A -> A]]
  PROVE  \E f \in [0 .. N -> A] : f[0] = c /\ \A n \in 1 .. N : f[n] = s[n][f[n - 1]]
<1> DEFINE Good(n, f) == f \in [0 .. n -> A] /\ f[0] = c /\ \A m \in 1 .. n : f[m] = s[m][f[m - 1]]
           T == {n \in Nat : n <= N => \E f : Good(n, f)}
<1>1. 0 \in T
  <2>1. Good(0, [m \in 0 .. 0 |-> c])
    OBVIOUS
  <2> QED
    BY <2>1
<1>2. ASSUME NEW n \in Nat, n \in T PROVE n + 1 \in T
  <2> SUFFICES ASSUME n + 1 <= N PROVE \E f : Good(n + 1, f)
    OBVIOUS
  <2>1. PICK f : Good(n, f)
    BY <1>2
  <2> DEFINE h == [m \in 0 .. n + 1 |-> IF m = n + 1 THEN s[n + 1][f[n]] ELSE f[m]]
  <2>2. s[n + 1][f[n]] \in A
    BY <2>1
  <2>3. h \in [0 .. n + 1 -> A] /\ h[0] = c
    BY <2>1, <2>2
  <2>4. ASSUME NEW m \in 1 .. n + 1 PROVE h[m] = s[m][h[m - 1]]
    <3>1. CASE m = n + 1
      BY <3>1
    <3>2. CASE m # n + 1
      <4>1. m \in 1 .. n /\ m - 1 \in 0 .. n
        BY <3>2
      <4> QED
        BY <2>1, <3>2, <4>1
    <3> QED
      BY <3>1, <3>2
  <2> HIDE DEF h
  <2> QED
    BY <2>3, <2>4
<1> HIDE DEF T
<1>3. N \in T
  BY <1>1, <1>2, Induct
<1> QED
  BY <1>3 DEF T

-----------------------------------------------------------------------------
(* search_layer *)

Linking == [Ids -> SUBSET Ids]

Closed(links, S) == S \subseteq Ids /\ \A s \in S : links[s] \subseteq S

LEMMA ReachedUnfold ==
  ASSUME NEW links \in Linking, NEW eps \in SUBSET Ids
  PROVE  \E R : /\ Reached(links, eps) = R[Cardinality(Ids)]
                /\ R[0] = eps
                /\ \A n \in 1 .. Cardinality(Ids) : R[n] = R[n - 1] \cup UNION {links[x] : x \in R[n - 1]}
<1> DEFINE N == Cardinality(Ids)
           R[n \in 0 .. N] == IF n = 0 THEN eps ELSE R[n - 1] \cup UNION {links[x] : x \in R[n - 1]}
<1>1. N \in Nat
  BY LineAssumption, FS_CardinalityType
<1>2. Reached(links, eps) = R[N]
  BY DEF Reached
<1>3. \E f : f = [n \in 0 .. N |-> IF n = 0 THEN eps ELSE f[n - 1] \cup UNION {links[x] : x \in f[n - 1]}]
  <2> DEFINE A == SUBSET Ids
             s == [n \in 1 .. N |-> [X \in A |-> X \cup UNION {links[x] : x \in X}]]
  <2>1. s \in [1 .. N -> [A -> A]] /\ eps \in A
    BY DEF Linking
  <2>2. \A n \in 1 .. N, X \in A : s[n][X] = X \cup UNION {links[x] : x \in X}
    OBVIOUS
  <2> HIDE DEF N, A, s
  <2>3. PICK f \in [0 .. N -> A] : f[0] = eps /\ \A n \in 1 .. N : f[n] = s[n][f[n - 1]]
    BY <1>1, <2>1, Iterates
  <2>4. ASSUME NEW n \in 1 .. N PROVE f[n] = f[n - 1] \cup UNION {links[x] : x \in f[n - 1]}
    <3>1. f[n - 1] \in A
      BY <1>1, <2>3
    <3> QED
      BY <2>2, <2>3, <3>1
  <2>5. f = [n \in 0 .. N |-> IF n = 0 THEN eps ELSE f[n - 1] \cup UNION {links[x] : x \in f[n - 1]}]
    BY <1>1, <2>3, <2>4
  <2> QED
    BY <2>5
<1>4. R = [n \in 0 .. N |-> IF n = 0 THEN eps ELSE R[n - 1] \cup UNION {links[x] : x \in R[n - 1]}]
  BY <1>3 DEF R
<1> HIDE DEF R, N
<1>5. R[0] = eps /\ \A n \in 1 .. N : R[n] = R[n - 1] \cup UNION {links[x] : x \in R[n - 1]}
  BY <1>1, <1>4
<1> QED
  BY <1>2, <1>5 DEF N

\* What can be reached is what the nodes begun at and their links lead to.
LEMMA ReachedWithin ==
  ASSUME NEW links \in Linking, NEW S, Closed(links, S), NEW eps \in SUBSET S
  PROVE  /\ eps \subseteq Reached(links, eps)
         /\ Reached(links, eps) \subseteq S
         /\ \A e \in eps : links[e] \subseteq Reached(links, eps)
<1> DEFINE N == Cardinality(Ids)
<1>1. N \in Nat /\ S \subseteq Ids
  BY LineAssumption, FS_CardinalityType DEF Closed
<1>2. PICK R : /\ Reached(links, eps) = R[N]
               /\ R[0] = eps
               /\ \A n \in 1 .. N : R[n] = R[n - 1] \cup UNION {links[x] : x \in R[n - 1]}
  BY <1>1, ReachedUnfold
<1> DEFINE T == {n \in Nat : n <= N => /\ eps \subseteq R[n] /\ R[n] \subseteq S
                                       /\ n > 0 => \A e \in eps : links[e] \subseteq R[n]}
<1> HIDE DEF N
<1>3. 0 \in T
  BY <1>2
<1>4. ASSUME NEW n \in Nat, n \in T PROVE n + 1 \in T
  <2> SUFFICES ASSUME n + 1 <= N PROVE n + 1 \in T
    OBVIOUS
  <2>1. n + 1 \in 1 .. N /\ (n + 1) - 1 = n
    BY <1>1
  <2>2. R[n + 1] = R[n] \cup UNION {links[x] : x \in R[n]}
    BY <1>2, <2>1
  <2>3. eps \subseteq R[n] /\ R[n] \subseteq S
    BY <1>4, <1>1
  <2>4. UNION {links[x] : x \in R[n]} \subseteq S
    BY <2>3 DEF Closed
  <2>5. \A e \in eps : links[e] \subseteq R[n + 1]
    BY <2>2, <2>3
  <2> QED
    BY <2>2, <2>3, <2>4, <2>5
<1> HIDE DEF T
<1>5. N \in T
  BY <1>1, <1>3, <1>4, Induct
<1>6. N = 0 => eps = {}
  BY <1>1, LineAssumption, FS_EmptySet DEF N
<1> QED
  BY <1>1, <1>2, <1>5, <1>6 DEF T

LEMMA MoveWithin ==
  ASSUME NEW links \in Linking, NEW S, Closed(links, S), NEW d \in [Ids -> Nat], NEW e \in S
  PROVE  Move(links, d, e) \subseteq S /\ Move(links, d, e) # {}
<1> DEFINE nearer == {n \in links[e] : d[n] < d[e]}
<1>1. e \in Ids /\ links[e] \subseteq S /\ links[e] \subseteq Ids
  BY DEF Closed, Linking
<1>2. CASE nearer # {}
  <2> DEFINE T == {d[n] : n \in nearer}
  <2>1. T \subseteq Nat /\ T # {}
    BY <1>1, <1>2
  <2>2. PICK x \in T : \A y \in T : x <= y
    BY <2>1, Least
  <2>3. PICK n \in nearer : x = d[n]
    BY <2>2
  <2>4. \A m \in nearer : d[n] <= d[m]
    BY <2>2, <2>3
  <2> QED
    BY <1>1, <1>2, <2>4 DEF Move
<1> QED
  BY <1>1, <1>2 DEF Move

\* E are the ends after so many moves.
Descent(E, links, d, e) ==
  /\ Descents(links, d, e) = E[Cardinality(Ids)]
  /\ E[0] = {e}
  /\ \A n \in 1 .. Cardinality(Ids) : E[n] = UNION {Move(links, d, x) : x \in E[n - 1]}

LEMMA DescentsUnfold ==
  ASSUME NEW links, NEW d, NEW S, NEW e \in S
  PROVE  (\A x \in S : Move(links, d, x) \subseteq S) => \E E : Descent(E, links, d, e)
<1> DEFINE N == Cardinality(Ids)
           E[n \in 0 .. N] == IF n = 0 THEN {e} ELSE UNION {Move(links, d, x) : x \in E[n - 1]}
<1>1. N \in Nat
  BY LineAssumption, FS_CardinalityType
<1>2. SUFFICES ASSUME \A x \in S : Move(links, d, x) \subseteq S
               PROVE  \E F : Descent(F, links, d, e)
  OBVIOUS
<1>3. Descents(links, d, e) = E[N]
  BY DEF Descents
<1>4. \E f : f = [n \in 0 .. N |-> IF n = 0 THEN {e} ELSE UNION {Move(links, d, x) : x \in f[n - 1]}]
  <2> DEFINE A == SUBSET S
             one == {e}
             s == [n \in 1 .. N |-> [X \in A |-> UNION {Move(links, d, x) : x \in X}]]
  <2>1. s \in [1 .. N -> [A -> A]] /\ one \in A
    BY <1>2
  <2>2. \A n \in 1 .. N, X \in A : s[n][X] = UNION {Move(links, d, x) : x \in X}
    OBVIOUS
  <2> HIDE DEF E, N, A, one, s
  <2>3. PICK f \in [0 .. N -> A] : f[0] = one /\ \A n \in 1 .. N : f[n] = s[n][f[n - 1]]
    BY <1>1, <2>1, Iterates
  <2>4. ASSUME NEW n \in 1 .. N PROVE f[n] = UNION {Move(links, d, x) : x \in f[n - 1]}
    <3>1. f[n - 1] \in A
      BY <1>1, <2>3
    <3> QED
      BY <2>2, <2>3, <3>1
  <2>5. f = [n \in 0 .. N |-> IF n = 0 THEN {e} ELSE UNION {Move(links, d, x) : x \in f[n - 1]}]
    BY <1>1, <2>3, <2>4 DEF one
  <2> QED
    BY <2>5
<1>5. E = [n \in 0 .. N |-> IF n = 0 THEN {e} ELSE UNION {Move(links, d, x) : x \in E[n - 1]}]
  BY <1>4 DEF E
<1> HIDE DEF E, N
<1>6. E[0] = {e} /\ \A n \in 1 .. N : E[n] = UNION {Move(links, d, x) : x \in E[n - 1]}
  BY <1>1, <1>5
<1> QED
  BY <1>3, <1>6 DEF Descent, N

\* A greedy descent ends somewhere, among what the links lead to.
LEMMA DescentsWithin ==
  ASSUME NEW links \in Linking, NEW S, Closed(links, S), NEW d \in [Ids -> Nat], NEW e \in S
  PROVE  Descents(links, d, e) \subseteq S /\ Descents(links, d, e) # {}
<1> DEFINE N == Cardinality(Ids)
<1>1. N \in Nat
  BY LineAssumption, FS_CardinalityType
<1>2. PICK E : Descent(E, links, d, e)
  <2>1. \A x \in S : Move(links, d, x) \subseteq S
    BY MoveWithin
  <2> QED
    BY <2>1, DescentsUnfold
<1> DEFINE T == {n \in Nat : n <= N => E[n] \subseteq S /\ E[n] # {}}
<1> HIDE DEF N
<1>3. 0 \in T
  BY <1>2 DEF Descent
<1>4. ASSUME NEW n \in Nat, n \in T PROVE n + 1 \in T
  <2> SUFFICES ASSUME n + 1 <= N PROVE n + 1 \in T
    OBVIOUS
  <2>1. n + 1 \in 1 .. N /\ (n + 1) - 1 = n
    BY <1>1
  <2>2. E[n + 1] = UNION {Move(links, d, x) : x \in E[n]}
    BY <1>2, <2>1 DEF Descent, N
  <2>3. E[n] \subseteq S /\ E[n] # {}
    BY <1>4, <1>1
  <2>4. \A x \in E[n] : Move(links, d, x) \subseteq S /\ Move(links, d, x) # {}
    BY <2>3, MoveWithin
  <2> QED
    BY <2>2, <2>3, <2>4
<1> HIDE DEF T
<1>5. N \in T
  BY <1>1, <1>3, <1>4, Induct
<1> QED
  BY <1>1, <1>2, <1>5 DEF T, Descent, N

\* E are the ends of the descent at each layer.
Landing(E, g, d, ep) ==
  /\ E[g.max_layer] = {ep}
  /\ \A l \in -1 .. g.max_layer - 1 : E[l] = UNION {Descents(g.neighbours[l + 1], d, e) : e \in E[l + 1]}

LEMMA LandingsUnfold ==
  ASSUME NEW g, NEW d, NEW S, NEW ep \in S, NEW lc, g.max_layer \in Nat \cup {-1}
  PROVE  (\A l \in 0 .. g.max_layer, e \in S : Descents(g.neighbours[l], d, e) \subseteq S) =>
         \E E : /\ Landings(g, d, ep, lc) = IF lc >= g.max_layer THEN {ep} ELSE E[lc]
                /\ Landing(E, g, d, ep)
<1> DEFINE m == g.max_layer
           E[l \in -1 .. m] == IF l = m THEN {ep} ELSE UNION {Descents(g.neighbours[l + 1], d, e) : e \in E[l + 1]}
<1>1. SUFFICES ASSUME \A l \in 0 .. m, e \in S : Descents(g.neighbours[l], d, e) \subseteq S
               PROVE  \E F : /\ Landings(g, d, ep, lc) = IF lc >= m THEN {ep} ELSE F[lc]
                             /\ Landing(F, g, d, ep)
  OBVIOUS
<1>2. Landings(g, d, ep, lc) = IF lc >= m THEN {ep} ELSE E[lc]
  BY DEF Landings
<1>3. \E f : f = [l \in -1 .. m |-> IF l = m THEN {ep} ELSE UNION {Descents(g.neighbours[l + 1], d, e) : e \in f[l + 1]}]
  <2> DEFINE N == m + 1
             A == SUBSET S
             one == {ep}
             s == [n \in 1 .. N |-> [X \in A |-> UNION {Descents(g.neighbours[m - n + 1], d, e) : e \in X}]]
  <2>1. \A n \in 1 .. N : m - n + 1 \in 0 .. m
    OBVIOUS
  <2>2. s \in [1 .. N -> [A -> A]] /\ one \in A /\ N \in Nat
    <3>1. ASSUME NEW n \in 1 .. N, NEW X \in A
          PROVE  UNION {Descents(g.neighbours[m - n + 1], d, e) : e \in X} \in A
      BY <1>1, <2>1
    <3> QED
      BY <3>1
  <2>3. \A n \in 1 .. N, X \in A : s[n][X] = UNION {Descents(g.neighbours[m - n + 1], d, e) : e \in X}
    OBVIOUS
  <2> HIDE DEF E, A, one, s
  <2>4. PICK f \in [0 .. N -> A] : f[0] = one /\ \A n \in 1 .. N : f[n] = s[n][f[n - 1]]
    <3> HIDE DEF N
    <3> QED
      BY <2>2, Iterates
  <2> DEFINE h == [l \in -1 .. m |-> f[m - l]]
  <2>5. h[m] = {ep}
    BY <2>4 DEF one
  <2>6. ASSUME NEW l \in -1 .. m, l # m
        PROVE  h[l] = UNION {Descents(g.neighbours[l + 1], d, e) : e \in h[l + 1]}
    <3>1. m - l \in 1 .. N /\ (m - l) - 1 = m - (l + 1) /\ m - (m - l) + 1 = l + 1
      BY <2>6
    <3>2. h[l] = f[m - l] /\ h[l + 1] = f[(m - l) - 1]
      BY <2>6, <3>1
    <3>3. f[(m - l) - 1] \in A
      BY <2>4, <3>1
    <3>4. f[m - l] = s[m - l][f[(m - l) - 1]]
      BY <2>4, <3>1
    <3> HIDE DEF h
    <3>5. s[m - l][f[(m - l) - 1]] = UNION {Descents(g.neighbours[m - (m - l) + 1], d, e) : e \in f[(m - l) - 1]}
      BY <2>3, <3>1, <3>3
    <3> QED
      BY <3>1, <3>2, <3>4, <3>5
  <2>7. h = [l \in -1 .. m |-> IF l = m THEN {ep} ELSE UNION {Descents(g.neighbours[l + 1], d, e) : e \in h[l + 1]}]
    <3>1. h = [l \in -1 .. m |-> h[l]]
      OBVIOUS
    <3> HIDE DEF h
    <3> QED
      BY <2>5, <2>6, <3>1
  <2> QED
    BY <2>7
<1> HIDE DEF m
<1>4. E = [l \in -1 .. m |-> IF l = m THEN {ep} ELSE UNION {Descents(g.neighbours[l + 1], d, e) : e \in E[l + 1]}]
  BY <1>3 DEF E
<1> HIDE DEF E
<1>5. E[m] = {ep} /\ \A l \in -1 .. m - 1 : E[l] = UNION {Descents(g.neighbours[l + 1], d, e) : e \in E[l + 1]}
  <2>1. m \in -1 .. m /\ \A l \in -1 .. m - 1 : l \in -1 .. m /\ l # m
    BY DEF m
  <2> QED
    BY <1>4, <2>1
<1> QED
  BY <1>2, <1>5 DEF Landing, m

\* The links of each layer stay within S.
Within(g, S) == \A lc \in Layers : Closed(g.neighbours[lc], S)

LEMMA GraphLinks ==
  ASSUME NEW g \in Graph
  PROVE  /\ \A lc \in Layers : g.neighbours[lc] \in Linking
         /\ g.max_layer \in Nat \cup {-1} /\ g.max_layer <= MaxLevel
         /\ \A lc \in 0 .. g.max_layer : lc \in Layers
  BY LayersAssumption DEF Graph, Linking, Layers

\* The descent through the upper layers ends somewhere, among what the links
\* lead to.
LEMMA LandingsWithin ==
  ASSUME NEW g \in Graph, NEW S, Within(g, S), NEW d \in [Ids -> Nat], NEW ep \in S, NEW lc \in Layers
  PROVE  Landings(g, d, ep, lc) \subseteq S /\ Landings(g, d, ep, lc) # {}
<1> DEFINE m == g.max_layer
<1>1. m \in Nat \cup {-1} /\ lc \in Nat
  BY GraphLinks DEF Layers
<1>2. ASSUME NEW l \in 0 .. m, NEW e \in S
      PROVE  Descents(g.neighbours[l], d, e) \subseteq S /\ Descents(g.neighbours[l], d, e) # {}
  BY GraphLinks, DescentsWithin DEF Within
<1>3. PICK E : /\ Landings(g, d, ep, lc) = IF lc >= m THEN {ep} ELSE E[lc]
               /\ Landing(E, g, d, ep)
  <2>1. \A l \in 0 .. g.max_layer, e \in S : Descents(g.neighbours[l], d, e) \subseteq S
    BY <1>2
  <2> QED
    BY <1>1, <2>1, LandingsUnfold
<1> DEFINE T == {n \in Nat : n <= m + 1 => E[m - n] \subseteq S /\ E[m - n] # {}}
<1>4. 0 \in T
  BY <1>1, <1>3 DEF Landing
<1>5. ASSUME NEW n \in Nat, n \in T PROVE n + 1 \in T
  <2> SUFFICES ASSUME n + 1 <= m + 1 PROVE n + 1 \in T
    OBVIOUS
  <2> DEFINE l == m - (n + 1)
  <2>1. l \in -1 .. m - 1 /\ l + 1 \in 0 .. m /\ l + 1 = m - n
    BY <1>1
  <2>2. E[l] = UNION {Descents(g.neighbours[l + 1], d, e) : e \in E[l + 1]}
    BY <1>3, <2>1 DEF Landing
  <2>3. E[l + 1] \subseteq S /\ E[l + 1] # {}
    BY <1>1, <1>5, <2>1
  <2>4. \A e \in E[l + 1] : /\ Descents(g.neighbours[l + 1], d, e) \subseteq S
                            /\ Descents(g.neighbours[l + 1], d, e) # {}
    BY <1>2, <2>1, <2>3
  <2> HIDE DEF l, m
  <2>5. E[l] \subseteq S /\ E[l] # {}
    BY <2>2, <2>3, <2>4
  <2> QED
    BY <2>5 DEF l
<1> HIDE DEF T, m
<1>6. ASSUME lc < m PROVE m - lc \in T /\ m - lc <= m + 1 /\ m - (m - lc) = lc
  BY <1>1, <1>4, <1>5, <1>6, Induct
<1> QED
  BY <1>1, <1>3, <1>6 DEF T

\* found is what is met in each layer from top down.
FoundFrom(found, g, top, ep) ==
  \A lc \in 0 .. top : found[lc] = Reached(g.neighbours[lc], IF lc = top THEN {ep} ELSE found[lc + 1])

LEMMA InsertedUnfold ==
  ASSUME NEW g, NEW d, NEW S, NEW ep \in S, NEW id, NEW level, Top(g, level) \in Nat \cup {-1}
  PROVE  (\A lc \in 0 .. Top(g, level), X \in SUBSET S : Reached(g.neighbours[lc], X) \subseteq S) =>
         \E found : /\ Inserted(g, id, level, d, ep) = Grown(g, id, level, d, found)
                    /\ FoundFrom(found, g, Top(g, level), ep)
<1> DEFINE m == Top(g, level)
           E[lc \in 0 .. m] == Reached(g.neighbours[lc], IF lc = m THEN {ep} ELSE E[lc + 1])
<1>1. SUFFICES ASSUME \A lc \in 0 .. m, X \in SUBSET S : Reached(g.neighbours[lc], X) \subseteq S
               PROVE  \E F : /\ Inserted(g, id, level, d, ep) = Grown(g, id, level, d, F)
                             /\ FoundFrom(F, g, m, ep)
  OBVIOUS
<1>2. Inserted(g, id, level, d, ep) = Grown(g, id, level, d, E)
  BY DEF Inserted
<1>3. m \in Nat \cup {-1}
  OBVIOUS
<1> HIDE DEF m
<1>4. \E f : f = [lc \in 0 .. m |-> Reached(g.neighbours[lc], IF lc = m THEN {ep} ELSE f[lc + 1])]
  <2> DEFINE N == m + 1
             A == SUBSET S
             one == {ep}
             s == [n \in 1 .. N |-> [X \in A |-> Reached(g.neighbours[m - n + 1], X)]]
  <2>1. \A n \in 1 .. N : m - n + 1 \in 0 .. m
    BY <1>3
  <2>2. s \in [1 .. N -> [A -> A]] /\ one \in A /\ N \in Nat
    <3>1. ASSUME NEW n \in 1 .. N, NEW X \in A
          PROVE  Reached(g.neighbours[m - n + 1], X) \in A
      <4> DEFINE l == m - n + 1
      <4>1. l \in 0 .. m /\ X \in SUBSET S
        BY <2>1
      <4> HIDE DEF l
      <4>2. Reached(g.neighbours[l], X) \subseteq S
        BY <1>1, <4>1
      <4> QED
        BY <4>2 DEF l
    <3>2. one \in A /\ N \in Nat
      BY <1>3
    <3> HIDE DEF A, N, one
    <3>3. s \in [1 .. N -> [A -> A]]
      BY <3>1
    <3> QED
      BY <3>2, <3>3
  <2>3. \A n \in 1 .. N, X \in A : s[n][X] = Reached(g.neighbours[m - n + 1], X)
    OBVIOUS
  <2> HIDE DEF E, A, one, s
  <2>4. PICK f \in [0 .. N -> A] : f[0] = one /\ \A n \in 1 .. N : f[n] = s[n][f[n - 1]]
    <3> HIDE DEF N
    <3> QED
      BY <2>2, Iterates
  <2> DEFINE h == [lc \in 0 .. m |-> f[m - lc + 1]]
  <2>5. ASSUME NEW lc \in 0 .. m
        PROVE  h[lc] = Reached(g.neighbours[lc], IF lc = m THEN {ep} ELSE h[lc + 1])
    <3>1. m - lc + 1 \in 1 .. N /\ (m - lc + 1) - 1 = m - lc /\ m - (m - lc + 1) + 1 = lc
      BY <1>3
    <3>2. h[lc] = f[m - lc + 1] /\ f[m - lc] \in A
      BY <1>3, <2>4
    <3>3. f[m - lc + 1] = s[m - lc + 1][f[m - lc]]
      BY <2>4, <3>1
    <3>4. s[m - lc + 1][f[m - lc]] = Reached(g.neighbours[m - (m - lc + 1) + 1], f[m - lc])
      BY <2>3, <3>1, <3>2
    <3>5. f[m - lc] = IF lc = m THEN {ep} ELSE h[lc + 1]
      <4>1. CASE lc = m
        BY <1>3, <2>4, <4>1 DEF one
      <4>2. CASE lc # m
        <5>1. lc + 1 \in 0 .. m /\ m - (lc + 1) + 1 = m - lc
          BY <1>3, <4>2
        <5> QED
          BY <4>2, <5>1
      <4> QED
        BY <4>1, <4>2
    <3> HIDE DEF h
    <3> QED
      BY <3>1, <3>2, <3>3, <3>4, <3>5
  <2>6. h = [lc \in 0 .. m |-> Reached(g.neighbours[lc], IF lc = m THEN {ep} ELSE h[lc + 1])]
    <3>1. h = [lc \in 0 .. m |-> h[lc]]
      OBVIOUS
    <3> HIDE DEF h
    <3> QED
      BY <2>5, <3>1
  <2> QED
    BY <2>6
<1>5. E = [lc \in 0 .. m |-> Reached(g.neighbours[lc], IF lc = m THEN {ep} ELSE E[lc + 1])]
  BY <1>4 DEF E
<1> HIDE DEF E
<1>6. \A lc \in 0 .. m : E[lc] = Reached(g.neighbours[lc], IF lc = m THEN {ep} ELSE E[lc + 1])
  BY <1>5
<1> QED
  BY <1>2, <1>6 DEF FoundFrom, m

\* What each layer gives insert() to choose from is within S.
FoundWithin(found, g, level, S) ==
  \A lc \in 0 .. Top(g, level) :
    \E eps \in (SUBSET S) \ {{}} : /\ found[lc] = Reached(g.neighbours[lc], eps)
                                  /\ eps \subseteq found[lc]
                                  /\ found[lc] \subseteq S

\* insert() links the new node to nodes that can be reached, in each layer.
LEMMA InsertedFrom ==
  ASSUME NEW g \in Graph, NEW S, Within(g, S), NEW d \in [Ids -> Nat], NEW ep \in S, NEW id \in Ids,
         NEW level \in Layers
  PROVE  \E found : /\ Inserted(g, id, level, d, ep) = Grown(g, id, level, d, found)
                    /\ FoundWithin(found, g, level, S)
<1> DEFINE m == Top(g, level)
<1>1. m \in Nat \cup {-1} /\ \A lc \in 0 .. m : lc \in Layers
  BY GraphLinks DEF Top, Layers
<1>2. ASSUME NEW lc \in 0 .. m, NEW X \in SUBSET S
      PROVE  X \subseteq Reached(g.neighbours[lc], X) /\ Reached(g.neighbours[lc], X) \subseteq S
  BY <1>1, GraphLinks, ReachedWithin DEF Within
<1>3. PICK found : /\ Inserted(g, id, level, d, ep) = Grown(g, id, level, d, found)
                   /\ FoundFrom(found, g, m, ep)
  <2>1. \A lc \in 0 .. m, X \in SUBSET S : Reached(g.neighbours[lc], X) \subseteq S
    BY <1>2
  <2> QED
    BY <1>1, <2>1, InsertedUnfold
<1> DEFINE Good(lc) == \E eps \in (SUBSET S) \ {{}} : /\ found[lc] = Reached(g.neighbours[lc], eps)
                                                     /\ eps \subseteq found[lc] /\ found[lc] \subseteq S
           T == {n \in Nat : n <= m => Good(m - n)}
<1> HIDE DEF m
<1>4. 0 \in T
  <2> SUFFICES ASSUME 0 <= m PROVE Good(m)
    BY <1>1
  <2> DEFINE one == {ep}
  <2>1. found[m] = Reached(g.neighbours[m], one)
    BY <1>1, <1>3 DEF FoundFrom
  <2>2. one \in (SUBSET S) \ {{}} /\ m \in 0 .. m
    BY <1>1
  <2> HIDE DEF one
  <2>3. one \subseteq found[m] /\ found[m] \subseteq S
    BY <1>2, <2>1, <2>2
  <2> QED
    BY <2>1, <2>2, <2>3
<1>5. ASSUME NEW n \in Nat, n \in T PROVE n + 1 \in T
  <2> SUFFICES ASSUME n + 1 <= m PROVE Good(m - (n + 1))
    OBVIOUS
  <2> DEFINE l == m - (n + 1)
  <2>1. l \in 0 .. m /\ l # m /\ l + 1 = m - n
    BY <1>1
  <2>2. found[l] = Reached(g.neighbours[l], found[l + 1])
    BY <1>3, <2>1 DEF FoundFrom
  <2>3. found[l + 1] \in (SUBSET S) \ {{}}
    BY <1>1, <1>5, <2>1
  <2> HIDE DEF l
  <2>4. Good(l)
    BY <1>2, <2>1, <2>2, <2>3
  <2> QED
    BY <2>4 DEF l
<1>6. ASSUME NEW lc \in 0 .. m PROVE Good(lc)
  <2>1. m - lc \in Nat /\ m - lc <= m /\ m - (m - lc) = lc
    BY <1>1
  <2>2. m - lc \in T
    <3> HIDE DEF T
    <3> QED
      BY <1>4, <1>5, <2>1, Induct
  <2> QED
    BY <2>1, <2>2
<1>7. FoundWithin(found, g, level, S)
  BY <1>6 DEF m, FoundWithin
<1> QED
  BY <1>3, <1>7 DEF m
-----------------------------------------------------------------------------
(* The nearest of a set *)

\* From gives each id a distance, whatever has been stored.
LEMMA FromType ==
  ASSUME NEW q \in Vals, NEW vecs \in Stored
  PROVE  From(q, vecs) \in [Ids -> Nat]
<1>1. ASSUME NEW a \in Vals, NEW b \in Vals PROVE Distance(a, b) \in Nat
  BY LineAssumption DEF Distance
<1>2. ASSUME NEW id \in Ids, vecs[id] # Nil PROVE vecs[id] \in Vals
  BY <1>2 DEF Stored
<1> QED
  BY <1>1, <1>2, FarAssumption DEF From

Preceding(S, s, d) == {r \in S : Before(d, r, s)}

\* The place of s in the order of S: less than the number of elements, greater
\* than the place of any other before it, so no two have the same.
LEMMA PlaceOf ==
  ASSUME NEW S \in SUBSET Ids, NEW d \in [Ids -> Nat]
  PROVE  /\ Cardinality(S) \in Nat
         /\ \A s \in S : /\ Cardinality(Preceding(S, s, d)) \in Nat
                         /\ Cardinality(Preceding(S, s, d)) < Cardinality(S)
         /\ \A r, s \in S : Before(d, r, s) =>
              Cardinality(Preceding(S, r, d)) < Cardinality(Preceding(S, s, d))
         /\ \A r, s \in S : r # s => Before(d, r, s) \/ Before(d, s, r)
<1>1. ASSUME NEW X \in SUBSET Ids
      PROVE  IsFiniteSet(X) /\ Cardinality(X) \in Nat
  BY LineAssumption, FS_Subset, FS_CardinalityType
<1>2. ASSUME NEW X \in SUBSET Ids, NEW Y \in SUBSET X, NEW x \in X, x \notin Y
      PROVE  Cardinality(Y) < Cardinality(X)
  <2>1. Y \in SUBSET (X \ {x}) /\ IsFiniteSet(X \ {x})
    BY <1>1, <1>2
  <2>2. Cardinality(X \ {x}) = Cardinality(X) - 1
    BY <1>1, FS_RemoveElement
  <2>3. Cardinality(Y) <= Cardinality(X \ {x})
    BY <2>1, FS_Subset
  <2>4. Cardinality(X) \in Nat /\ Cardinality(Y) \in Nat
    BY <1>1
  <2> QED
    BY <2>2, <2>3, <2>4
<1>3. \A s \in S : Preceding(S, s, d) \in SUBSET S /\ s \notin Preceding(S, s, d)
  BY LineAssumption DEF Preceding, Before
<1>4. ASSUME NEW s \in S
      PROVE  Cardinality(Preceding(S, s, d)) \in Nat /\ Cardinality(Preceding(S, s, d)) < Cardinality(S)
  <2>1. Preceding(S, s, d) \in SUBSET S /\ s \notin Preceding(S, s, d)
    BY <1>3
  <2>2. Preceding(S, s, d) \in SUBSET Ids
    BY <2>1
  <2> QED
    BY <1>1, <1>2, <2>1, <2>2
<1>5. ASSUME NEW r \in S, NEW s \in S, Before(d, r, s)
      PROVE  Cardinality(Preceding(S, r, d)) < Cardinality(Preceding(S, s, d))
  <2>1. \A x \in S : Before(d, x, r) => Before(d, x, s)
    BY <1>5, LineAssumption DEF Before
  <2>2. Preceding(S, r, d) \in SUBSET Preceding(S, s, d)
    BY <2>1 DEF Preceding
  <2>3. r \in Preceding(S, s, d) /\ r \notin Preceding(S, r, d) /\ Preceding(S, s, d) \in SUBSET Ids
    BY <1>3, <1>5 DEF Preceding
  <2> QED
    BY <1>2, <2>2, <2>3
<1>6. \A r, s \in S : r # s => Before(d, r, s) \/ Before(d, s, r)
  BY LineAssumption DEF Before
<1> QED
  BY <1>1, <1>4, <1>5, <1>6

\* Nearest gives at most n, all when there are no more, and none only of none.
LEMMA NearestIs ==
  ASSUME NEW S \in SUBSET Ids, NEW d \in [Ids -> Nat], NEW n \in Nat
  PROVE  /\ Nearest(S, n, d) \subseteq S
         /\ Cardinality(Nearest(S, n, d)) <= n
         /\ Cardinality(S) <= n => Nearest(S, n, d) = S
         /\ S # {} /\ n > 0 => Nearest(S, n, d) # {}
<1> DEFINE place(s) == Cardinality(Preceding(S, s, d))
<1>1. Nearest(S, n, d) = {s \in S : place(s) < n}
  BY DEF Nearest, Preceding
<1>2. /\ Cardinality(S) \in Nat
      /\ \A s \in S : place(s) \in Nat /\ place(s) < Cardinality(S)
      /\ \A r, s \in S : Before(d, r, s) => place(r) < place(s)
      /\ \A r, s \in S : r # s => Before(d, r, s) \/ Before(d, s, r)
  BY PlaceOf
<1> HIDE DEF place
<1>3. Cardinality(Nearest(S, n, d)) <= n
  <2> DEFINE f == [s \in Nearest(S, n, d) |-> place(s)]
             I == 0 .. n - 1
  <2>1. f \in [Nearest(S, n, d) -> I]
    BY <1>1, <1>2
  <2>2. \A r, s \in Nearest(S, n, d) : f[r] = f[s] => r = s
    BY <1>1, <1>2
  <2>3. IsFiniteSet(I) /\ Cardinality(I) = n
    BY FS_Interval
  <2>4. f \in Injection(Nearest(S, n, d), I)
    BY <2>1, <2>2 DEF Injection, IsInjective
  <2> HIDE DEF f, I
  <2> QED
    BY <2>3, <2>4, FS_Injection
<1>4. ASSUME Cardinality(S) <= n PROVE Nearest(S, n, d) = S
  BY <1>1, <1>2, <1>4
<1>5. ASSUME S # {}, n > 0 PROVE Nearest(S, n, d) # {}
  <2> DEFINE T == {place(s) : s \in S}
  <2>1. T \subseteq Nat /\ T # {}
    BY <1>2, <1>5
  <2>2. PICK x \in T : \A y \in T : x <= y
    BY <2>1, Least
  <2>3. PICK s \in S : x = place(s)
    BY <2>2
  <2>4. \A r \in S : ~Before(d, r, s)
    BY <1>2, <2>2, <2>3
  <2>5. Preceding(S, s, d) = {}
    BY <2>4 DEF Preceding
  <2>6. place(s) = 0
    BY <2>5, FS_EmptySet DEF place
  <2> QED
    BY <1>1, <1>5, <2>6
<1> QED
  BY <1>1, <1>3, <1>4, <1>5

\* A search for more than there are answers with all there are.
LEMMA NearestOfFew ==
  ASSUME NEW S \in SUBSET Ids, NEW d \in [Ids -> Nat], NEW k \in Nat
  PROVE  Nearest(S, IF k < Cardinality(S) THEN k ELSE Cardinality(S), d) = Nearest(S, k, d)
<1>1. Cardinality(S) \in Nat
  BY PlaceOf
<1>2. \A n \in Nat : Cardinality(S) <= n => Nearest(S, n, d) = S
  BY NearestIs
<1> DEFINE c == Cardinality(S)
<1> HIDE DEF c
<1>3. c \in Nat /\ \A n \in Nat : c <= n => Nearest(S, n, d) = S
  BY <1>1, <1>2 DEF c
<1>4. Nearest(S, IF k < c THEN k ELSE c, d) = Nearest(S, k, d)
  BY <1>3
<1> QED
  BY <1>4 DEF c
-----------------------------------------------------------------------------
(* insert() *)

\* Linking id to what was found adds links between them only.
LEMMA LinkedAdds ==
  ASSUME NEW links \in Linking, NEW id \in Ids, NEW found \in SUBSET Ids, NEW cap \in Nat,
         NEW d \in [Ids -> Nat]
  PROVE  /\ Linked(links, id, found, cap, d) \in Linking
         /\ \A n \in Ids : Linked(links, id, found, cap, d)[n] \subseteq
              links[n] \cup (IF n = id THEN found ELSE {}) \cup (IF n \in found THEN {id} ELSE {})
<1> DEFINE chosen == Nearest(found, cap, d)
           both == [n \in Ids |-> links[n] \cup (IF n = id THEN chosen ELSE {})
                                           \cup (IF n \in chosen THEN {id} ELSE {})]
           new == [n \in Ids |-> IF n \in both[id] /\ Cardinality(both[n]) > cap
                                 THEN Nearest(both[n], cap, [m \in Ids |-> d[n]]) ELSE both[n]]
<1>1. Linked(links, id, found, cap, d) = new
  BY DEF Linked
<1>2. chosen \subseteq found
  BY NearestIs
<1> HIDE DEF chosen
<1>3. both \in Linking
  BY <1>2 DEF Linking
<1>4. ASSUME NEW n \in Ids PROVE new[n] \subseteq both[n]
  BY <1>4 DEF Nearest
<1>5. \A n \in Ids : both[n] \subseteq
        links[n] \cup (IF n = id THEN found ELSE {}) \cup (IF n \in found THEN {id} ELSE {})
  BY <1>2
<1>6. new = [n \in Ids |-> new[n]]
  OBVIOUS
<1> HIDE DEF both, new
<1>7. new \in Linking
  <2>1. \A n \in Ids : new[n] \in SUBSET Ids
    BY <1>3, <1>4 DEF Linking
  <2> QED
    BY <1>6, <2>1 DEF Linking
<1> QED
  BY <1>1, <1>4, <1>5, <1>7

LEMMA LinkedType ==
  ASSUME NEW links \in Linking, NEW id \in Ids, NEW found \in SUBSET Ids, NEW cap \in Nat,
         NEW d \in [Ids -> Nat]
  PROVE  Linked(links, id, found, cap, d) \in Linking
  BY LinkedAdds

\* A node without links is linked to at most as many as a layer allows, and of
\* the nodes it links back to the full ones drop a link for the new one.
LEMMA LinkedDegree ==
  ASSUME NEW links \in Linking, NEW id \in Ids, NEW found \in SUBSET Ids, NEW cap \in Nat,
         NEW d \in [Ids -> Nat]
  PROVE  links[id] = {} /\ (\A n \in Ids : Cardinality(links[n]) <= cap) =>
           \A n \in Ids : Cardinality(Linked(links, id, found, cap, d)[n]) <= cap
<1>0. SUFFICES ASSUME links[id] = {}, \A n \in Ids : Cardinality(links[n]) <= cap
               PROVE  \A n \in Ids : Cardinality(Linked(links, id, found, cap, d)[n]) <= cap
  OBVIOUS
<1> DEFINE chosen == Nearest(found, cap, d)
           both == [n \in Ids |-> links[n] \cup (IF n = id THEN chosen ELSE {})
                                           \cup (IF n \in chosen THEN {id} ELSE {})]
           new == [n \in Ids |-> IF n \in both[id] /\ Cardinality(both[n]) > cap
                                 THEN Nearest(both[n], cap, [m \in Ids |-> d[n]]) ELSE both[n]]
<1>1. Linked(links, id, found, cap, d) = new
  BY DEF Linked
<1>2. chosen \subseteq found /\ Cardinality(chosen) <= cap
  BY NearestIs
<1> HIDE DEF chosen
<1>3. both \in Linking /\ both[id] = chosen
  BY <1>0, <1>2 DEF Linking
<1>4. ASSUME NEW n \in Ids, n # id, n \notin both[id] PROVE both[n] = links[n]
  BY <1>3, <1>4
<1>5. ASSUME NEW n \in Ids, n \in both[id], Cardinality(both[n]) > cap
      PROVE  Cardinality(new[n]) <= cap
  <2> DEFINE same == [m \in Ids |-> d[n]]
             candidates == both[n]
  <2>1. same \in [Ids -> Nat] /\ candidates \in SUBSET Ids
    BY <1>3 DEF Linking
  <2>2. new[n] = Nearest(candidates, cap, same)
    BY <1>5
  <2> HIDE DEF same, new, both, candidates
  <2> QED
    BY <2>1, <2>2, NearestIs
<1>6. ASSUME NEW n \in Ids, ~(n \in both[id] /\ Cardinality(both[n]) > cap) PROVE new[n] = both[n]
  BY <1>6
<1>7. ASSUME NEW n \in Ids PROVE Cardinality(both[n]) \in Nat
  BY <1>3, LineAssumption, FS_Subset, FS_CardinalityType DEF Linking
<1> HIDE DEF both, new
<1>8. ASSUME NEW n \in Ids PROVE Cardinality(new[n]) <= cap
  <2>1. CASE n \in both[id] /\ Cardinality(both[n]) > cap
    BY <1>5, <2>1
  <2>2. CASE n \in both[id] /\ ~(Cardinality(both[n]) > cap)
    BY <1>6, <1>7, <2>2
  <2>3. CASE n = id /\ n \notin both[id]
    BY <1>2, <1>3, <1>6, <2>3
  <2>4. CASE n # id /\ n \notin both[id]
    BY <1>0, <1>4, <1>6, <2>4
  <2> QED
    BY <2>1, <2>2, <2>3, <2>4
<1> QED
  BY <1>1, <1>8
\* The nodes of S are all joined to each other.
Clique(links, S) == \A a, b \in S : a # b => b \in links[a]

\* A walk of a clique meets all of it, wherever it begins.
LEMMA CliqueReached ==
  ASSUME NEW links \in Linking, NEW S, Closed(links, S), Clique(links, S), NEW eps \in (SUBSET S) \ {{}}
  PROVE  Reached(links, eps) = S
<1>1. PICK e \in eps : e \in S
  OBVIOUS
<1>2. eps \subseteq Reached(links, eps) /\ Reached(links, eps) \subseteq S /\ links[e] \subseteq Reached(links, eps)
  BY ReachedWithin
<1>3. ASSUME NEW b \in S PROVE b \in Reached(links, eps)
  BY <1>1, <1>2 DEF Clique
<1> QED
  BY <1>2, <1>3

\* A node without links that is linked to a clique makes it a greater one, unless
\* it is linked to a node that was full.
LEMMA CliqueGrows ==
  ASSUME NEW links \in Linking, NEW S \in SUBSET Ids, NEW id \in Ids, id \notin S, NEW cap \in Nat, cap > 0,
         NEW d \in [Ids -> Nat]
  PROVE  /\ Clique(links, S)
         /\ links[id] = {}
         /\ \A n \in S : links[n] \subseteq S \ {n}
         /\ \A n \in Ids : n \in Linked(links, id, S, cap, d)[id] => Cardinality(links[n]) < cap
         => Clique(Linked(links, id, S, cap, d), S \cup {id})
<1> DEFINE new == Linked(links, id, S, cap, d)
<1>0. SUFFICES ASSUME Clique(links, S), links[id] = {}, \A n \in S : links[n] \subseteq S \ {n},
                      \A n \in Ids : n \in new[id] => Cardinality(links[n]) < cap
               PROVE  Clique(new, S \cup {id})
  OBVIOUS
<1> DEFINE chosen == Nearest(S, cap, d)
           both == [n \in Ids |-> links[n] \cup (IF n = id THEN chosen ELSE {})
                                           \cup (IF n \in chosen THEN {id} ELSE {})]
<1>1. new = [n \in Ids |-> IF n \in both[id] /\ Cardinality(both[n]) > cap
                           THEN Nearest(both[n], cap, [m \in Ids |-> d[n]]) ELSE both[n]]
  BY DEF Linked
<1>2. /\ chosen \subseteq S
      /\ Cardinality(S) <= cap => chosen = S
      /\ S # {} => chosen # {}
  BY NearestIs
<1> HIDE DEF chosen, new
<1>3. both[id] = chosen
  BY <1>0, <1>2
<1>4. \A n \in S : links[n] = S \ {n}
  BY <1>0 DEF Clique
<1>5. IsFiniteSet(S) /\ Cardinality(S) \in Nat
  BY LineAssumption, FS_Subset, FS_CardinalityType
<1>6. \A n \in S : Cardinality(links[n]) = Cardinality(S) - 1
  BY <1>4, <1>5, FS_RemoveElement
<1>7. new[id] = chosen
  BY <1>1, <1>2, <1>3
<1>8. chosen = S
  <2> SUFFICES ASSUME Cardinality(S) > cap PROVE FALSE
    BY <1>2, <1>5
  <2>1. S # {}
    BY <1>5, FS_EmptySet
  <2>2. PICK n \in chosen : n \in S
    BY <1>2, <2>1
  <2>3. Cardinality(links[n]) < cap
    BY <1>0, <1>7, <2>2
  <2> QED
    BY <1>5, <1>6, <2>2, <2>3
<1>9. ASSUME NEW n \in S PROVE both[n] = (S \ {n}) \cup {id} /\ Cardinality(both[n]) = Cardinality(S)
  <2>1. both[n] = (S \ {n}) \cup {id}
    BY <1>4, <1>8
  <2>2. IsFiniteSet(S \ {n}) /\ Cardinality(S \ {n}) = Cardinality(S) - 1
    BY <1>5, FS_RemoveElement
  <2>3. Cardinality((S \ {n}) \cup {id}) = Cardinality(S \ {n}) + 1
    BY <2>2, FS_AddElement
  <2> HIDE DEF both
  <2> QED
    BY <1>5, <2>1, <2>2, <2>3
<1>10. ASSUME NEW n \in S PROVE Cardinality(S) <= cap
  <2>1. Cardinality(links[n]) < cap
    BY <1>0, <1>7, <1>8
  <2> QED
    BY <1>5, <1>6, <2>1
<1>11. ASSUME NEW n \in S PROVE new[n] = (S \ {n}) \cup {id}
  <2>1. ~(Cardinality(both[n]) > cap)
    <3> HIDE DEF both
    <3> QED
      BY <1>5, <1>9, <1>10
  <2>2. new[n] = both[n]
    <3> HIDE DEF both
    <3> QED
      BY <1>1, <2>1
  <2> QED
    BY <1>9, <2>2
<1> QED
  BY <1>7, <1>8, <1>11 DEF Clique
\* What insert() does to the graph, field by field.
Growth(g, h, id, level, d, found) ==
  /\ h \in Graph
  /\ h.inserted = g.inserted \cup {id}
  /\ h.to_be_inserted = g.to_be_inserted \ {id}
  /\ h.to_be_removed = g.to_be_removed
  /\ h.node_levels = [g.node_levels EXCEPT ![id] = level]
  /\ h.entry_point = IF level > g.max_layer \/ g.entry_point = 0 THEN id ELSE g.entry_point
  /\ h.max_layer = IF level > g.max_layer THEN level ELSE g.max_layer
  /\ \A lc \in Layers :
       h.neighbours[lc] = IF lc > Top(g, level) THEN g.neighbours[lc]
                          ELSE Linked(g.neighbours[lc], id, found[lc], Cap(lc), d)

LEMMA GrownIs ==
  ASSUME NEW g \in Graph, NEW id \in Ids, NEW level \in Layers, NEW d \in [Ids -> Nat], NEW found,
         FoundWithin(found, g, level, Ids)
  PROVE  Growth(g, Grown(g, id, level, d, found), id, level, d, found)
<1>0. \A links \in Linking, F \in SUBSET Ids, cap \in Nat : Linked(links, id, F, cap, d) \in Linking
  BY LinkedType
<1> DEFINE top == Top(g, level)
           new == [lc \in Layers |-> IF lc > top THEN g.neighbours[lc]
                                     ELSE Linked(g.neighbours[lc], id, found[lc], Cap(lc), d)]
           iterated(lc) == g.neighbours[lc][id] \cup Nearest(found[lc], Cap(lc), d)
           odd == g.undefined \/ \E lc \in 0 .. top : id \in iterated(lc) /\ Cardinality(iterated(lc)) > Cap(lc)
           h == Grown(g, id, level, d, found)
<1>1. h = [g EXCEPT !.neighbours = new,
                    !.node_levels = [g.node_levels EXCEPT ![id] = level],
                    !.inserted = g.inserted \cup {id},
                    !.to_be_inserted = g.to_be_inserted \ {id},
                    !.entry_point = IF level > g.max_layer \/ g.entry_point = 0 THEN id ELSE g.entry_point,
                    !.max_layer = IF level > g.max_layer THEN level ELSE g.max_layer,
                    !.undefined = odd]
  BY DEF Grown, Graph
<1>2. ASSUME NEW lc \in Layers PROVE new[lc] \in Linking
  <2>1. g.neighbours[lc] \in Linking /\ Cap(lc) \in Nat
    BY GraphLinks, LayersAssumption DEF Cap
  <2>2. CASE lc > top
    BY <2>1, <2>2
  <2>3. CASE ~(lc > top)
    <3>1. lc \in 0 .. top
      BY <2>3, GraphLinks DEF Layers, Top
    <3>2. found[lc] \in SUBSET Ids
      BY <3>1 DEF FoundWithin
    <3>3. Linked(g.neighbours[lc], id, found[lc], Cap(lc), d) \in Linking
      BY <1>0, <2>1, <3>2
    <3> QED
      BY <2>3, <3>3
  <2> QED
    BY <2>2, <2>3
<1>3. new \in [Layers -> Linking] /\ \A lc \in Layers : new[lc] = IF lc > top THEN g.neighbours[lc]
                                         ELSE Linked(g.neighbours[lc], id, found[lc], Cap(lc), d)
  BY <1>2
<1>4. level \in -1 .. MaxLevel /\ odd \in BOOLEAN
  <2>1. odd \in BOOLEAN
    BY DEF Graph
  <2> QED
    BY <2>1, LayersAssumption DEF Layers
<1> HIDE DEF new, odd, h
<1>5. h \in Graph
  BY <1>1, <1>3, <1>4 DEF Graph, Linking
<1>6. /\ h.neighbours = new
      /\ h.inserted = g.inserted \cup {id}
      /\ h.to_be_inserted = g.to_be_inserted \ {id}
      /\ h.to_be_removed = g.to_be_removed
      /\ h.node_levels = [g.node_levels EXCEPT ![id] = level]
      /\ h.entry_point = IF level > g.max_layer \/ g.entry_point = 0 THEN id ELSE g.entry_point
      /\ h.max_layer = IF level > g.max_layer THEN level ELSE g.max_layer
  BY <1>1 DEF Graph
<1> QED
  BY <1>3, <1>5, <1>6 DEF h, Growth

\* insert() of an id that has a vector, with all it may meet in S.
LEMMA InsertsIs ==
  ASSUME NEW g \in Graph, NEW S, Within(g, S), NEW id \in Ids, NEW level \in Layers, NEW vecs \in Stored,
         vecs[id] # Nil, IF g.entry_point = 0 THEN id \in S ELSE g.entry_point \in S,
         NEW h \in Inserts(g, id, level, vecs)
  PROVE  \E d, found : /\ d \in [Ids -> Nat] /\ h = Grown(g, id, level, d, found)
                      /\ FoundWithin(found, g, level, S)
<1> DEFINE ep == IF g.entry_point = 0 THEN id ELSE g.entry_point
           d == From(vecs[id], vecs)
<1>1. d \in [Ids -> Nat] /\ ep \in S
  BY FromType DEF Stored
<1>2. PICK e \in Landings(g, d, ep, level) : h = Inserted(g, id, level, d, e)
  BY DEF Inserts
<1> HIDE DEF d, ep
<1>3. e \in S
  BY <1>1, LandingsWithin
<1>4. \E found : h = Grown(g, id, level, d, found) /\ FoundWithin(found, g, level, S)
  BY <1>1, <1>2, <1>3, InsertedFrom
<1> QED
  BY <1>1, <1>4

\* insert() of an id whose vector is gone.
NoGrowth(g, h, id, level) ==
  /\ h \in Graph
  /\ h.neighbours = g.neighbours /\ h.inserted = g.inserted
  /\ h.to_be_inserted = g.to_be_inserted \ {id} /\ h.to_be_removed = g.to_be_removed
  /\ h.node_levels = [g.node_levels EXCEPT ![id] = level]
  /\ h.entry_point = (IF g.entry_point = 0 THEN id ELSE g.entry_point)
  /\ h.max_layer = g.max_layer

LEMMA InsertsNothing ==
  ASSUME NEW g \in Graph, NEW id \in Ids, NEW level \in Layers, NEW vecs, vecs[id] = Nil,
         NEW h \in Inserts(g, id, level, vecs)
  PROVE  NoGrowth(g, h, id, level)
<1>1. level \in -1 .. MaxLevel
  BY LayersAssumption DEF Layers
<1> DEFINE ep == IF g.entry_point = 0 THEN id ELSE g.entry_point
<1>2. h = [g EXCEPT !.node_levels = [g.node_levels EXCEPT ![id] = level], !.entry_point = ep,
                    !.to_be_inserted = g.to_be_inserted \ {id}]
  BY DEF Inserts, Graph
<1>3. ep \in Ids \cup {0} /\ [g.node_levels EXCEPT ![id] = level] \in [Ids -> -1 .. MaxLevel]
  BY <1>1 DEF Graph
<1> HIDE DEF ep
<1>4. h \in Graph
  BY <1>2, <1>3 DEF Graph
<1> QED
  BY <1>2, <1>4 DEF Graph, ep, NoGrowth

-----------------------------------------------------------------------------
(* build() *)

\* What taking out the removed ids does to the graph, field by field.
Pruning(g, h) ==
  /\ h \in Graph
  /\ h.inserted = g.inserted \ g.to_be_removed
  /\ h.to_be_inserted = g.to_be_inserted /\ h.to_be_removed = {}
  /\ h.node_levels = [id \in Ids |-> IF id \in g.to_be_removed THEN -1 ELSE g.node_levels[id]]
  /\ h.max_layer = g.max_layer
  /\ \/ h.entry_point = g.entry_point
     \/ /\ g.entry_point # 0 /\ g.entry_point \notin h.inserted
        /\ \/ h.inserted = {} /\ h.entry_point = 0
           \/ h.entry_point \in h.inserted
  /\ \A lc \in Layers : h.neighbours[lc] = WithoutLinks(g.neighbours[lc], g.to_be_removed)

LEMMA PrunesIs ==
  ASSUME NEW g \in Graph, NEW h \in Prunes(g)
  PROVE  Pruning(g, h)
<1> DEFINE gone == g.to_be_removed
           rest == g.inserted \ gone
           tops == {id \in rest : g.node_levels[id] = g.max_layer}
           entries == IF g.entry_point = 0 \/ g.entry_point \in rest THEN {g.entry_point}
                      ELSE IF rest = {} THEN {0}
                      ELSE IF tops = {} THEN {g.entry_point} ELSE tops
           new == [lc \in Layers |-> WithoutLinks(g.neighbours[lc], gone)]
           levels == [id \in Ids |-> IF id \in gone THEN -1 ELSE g.node_levels[id]]
           odd == g.undefined \/ \E lc \in Layers, id \in gone : id \in g.neighbours[lc][id]
<1>1. PICK e \in entries : h = [g EXCEPT !.neighbours = new, !.node_levels = levels, !.inserted = rest,
                                         !.entry_point = e, !.undefined = odd, !.to_be_removed = {}]
  BY DEF Prunes, Graph
<1>2. new \in [Layers -> [Ids -> SUBSET Ids]]
  BY DEF Graph, WithoutLinks
<1>3. levels \in [Ids -> -1 .. MaxLevel]
  BY LayersAssumption DEF Graph
<1>4. odd \in BOOLEAN /\ rest \in SUBSET Ids
  BY DEF Graph
<1>5. e \in Ids \cup {0}
  BY DEF Graph
<1>6. \/ e = g.entry_point
      \/ g.entry_point # 0 /\ g.entry_point \notin rest /\ ((rest = {} /\ e = 0) \/ e \in rest)
  OBVIOUS
<1>7. \A lc \in Layers : new[lc] = WithoutLinks(g.neighbours[lc], gone)
  OBVIOUS
<1> HIDE DEF new, levels, odd, rest, entries
<1>8. h \in Graph
  BY <1>1, <1>2, <1>3, <1>4, <1>5 DEF Graph
<1>9. /\ h.neighbours = new /\ h.node_levels = levels /\ h.inserted = rest /\ h.entry_point = e
      /\ h.to_be_inserted = g.to_be_inserted /\ h.to_be_removed = {} /\ h.max_layer = g.max_layer
  BY <1>1 DEF Graph
<1> QED
  BY <1>6, <1>7, <1>8, <1>9 DEF rest, levels, Pruning
-----------------------------------------------------------------------------
(* What holds of a graph through inserts and builds *)

LEMMA InsertsType ==
  ASSUME NEW g \in Graph, NEW id \in Ids, NEW level \in Layers, NEW vecs \in Stored,
         NEW h \in Inserts(g, id, level, vecs)
  PROVE  h \in Graph
<1>1. CASE vecs[id] = Nil
  BY <1>1, InsertsNothing DEF NoGrowth
<1>2. CASE vecs[id] # Nil
  <2>1. Within(g, Ids)
    BY DEF Within, Closed, Graph
  <2>2. IF g.entry_point = 0 THEN id \in Ids ELSE g.entry_point \in Ids
    BY DEF Graph
  <2>3. PICK d, found : d \in [Ids -> Nat] /\ h = Grown(g, id, level, d, found) /\ FoundWithin(found, g, level, Ids)
    BY <1>2, <2>1, <2>2, InsertsIs
  <2> QED
    BY <2>3, GrownIs DEF Growth
<1> QED
  BY <1>1, <1>2

\* A sound graph is only ever linked within.
LEMMA SoundWithin ==
  ASSUME NEW g \in Graph, Sound(g)
  PROVE  Within(g, g.inserted) /\ \A lc \in Layers, id \in Ids \ g.inserted : g.neighbours[lc][id] = {}
<1>1. g.inserted \subseteq Ids
  BY DEF Graph
<1>2. \A lc \in Layers, id \in Ids : g.neighbours[lc][id] \subseteq IF id \in g.inserted THEN g.inserted \ {id} ELSE {}
  BY DEF Sound, LinksJoinNodes
<1> QED
  BY <1>1, <1>2 DEF Within, Closed

\* The insert of a new id with a vector into a sound graph meets nodes only.
LEMMA InsertsSoundly ==
  ASSUME NEW g \in Graph, Sound(g), NEW id \in Ids, id \notin g.inserted, NEW level \in Layers,
         NEW vecs \in Stored, vecs[id] # Nil, NEW h \in Inserts(g, id, level, vecs)
  PROVE  \E d, found : /\ d \in [Ids -> Nat] /\ h = Grown(g, id, level, d, found)
                      /\ FoundWithin(found, g, level, g.inserted)
<1>1. CASE g.inserted = {}
  <2>1. g.entry_point = 0 /\ g.max_layer = -1
    BY <1>1 DEF Sound, EntryIsTop
  <2>2. Within(g, Ids)
    BY DEF Within, Closed, Graph
  <2>3. PICK d, found : d \in [Ids -> Nat] /\ h = Grown(g, id, level, d, found) /\ FoundWithin(found, g, level, Ids)
    BY <2>1, <2>2, InsertsIs
  <2>4. 0 .. Top(g, level) = {}
    BY <2>1 DEF Top, Layers
  <2> QED
    BY <2>3, <2>4 DEF FoundWithin
<1>2. CASE g.inserted # {}
  <2>1. g.entry_point # 0 /\ g.entry_point \in g.inserted
    BY <1>2 DEF Sound, EntryIsTop
  <2> DEFINE S == g.inserted
  <2>2. Within(g, S) /\ IF g.entry_point = 0 THEN id \in S ELSE g.entry_point \in S
    BY <2>1, SoundWithin
  <2> HIDE DEF S
  <2>3. \E d, found : d \in [Ids -> Nat] /\ h = Grown(g, id, level, d, found) /\ FoundWithin(found, g, level, S)
    BY <2>2, InsertsIs
  <2> QED
    BY <2>3 DEF S
<1> QED
  BY <1>1, <1>2

\* No node has more neighbours than its layer allows.
Fitting(g) == \A lc \in Layers, id \in Ids : Cardinality(g.neighbours[lc][id]) <= Cap(lc)

LEMMA InsertsFitting ==
  ASSUME NEW g \in Graph, Sound(g), NEW id \in Ids, id \notin g.inserted, NEW level \in Layers,
         NEW vecs \in Stored, NEW h \in Inserts(g, id, level, vecs)
  PROVE  Fitting(g) => Fitting(h)
<1>0. SUFFICES ASSUME Fitting(g) PROVE Fitting(h)
  OBVIOUS
<1>1. CASE vecs[id] = Nil
  <2>1. NoGrowth(g, h, id, level)
    BY <1>1, InsertsNothing
  <2> QED
    BY <1>0, <2>1 DEF Fitting, NoGrowth
<1>2. CASE vecs[id] # Nil
  <2>1. PICK d, found : d \in [Ids -> Nat] /\ h = Grown(g, id, level, d, found) /\ FoundWithin(found, g, level, g.inserted)
    BY <1>2, InsertsSoundly
  <2>2. FoundWithin(found, g, level, Ids)
    BY <2>1 DEF FoundWithin, Graph
  <2>3. Growth(g, h, id, level, d, found)
    BY <2>1, <2>2, GrownIs
  <2>4. ASSUME NEW lc \in Layers, ~(lc > Top(g, level))
        PROVE  \A n \in Ids : Cardinality(h.neighbours[lc][n]) <= Cap(lc)
    <3> DEFINE links == g.neighbours[lc]
               cap == Cap(lc)
               F == found[lc]
    <3>1. lc \in 0 .. Top(g, level)
      BY <2>4, GraphLinks DEF Layers, Top
    <3>2. links \in Linking /\ F \in SUBSET Ids /\ cap \in Nat /\ d \in [Ids -> Nat] /\ links[id] = {}
      BY <2>1, <2>2, <3>1, SoundWithin, GraphLinks, LayersAssumption DEF FoundWithin, Cap
    <3>3. \A n \in Ids : Cardinality(links[n]) <= cap
      BY <1>0 DEF Fitting
    <3>4. h.neighbours[lc] = Linked(links, id, F, cap, d)
      BY <2>3, <2>4 DEF Growth
    <3> HIDE DEF links, cap, F
    <3>5. \A n \in Ids : Cardinality(Linked(links, id, F, cap, d)[n]) <= cap
      BY <3>2, <3>3, LinkedDegree
    <3> QED
      BY <3>4, <3>5 DEF cap
  <2>5. ASSUME NEW lc \in Layers, lc > Top(g, level)
        PROVE  \A n \in Ids : Cardinality(h.neighbours[lc][n]) <= Cap(lc)
    BY <1>0, <2>3, <2>5 DEF Fitting, Growth
  <2> QED
    BY <2>4, <2>5 DEF Fitting
<1> QED
  BY <1>1, <1>2

LEMMA PrunesFitting ==
  ASSUME NEW g \in Graph, NEW h \in Prunes(g)
  PROVE  Fitting(g) => Fitting(h)
<1>0. SUFFICES ASSUME Fitting(g), NEW lc \in Layers, NEW n \in Ids
               PROVE  Cardinality(h.neighbours[lc][n]) <= Cap(lc)
  BY DEF Fitting
<1> DEFINE A == g.neighbours[lc][n]
           B == h.neighbours[lc][n]
<1>1. A \in SUBSET Ids /\ B \in SUBSET A
  <2>1. Pruning(g, h)
    BY PrunesIs
  <2>2. h.neighbours[lc] = WithoutLinks(g.neighbours[lc], g.to_be_removed)
    BY <2>1 DEF Pruning
  <2>3. A \in SUBSET Ids
    BY DEF Graph
  <2> QED
    BY <2>2, <2>3 DEF WithoutLinks
<1>2. Cardinality(A) <= Cap(lc) /\ Cap(lc) \in Nat
  BY <1>0, LayersAssumption DEF Fitting, Cap
<1> HIDE DEF A, B
<1>3. IsFiniteSet(A) /\ Cardinality(A) \in Nat
  BY <1>1, LineAssumption, FS_Subset, FS_CardinalityType
<1>4. Cardinality(B) <= Cardinality(A) /\ Cardinality(B) \in Nat
  BY <1>1, <1>3, FS_Subset, FS_CardinalityType
<1> QED
  BY <1>2, <1>3, <1>4 DEF B
\* The levels of the nodes are theirs, and an id that waits to be inserted and
\* has a node waits for the node to be removed.
Ordered(g) ==
  /\ g.to_be_inserted \cap g.inserted \subseteq g.to_be_removed
  /\ \A id \in g.inserted : g.node_levels[id] >= 0

LEMMA InsertsOrdered ==
  ASSUME NEW g \in Graph, Ordered(g), NEW id \in Ids, NEW level \in Layers,
         NEW vecs \in Stored, NEW h \in Inserts(g, id, level, vecs)
  PROVE  Ordered(h) /\ h.to_be_removed = g.to_be_removed
                    /\ h.to_be_inserted = g.to_be_inserted \ {id}
                    /\ h.inserted = IF vecs[id] = Nil THEN g.inserted ELSE g.inserted \cup {id}
<1>1. level >= 0
  BY DEF Layers
<1>2. CASE vecs[id] = Nil
  <2>1. NoGrowth(g, h, id, level)
    BY <1>2, InsertsNothing
  <2> QED
    BY <1>1, <1>2, <2>1 DEF NoGrowth, Ordered, Graph
<1>3. CASE vecs[id] # Nil
  <2>1. PICK d, found : d \in [Ids -> Nat] /\ Growth(g, h, id, level, d, found)
    <3>1. Within(g, Ids)
      BY DEF Within, Closed, Graph
    <3>2. IF g.entry_point = 0 THEN id \in Ids ELSE g.entry_point \in Ids
      BY DEF Graph
    <3> QED
      BY <1>3, <3>1, <3>2, InsertsIs, GrownIs
  <2> QED
    BY <1>1, <1>3, <2>1 DEF Growth, Ordered, Graph
<1> QED
  BY <1>2, <1>3

LEMMA PrunesOrdered ==
  ASSUME NEW g \in Graph, Ordered(g), NEW h \in Prunes(g)
  PROVE  Ordered(h)
<1>1. Pruning(g, h)
  BY PrunesIs
<1> QED
  BY <1>1 DEF Pruning, Ordered, Graph
\* The insert of a new id with a vector keeps a graph sound, unless the id is 0
\* and becomes the entry point.
LEMMA InsertsSound ==
  ASSUME NEW g \in Graph, Sound(g), Ordered(g), NEW id \in Ids, id \notin g.inserted, NEW level \in Layers,
         NEW vecs \in Stored, vecs[id] # Nil, NEW h \in Inserts(g, id, level, vecs), h.entry_point # 0
  PROVE  Sound(h)
<1>1. PICK d, found : d \in [Ids -> Nat] /\ h = Grown(g, id, level, d, found) /\ FoundWithin(found, g, level, g.inserted)
  BY InsertsSoundly
<1>2. FoundWithin(found, g, level, Ids)
  BY <1>1 DEF FoundWithin, Graph
<1>3. Growth(g, h, id, level, d, found)
  BY <1>1, <1>2, GrownIs
<1>4. EntryIsTop(g) /\ LinksJoinNodes(g)
  BY DEF Sound
<1>5. EntryIsTop(h)
  <2>1. h.inserted # {} /\ id \in Ids /\ level \in Nat /\ h.entry_point # 0
    BY <1>3 DEF Growth, Layers
  <2>2. h.node_levels[id] = level /\ \A m \in Ids \ {id} : h.node_levels[m] = g.node_levels[m]
    BY <1>3 DEF Growth, Graph
  <2>3. CASE g.inserted = {}
    <3>1. h.entry_point = id /\ h.max_layer = level
      BY <1>3, <1>4, <2>1, <2>3 DEF Growth, EntryIsTop
    <3> QED
      BY <1>3, <2>1, <2>2, <3>1 DEF Growth, EntryIsTop
  <2>4. CASE g.inserted # {}
    <3>1. g.entry_point \in g.inserted \ {0} /\ g.node_levels[g.entry_point] = g.max_layer /\ g.entry_point # id
      BY <1>4, <2>4 DEF EntryIsTop
    <3>2. g.entry_point \in Ids
      BY <3>1 DEF Graph
    <3> QED
      BY <1>3, <2>1, <2>2, <3>1, <3>2 DEF Growth, EntryIsTop
  <2> QED
    BY <2>3, <2>4
<1>6. ASSUME NEW lc \in Layers, NEW n \in Ids
      PROVE  h.neighbours[lc][n] \subseteq IF n \in h.inserted THEN h.inserted \ {n} ELSE {}
  <2>1. /\ h.inserted = g.inserted \cup {id}
        /\ h.neighbours[lc] = IF lc > Top(g, level) THEN g.neighbours[lc]
                              ELSE Linked(g.neighbours[lc], id, found[lc], Cap(lc), d)
    BY <1>3 DEF Growth
  <2>2. g.neighbours[lc][n] \subseteq IF n \in g.inserted THEN g.inserted \ {n} ELSE {}
    BY <1>4 DEF LinksJoinNodes
  <2>3. CASE lc > Top(g, level)
    BY <2>1, <2>2, <2>3
  <2>4. CASE ~(lc > Top(g, level))
    <3> DEFINE links == g.neighbours[lc]
               cap == Cap(lc)
               F == found[lc]
    <3>1. lc \in 0 .. Top(g, level)
      BY <2>4, GraphLinks DEF Layers, Top
    <3>2. links \in Linking /\ F \in SUBSET Ids /\ cap \in Nat /\ d \in [Ids -> Nat]
      BY <1>1, <1>2, <3>1, GraphLinks, LayersAssumption DEF FoundWithin, Cap
    <3>3. h.neighbours[lc] = Linked(links, id, F, cap, d)
      BY <2>1, <2>4
    <3>4. F \subseteq g.inserted
      BY <1>1, <3>1 DEF FoundWithin
    <3>5. links[n] \subseteq IF n \in g.inserted THEN g.inserted \ {n} ELSE {}
      BY <2>2
    <3> HIDE DEF links, cap, F
    <3>6. \A x \in Ids : Linked(links, id, F, cap, d)[x] \subseteq
            links[x] \cup (IF x = id THEN F ELSE {}) \cup (IF x \in F THEN {id} ELSE {})
      BY <3>2, LinkedAdds
    <3>7. h.neighbours[lc][n] \subseteq links[n] \cup (IF n = id THEN F ELSE {}) \cup (IF n \in F THEN {id} ELSE {})
      BY <3>3, <3>6
    <3> QED
      BY <2>1, <3>4, <3>5, <3>7
  <2> QED
    BY <2>3, <2>4
<1> QED
  BY <1>5, <1>6 DEF Sound, LinksJoinNodes

\* build() keeps a graph sound that loses neither its entry point nor a node
\* which another one has a one-sided link to.
LEMMA PrunesSound ==
  ASSUME NEW g \in Graph, Sound(g), NEW h \in Prunes(g), g.entry_point \notin g.to_be_removed,
         \A id \in g.to_be_removed : ~OneSided(g, id)
  PROVE  Sound(h)
<1>1. Pruning(g, h)
  BY PrunesIs
<1>2. EntryIsTop(g) /\ LinksJoinNodes(g)
  BY DEF Sound
<1>3. EntryIsTop(h)
  <2>1. CASE g.inserted = {}
    BY <1>1, <1>2, <2>1 DEF EntryIsTop, Pruning
  <2>2. CASE g.inserted # {}
    <3>1. g.entry_point \in Ids /\ g.entry_point \in g.inserted /\ g.entry_point # 0
          /\ g.node_levels[g.entry_point] = g.max_layer
      BY <1>2, <2>2 DEF EntryIsTop, Graph
    <3>2. h.entry_point = g.entry_point /\ g.entry_point \in h.inserted
      BY <1>1, <3>1 DEF Pruning
    <3>3. h.node_levels[g.entry_point] = g.max_layer /\ h.max_layer = g.max_layer
      BY <1>1, <3>1 DEF Pruning
    <3> QED
      BY <3>1, <3>2, <3>3 DEF EntryIsTop
  <2> QED
    BY <2>1, <2>2
<1>4. ASSUME NEW lc \in Layers, NEW n \in Ids
      PROVE  h.neighbours[lc][n] \subseteq IF n \in h.inserted THEN h.inserted \ {n} ELSE {}
  <2> DEFINE links == g.neighbours[lc]
             gone == g.to_be_removed
  <2>1. h.inserted = g.inserted \ gone /\ h.neighbours[lc] = WithoutLinks(links, gone)
    BY <1>1 DEF Pruning
  <2>2. links[n] \subseteq IF n \in g.inserted THEN g.inserted \ {n} ELSE {}
    BY <1>2 DEF LinksJoinNodes
  <2>3. \A m \in links[n] : m \in gone => n \in links[m]
    BY DEF OneSided
  <2> HIDE DEF links, gone
  <2>4. h.neighbours[lc][n] = IF n \in gone THEN {} ELSE {m \in links[n] : m \notin gone \/ n \notin links[m]}
    BY <2>1 DEF WithoutLinks
  <2> QED
    BY <2>1, <2>2, <2>3, <2>4
<1> QED
  BY <1>3, <1>4 DEF Sound, LinksJoinNodes

\* In layer 0 all nodes are joined.
Full(g) == Clique(g.neighbours[0], g.inserted)

LEMMA InsertsFull ==
  ASSUME NEW g \in Graph, Sound(g), Ordered(g), NEW id \in Ids, id \notin g.inserted, NEW level \in Layers,
         NEW vecs \in Stored, NEW h \in Inserts(g, id, level, vecs), Full(g), ~Crowds(g, h, id)
  PROVE  Full(h)
<1>1. CASE vecs[id] = Nil
  <2>1. NoGrowth(g, h, id, level)
    BY <1>1, InsertsNothing
  <2> QED
    BY <2>1 DEF Full, NoGrowth
<1>2. CASE vecs[id] # Nil
  <2>1. PICK d, found : d \in [Ids -> Nat] /\ h = Grown(g, id, level, d, found) /\ FoundWithin(found, g, level, g.inserted)
    BY <1>2, InsertsSoundly
  <2>2. FoundWithin(found, g, level, Ids)
    BY <2>1 DEF FoundWithin, Graph
  <2>3. Growth(g, h, id, level, d, found)
    BY <2>1, <2>2, GrownIs
  <2>4. CASE g.inserted = {}
    BY <2>3, <2>4 DEF Growth, Full, Clique
  <2>5. CASE g.inserted # {}
    <3> DEFINE S == g.inserted
               links == g.neighbours[0]
               cap == Cap(0)
    <3>1. 0 \in Layers /\ 0 \in 0 .. Top(g, level) /\ ~(0 > Top(g, level))
      <4>1. g.entry_point \in S /\ g.max_layer >= 0
        BY <2>5 DEF Sound, EntryIsTop, Ordered
      <4> QED
        BY <4>1, LayersAssumption, GraphLinks DEF Layers, Top
    <3>2. h.neighbours[0] = Linked(links, id, found[0], cap, d)
      BY <2>3, <3>1 DEF Growth
    <3>3. links \in Linking /\ cap \in Nat /\ cap > 0 /\ S \in SUBSET Ids /\ id \notin S /\ d \in [Ids -> Nat]
      BY <2>1, <3>1, GraphLinks, LayersAssumption DEF Cap, Graph
    <3>4. Closed(links, S) /\ links[id] = {} /\ Clique(links, S)
      BY <3>1, SoundWithin DEF Within, Full
    <3>5. \A n \in S : links[n] \subseteq S \ {n}
      BY <3>1, <3>3 DEF Sound, LinksJoinNodes
    <3>6. \A n \in Ids : n \in h.neighbours[0][id] => Cardinality(links[n]) < cap
      <4>1. \A n \in Ids : Cardinality(links[n]) \in Nat
        BY <3>3, LineAssumption, FS_Subset, FS_CardinalityType DEF Linking
      <4>2. \A n \in Ids : n \in h.neighbours[0][id] => ~(Cardinality(links[n]) >= cap)
        BY DEF Crowds
      <4> HIDE DEF links, cap
      <4> QED
        BY <3>3, <4>1, <4>2
    <3>7. PICK eps \in (SUBSET S) \ {{}} : found[0] = Reached(links, eps)
      BY <2>1, <3>1 DEF FoundWithin
    <3>8. h.inserted = S \cup {id}
      BY <2>3 DEF Growth
    <3> HIDE DEF S, links, cap
    <3>9. found[0] = S
      BY <3>3, <3>4, <3>7, CliqueReached
    <3>10. \A n \in Ids : n \in Linked(links, id, S, cap, d)[id] => Cardinality(links[n]) < cap
      BY <3>2, <3>6, <3>9
    <3>11. Clique(Linked(links, id, S, cap, d), S \cup {id})
      BY <3>3, <3>4, <3>5, <3>10, CliqueGrows
    <3> QED
      BY <3>2, <3>8, <3>9, <3>11 DEF Full
  <2> QED
    BY <2>4, <2>5
<1> QED
  BY <1>1, <1>2

LEMMA PrunesFull ==
  ASSUME NEW g \in Graph, NEW h \in Prunes(g), Full(g)
  PROVE  Full(h)
<1>1. Pruning(g, h) /\ 0 \in Layers
  BY PrunesIs, LayersAssumption DEF Layers
<1> DEFINE links == g.neighbours[0]
           gone == g.to_be_removed
<1>2. h.inserted = g.inserted \ gone /\ h.neighbours[0] = WithoutLinks(links, gone) /\ g.inserted \subseteq Ids
  BY <1>1 DEF Pruning, Graph
<1>3. \A a, b \in g.inserted : a # b => b \in links[a]
  BY DEF Full, Clique
<1> HIDE DEF links, gone
<1>4. \A a, b \in g.inserted \ gone : a # b => b \in WithoutLinks(links, gone)[a]
  BY <1>2, <1>3 DEF WithoutLinks
<1> QED
  BY <1>2, <1>4 DEF Full, Clique
\* A walk of the graph, sound or not, comes upon ids of S only.
Knows(g, S) ==
  /\ g.inserted \subseteq S /\ S \subseteq Ids
  /\ \A lc \in Layers, id \in Ids : g.neighbours[lc][id] \subseteq S
  /\ g.entry_point \in S \cup {0}
  /\ g.inserted # {} => g.entry_point \in S

LEMMA InsertsKnows ==
  ASSUME NEW g \in Graph, NEW S, Knows(g, S), NEW id \in Ids, NEW level \in Layers,
         NEW vecs \in Stored, NEW h \in Inserts(g, id, level, vecs)
  PROVE  Knows(h, S \cup {id})
<1>1. CASE vecs[id] = Nil
  <2>1. NoGrowth(g, h, id, level)
    BY <1>1, InsertsNothing
  <2> QED
    BY <2>1 DEF Knows, NoGrowth
<1>2. CASE vecs[id] # Nil
  <2> DEFINE T == S \cup {id}
  <2>1. Within(g, T)
    BY DEF Knows, Within, Closed
  <2>2. IF g.entry_point = 0 THEN id \in T ELSE g.entry_point \in T
    BY DEF Knows
  <2>3. T \subseteq Ids /\ S \subseteq T /\ id \in T
    BY DEF Knows
  <2> HIDE DEF T
  <2>4. PICK d, found : d \in [Ids -> Nat] /\ h = Grown(g, id, level, d, found) /\ FoundWithin(found, g, level, T)
    BY <1>2, <2>1, <2>2, InsertsIs
  <2>5. FoundWithin(found, g, level, Ids)
    BY <2>3, <2>4 DEF FoundWithin
  <2>6. Growth(g, h, id, level, d, found)
    BY <2>4, <2>5, GrownIs
  <2>7. ASSUME NEW lc \in Layers, NEW n \in Ids PROVE h.neighbours[lc][n] \subseteq T
    <3> DEFINE links == g.neighbours[lc]
               cap == Cap(lc)
               F == found[lc]
    <3>1. links[n] \subseteq S
      BY DEF Knows
    <3>2. h.neighbours[lc] = IF lc > Top(g, level) THEN links ELSE Linked(links, id, F, cap, d)
      BY <2>6 DEF Growth
    <3>3. CASE lc > Top(g, level)
      BY <2>3, <3>1, <3>2, <3>3
    <3>4. CASE ~(lc > Top(g, level))
      <4>1. lc \in 0 .. Top(g, level)
        BY <3>4, GraphLinks DEF Layers, Top
      <4>2. links \in Linking /\ F \in SUBSET Ids /\ F \subseteq T /\ cap \in Nat /\ d \in [Ids -> Nat]
        BY <2>3, <2>4, <4>1, GraphLinks, LayersAssumption DEF FoundWithin, Cap
      <4> HIDE DEF links, cap, F
      <4>3. \A x \in Ids : Linked(links, id, F, cap, d)[x] \subseteq
              links[x] \cup (IF x = id THEN F ELSE {}) \cup (IF x \in F THEN {id} ELSE {})
        BY <4>2, LinkedAdds
      <4>4. h.neighbours[lc][n] \subseteq links[n] \cup (IF n = id THEN F ELSE {}) \cup (IF n \in F THEN {id} ELSE {})
        BY <3>2, <3>4, <4>3
      <4> QED
        BY <2>3, <3>1, <4>2, <4>4
    <3> QED
      BY <3>3, <3>4
  <2>8. h.inserted \subseteq T /\ h.entry_point \in T
    BY <2>3, <2>6 DEF Knows, Growth
  <2> QED
    BY <2>3, <2>7, <2>8 DEF Knows, T
<1> QED
  BY <1>1, <1>2

LEMMA PrunesKnows ==
  ASSUME NEW g \in Graph, NEW S, Knows(g, S), NEW h \in Prunes(g)
  PROVE  Knows(h, S)
<1>1. Pruning(g, h)
  BY PrunesIs
<1>2. ASSUME NEW lc \in Layers, NEW n \in Ids PROVE h.neighbours[lc][n] \subseteq S
  <2>1. h.neighbours[lc] = WithoutLinks(g.neighbours[lc], g.to_be_removed) /\ g.neighbours[lc][n] \subseteq S
    BY <1>1 DEF Pruning, Knows
  <2> QED
    BY <2>1 DEF WithoutLinks
<1> QED
  BY <1>1, <1>2 DEF Pruning, Knows

\* What a search answers with comes from S.
LEMMA AnswersKnown ==
  ASSUME NEW g \in Graph, NEW S, Knows(g, S), NEW vecs \in Stored, NEW q \in Vals, NEW k \in Nat,
         NEW a \in Answers(g, vecs, q, k)
  PROVE  IF g.inserted = {} THEN a = {} ELSE a \subseteq S
<1>1. CASE g.inserted = {}
  BY <1>1 DEF Answers
<1>2. CASE g.inserted # {}
  <2> DEFINE d == From(q, vecs)
             n == IF k < Cardinality(g.inserted) THEN k ELSE Cardinality(g.inserted)
             links == g.neighbours[0]
  <2>1. PICK e \in Landings(g, d, g.entry_point, 0) : a = Nearest(Reached(links, {e}), n, d)
    BY <1>2 DEF Answers
  <2>2. d \in [Ids -> Nat] /\ 0 \in Layers /\ g.entry_point \in S /\ Within(g, S)
    BY <1>2, FromType, LayersAssumption DEF Layers, Knows, Within, Closed
  <2> HIDE DEF d, n
  <2>3. e \in S
    BY <2>2, LandingsWithin
  <2>4. links \in Linking /\ Closed(links, S)
    BY <2>2, GraphLinks DEF Within
  <2> DEFINE one == {e}
  <2>5. one \in SUBSET S
    BY <2>3
  <2> HIDE DEF links, one
  <2>6. Reached(links, one) \subseteq S
    BY <2>4, <2>5, ReachedWithin
  <2> QED
    BY <1>2, <2>1, <2>6 DEF one, Nearest
<1> QED
  BY <1>1, <1>2

\* A sound graph with all nodes joined in layer 0, of all ids with a vector,
\* answers what the brute-force search does.
LEMMA AnswersExact ==
  ASSUME NEW g \in Graph, Sound(g), Full(g), NEW vecs \in Stored, g.inserted = Present(vecs),
         NEW q \in Vals, NEW k \in Nat
  PROVE  Answers(g, vecs, q, k) = {Exact(vecs, q, k)}
<1> DEFINE d == From(q, vecs)
           S == g.inserted
           n == IF k < Cardinality(S) THEN k ELSE Cardinality(S)
           links == g.neighbours[0]
           ends == Landings(g, d, g.entry_point, 0)
<1>1. d \in [Ids -> Nat] /\ 0 \in Layers /\ S \in SUBSET Ids
  BY FromType, LayersAssumption DEF Layers, Graph
<1>2. Exact(vecs, q, k) = Nearest(S, k, d)
  BY DEF Exact
<1>3. CASE S = {}
  BY <1>2, <1>3 DEF Answers, Nearest
<1>4. CASE S # {}
  <2>1. g.entry_point \in S /\ Within(g, S)
    BY <1>4, SoundWithin DEF Sound, EntryIsTop
  <2>2. links \in Linking /\ Closed(links, S) /\ Clique(links, S)
    BY <1>1, <2>1, GraphLinks DEF Within, Full
  <2>3. Answers(g, vecs, q, k) = {Nearest(Reached(links, {e}), n, d) : e \in ends}
    BY <1>4 DEF Answers
  <2> HIDE DEF d, S, links
  <2>4. ends \subseteq S /\ ends # {}
    BY <1>1, <2>1, LandingsWithin
  <2> HIDE DEF ends
  <2>5. ASSUME NEW e \in ends PROVE Reached(links, {e}) = S
    <3> DEFINE one == {e}
    <3>1. one \in (SUBSET S) \ {{}}
      BY <2>4
    <3> HIDE DEF one
    <3>2. Reached(links, one) = S
      BY <2>2, <3>1, CliqueReached
    <3> QED
      BY <3>2 DEF one
  <2>6. Nearest(S, n, d) = Nearest(S, k, d)
    BY <1>1, NearestOfFew
  <2> HIDE DEF n
  <2> QED
    BY <1>2, <2>3, <2>4, <2>5, <2>6
<1> QED
  BY <1>3, <1>4
-----------------------------------------------------------------------------
(* The hooks, which a call other than a search ends with, leave nodes and links *)
(* as they are.                                                                 *)

Alike(g, h) ==
  /\ h \in Graph
  /\ h.neighbours = g.neighbours /\ h.inserted = g.inserted /\ h.node_levels = g.node_levels
  /\ h.entry_point = g.entry_point /\ h.max_layer = g.max_layer

LEMMA HooksAlike ==
  ASSUME NEW g \in Graph, NEW ids \in SUBSET Ids
  PROVE  /\ Alike(g, GraphAdded(g, ids))
         /\ GraphAdded(g, ids).to_be_removed = g.to_be_removed \cup (ids \cap g.inserted)
         /\ GraphAdded(g, ids).to_be_inserted = g.to_be_inserted \cup ids
         /\ Alike(g, GraphRemoved(g, ids))
         /\ GraphRemoved(g, ids).to_be_removed = g.to_be_removed \cup (ids \ g.to_be_inserted)
         /\ GraphRemoved(g, ids).to_be_inserted = g.to_be_inserted \ ids
  BY DEF GraphAdded, GraphRemoved, Alike, Graph

LEMMA AlikeKeeps ==
  ASSUME NEW g, NEW h, Alike(g, h), NEW S
  PROVE  /\ Sound(g) => Sound(h)
         /\ Fitting(g) => Fitting(h)
         /\ Full(g) => Full(h)
         /\ Knows(g, S) => Knows(h, S)
  BY DEF Alike, Sound, EntryIsTop, LinksJoinNodes, Fitting, Full, Knows

-----------------------------------------------------------------------------
(* The invariant *)

Types ==
  /\ vectors \in Stored /\ unnoted \in SUBSET Ids /\ installed \in Kinds
  /\ graph \in Graph /\ pc \in {"ready", "build"} /\ shadow \in HnswIndex
  /\ astray \in BOOLEAN /\ cut \in BOOLEAN

\* What waits to be inserted or removed is what the graph lacks of the vectors,
\* or has left of removed ones.
Waiting ==
  /\ Ordered(graph)
  /\ pc = "build" => graph.to_be_removed = {}
  /\ Hnsw => /\ graph.inserted \ graph.to_be_removed \subseteq Live
             /\ Live \ unnoted \subseteq graph.to_be_inserted \cup (graph.inserted \ graph.to_be_removed)

\* A graph that has not gone astray is sound, no node of it has too many
\* neighbours, and if none ever had, its layer 0 joins all nodes.
Straight ==
  ~astray => Sound(graph) /\ Fitting(graph) /\ (~cut => Full(graph))

Known == graph.inserted \cup shadow.stray

\* Indices says of the graph what it is.
Mirrored ==
  /\ graph.inserted = Present(shadow.inserted)
  /\ graph.to_be_removed = shadow.to_be_removed
  /\ pc = "ready" => graph.to_be_inserted = shadow.to_be_inserted
  /\ Knows(graph, Known)

GraphInv == Types /\ Waiting /\ Straight /\ Mirrored

LEMMA NoGraphType == NoGraph \in Graph
<1>1. -1 \in -1 .. MaxLevel
  BY LayersAssumption
<1> QED
  BY <1>1 DEF NoGraph, Graph

LEMMA InitGraph == Init => GraphInv
<1> SUFFICES ASSUME Init PROVE GraphInv
  OBVIOUS
<1>1. Types
  BY NoGraphType DEF Init, Types, Stored, Empty, HnswOf, HnswIndex, Kinds
<1>2. /\ graph.inserted = {} /\ graph.to_be_inserted = {} /\ graph.to_be_removed = {}
      /\ graph.entry_point = 0 /\ graph.max_layer = -1
      /\ \A lc \in Layers, id \in Ids : graph.neighbours[lc][id] = {}
  BY DEF Init, NoGraph
<1>3. Live = {} /\ pc = "ready"
  BY DEF Init, Live, Present, Empty
<1>4. Waiting
  BY <1>2, <1>3 DEF Waiting, Ordered
<1>5. Straight
  <2>1. Sound(graph)
    BY <1>2 DEF Sound, EntryIsTop, LinksJoinNodes
  <2>2. ASSUME NEW lc \in Layers, NEW id \in Ids PROVE Cardinality(graph.neighbours[lc][id]) <= Cap(lc)
    <3> DEFINE links == graph.neighbours[lc][id]
    <3>1. links = {} /\ Cap(lc) \in Nat
      BY <1>2, LayersAssumption DEF Cap
    <3> HIDE DEF links
    <3>2. Cardinality(links) = 0
      BY <3>1, FS_EmptySet
    <3> QED
      BY <3>1, <3>2 DEF links
  <2>3. Fitting(graph)
    BY <2>2 DEF Fitting
  <2>4. Full(graph)
    BY <1>2 DEF Full, Clique
  <2> QED
    BY <2>1, <2>3, <2>4 DEF Straight
<1>6. Mirrored
  <2>1. shadow.inserted = Empty /\ shadow.stray = {} /\ shadow.to_be_inserted = {} /\ shadow.to_be_removed = {}
    BY DEF Init, HnswOf
  <2> QED
    BY <1>2, <2>1 DEF Mirrored, Knows, Known, Present, Empty
<1> QED
  BY <1>1, <1>4, <1>5, <1>6 DEF GraphInv

-----------------------------------------------------------------------------
(* The steps *)

\* What the actions other than those of a search do.
LEMMA Hooked ==
  ASSUME Types, NEW ids \in SUBSET Ids
  PROVE  /\ \A place \in [ids -> Vals] : Write(ids, place) => Types' /\ UNCHANGED <<graph, shadow>>
         /\ Notify => Types' /\ Alike(graph, graph')
         /\ Remove(ids) => Types' /\ Alike(graph, graph')
<1>1. ASSUME NEW place \in [ids -> Vals], Write(ids, place)
      PROVE  Types' /\ UNCHANGED <<graph, shadow>>
  <2>1. vectors' \in Stored
    BY <1>1 DEF Write, Types, Stored
  <2> QED
    BY <1>1, <2>1 DEF Write, Types
<1>2. ASSUME Notify PROVE Types' /\ Alike(graph, graph')
  <2>1. CASE Hnsw /\ graph' = GraphAdded(graph, unnoted) /\ shadow' = HnswAdded(shadow, unnoted)
    <3>1. shadow' \in HnswIndex
      BY <2>1 DEF Types, HnswAdded, HnswIndex, Present
    <3>2. Alike(graph, graph') /\ graph' \in Graph
      BY <2>1, HooksAlike DEF Types, Alike
    <3> QED
      BY <1>2, <3>1, <3>2 DEF Notify, Types
  <2>2. CASE UNCHANGED <<graph, shadow>>
    BY <1>2, <2>2 DEF Notify, Types, Alike
  <2> QED
    BY <1>2, <2>1, <2>2 DEF Notify
<1>3. ASSUME Remove(ids) PROVE Types' /\ Alike(graph, graph')
  <2>1. vectors' \in Stored
    BY <1>3 DEF Remove, Types, Stored
  <2>2. CASE Hnsw /\ graph' = GraphRemoved(graph, ids) /\ shadow' = HnswRemoved(shadow, ids)
    <3>1. shadow' \in HnswIndex
      BY <2>2 DEF Types, HnswRemoved, HnswIndex
    <3>2. Alike(graph, graph') /\ graph' \in Graph
      BY <2>2, HooksAlike DEF Types, Alike
    <3> QED
      BY <1>3, <2>1, <3>1, <3>2 DEF Remove, Types
  <2>3. CASE UNCHANGED <<graph, shadow>>
    BY <1>3, <2>1, <2>3 DEF Remove, Types, Alike
  <2> QED
    BY <1>3, <2>2, <2>3 DEF Remove
<1> QED
  BY <1>1, <1>2, <1>3
LEMMA WriteStep ==
  ASSUME GraphInv, NEW ids \in SUBSET Ids, NEW place \in [ids -> Vals], Write(ids, place)
  PROVE  GraphInv'
<1>1. Types /\ Waiting /\ Straight /\ Mirrored
  BY DEF GraphInv
<1>2. Types' /\ UNCHANGED <<graph, shadow, astray, cut, installed, pc>>
  BY <1>1, Hooked DEF Write
<1>3. Live' = Live \cup ids /\ unnoted' = ids /\ unnoted = {}
  BY <1>1, NilAssumption DEF Write, Types, Stored, Live, Present
<1>4. Waiting'
  BY <1>1, <1>2, <1>3 DEF Waiting, Hnsw
<1>5. Straight'
  BY <1>1, <1>2 DEF Straight
<1>6. Mirrored'
  BY <1>1, <1>2 DEF Mirrored, Known
<1> QED
  BY <1>2, <1>4, <1>5, <1>6 DEF GraphInv

LEMMA NotifyStep ==
  ASSUME GraphInv, Notify
  PROVE  GraphInv'
<1>1. Types /\ Waiting /\ Straight /\ Mirrored
  BY DEF GraphInv
<1>2. Types' /\ Alike(graph, graph')
  BY <1>1, Hooked
<1>3. /\ UNCHANGED <<vectors, installed, pc, astray, cut>> /\ pc = "ready" /\ unnoted' = {}
      /\ \/ Hnsw /\ graph' = GraphAdded(graph, unnoted) /\ shadow' = HnswAdded(shadow, unnoted)
         \/ ~Hnsw /\ UNCHANGED <<graph, shadow>>
  BY DEF Notify
<1>4. graph \in Graph /\ unnoted \in SUBSET Ids
  BY <1>1 DEF Types
<1>5. ASSUME Hnsw
      PROVE  /\ graph'.to_be_removed = graph.to_be_removed \cup (unnoted \cap graph.inserted)
             /\ graph'.to_be_inserted = graph.to_be_inserted \cup unnoted
  BY <1>3, <1>4, <1>5, HooksAlike
<1>6. graph'.inserted = graph.inserted /\ graph'.node_levels = graph.node_levels
  BY <1>2 DEF Alike
<1>7. Waiting'
  <2>1. CASE Hnsw
    BY <1>1, <1>3, <1>5, <1>6, <2>1 DEF Waiting, Ordered, Hnsw, Live
  <2>2. CASE ~Hnsw
    BY <1>1, <1>3, <2>2 DEF Waiting, Hnsw
  <2> QED
    BY <2>1, <2>2
<1>8. Straight'
  BY <1>1, <1>2, <1>3, AlikeKeeps DEF Straight
<1>9. Mirrored'
  <2>1. CASE Hnsw
    <3>1. /\ shadow'.inserted = shadow.inserted /\ shadow'.stray = shadow.stray
          /\ shadow'.to_be_removed = shadow.to_be_removed \cup (unnoted \cap Present(shadow.inserted))
          /\ shadow'.to_be_inserted = shadow.to_be_inserted \cup unnoted
      BY <1>1, <1>3, <2>1 DEF Types, HnswIndex, HnswAdded
    <3>2. Known' = Known
      BY <1>6, <3>1 DEF Known
    <3>3. Knows(graph', Known)
      BY <1>1, <1>2, AlikeKeeps DEF Mirrored
    <3> QED
      BY <1>1, <1>3, <1>5, <1>6, <2>1, <3>1, <3>2, <3>3 DEF Mirrored
  <2>2. CASE ~Hnsw
    BY <1>1, <1>3, <2>2 DEF Mirrored, Known
  <2> QED
    BY <2>1, <2>2
<1> QED
  BY <1>2, <1>7, <1>8, <1>9 DEF GraphInv

LEMMA RemoveStep ==
  ASSUME GraphInv, NEW ids \in SUBSET Ids, Remove(ids)
  PROVE  GraphInv'
<1>1. Types /\ Waiting /\ Straight /\ Mirrored
  BY DEF GraphInv
<1>2. Types' /\ Alike(graph, graph')
  BY <1>1, Hooked
<1>3. /\ UNCHANGED <<unnoted, installed, pc, astray, cut>> /\ pc = "ready"
      /\ \/ Hnsw /\ graph' = GraphRemoved(graph, ids) /\ shadow' = HnswRemoved(shadow, ids)
         \/ ~Hnsw /\ UNCHANGED <<graph, shadow>>
  BY DEF Remove
<1>4. graph \in Graph /\ Live' = Live \ ids
  BY <1>1 DEF Types, Remove, Live, Present
<1>5. ASSUME Hnsw
      PROVE  /\ graph'.to_be_removed = graph.to_be_removed \cup (ids \ graph.to_be_inserted)
             /\ graph'.to_be_inserted = graph.to_be_inserted \ ids
  BY <1>3, <1>4, <1>5, HooksAlike
<1>6. graph'.inserted = graph.inserted /\ graph'.node_levels = graph.node_levels
  BY <1>2 DEF Alike
<1>7. Waiting'
  <2>1. CASE Hnsw
    BY <1>1, <1>3, <1>4, <1>5, <1>6, <2>1 DEF Waiting, Ordered, Hnsw
  <2>2. CASE ~Hnsw
    BY <1>1, <1>3, <2>2 DEF Waiting, Hnsw
  <2> QED
    BY <2>1, <2>2
<1>8. Straight'
  BY <1>1, <1>2, <1>3, AlikeKeeps DEF Straight
<1>9. Mirrored'
  <2>1. CASE Hnsw
    <3>1. /\ shadow'.inserted = shadow.inserted /\ shadow'.stray = shadow.stray
          /\ shadow'.to_be_removed = shadow.to_be_removed \cup (ids \ shadow.to_be_inserted)
          /\ shadow'.to_be_inserted = shadow.to_be_inserted \ ids
      BY <1>1, <1>3, <2>1 DEF Types, HnswIndex, HnswRemoved
    <3>2. Known' = Known
      BY <1>6, <3>1 DEF Known
    <3>3. Knows(graph', Known)
      BY <1>1, <1>2, AlikeKeeps DEF Mirrored
    <3> QED
      BY <1>1, <1>3, <1>5, <1>6, <2>1, <3>1, <3>2, <3>3 DEF Mirrored
  <2>2. CASE ~Hnsw
    BY <1>1, <1>3, <2>2 DEF Mirrored, Known
  <2> QED
    BY <2>1, <2>2
<1> QED
  BY <1>2, <1>7, <1>8, <1>9 DEF GraphInv

LEMMA DrainStep ==
  ASSUME GraphInv, Drain
  PROVE  GraphInv'
<1>1. Types /\ Waiting /\ Straight /\ Mirrored
  BY DEF GraphInv
<1>2. /\ graph' \in Prunes(graph) /\ shadow' = HnswPruned(shadow) /\ pc = "ready" /\ pc' = "build"
      /\ UNCHANGED <<vectors, unnoted, installed, cut>> /\ astray' = (astray \/ ~Sound(graph'))
  BY DEF Drain, collection
<1>3. graph \in Graph /\ graph.to_be_removed = shadow.to_be_removed
  BY <1>1 DEF Types, Mirrored
<1>4. Pruning(graph, graph')
  BY <1>2, <1>3, PrunesIs
<1>5. /\ graph' \in Graph /\ graph'.inserted = graph.inserted \ graph.to_be_removed
      /\ graph'.to_be_removed = {} /\ graph'.to_be_inserted = graph.to_be_inserted
  BY <1>4 DEF Pruning
<1>6. /\ shadow'.inserted = [id \in Ids |-> IF id \in shadow.to_be_removed THEN Nil ELSE shadow.inserted[id]]
      /\ shadow'.stray = shadow.stray \cup (shadow.to_be_removed \cap Present(shadow.inserted))
      /\ shadow'.to_be_removed = {} /\ shadow' \in HnswIndex
  BY <1>1, <1>2 DEF Types, HnswIndex, HnswPruned, Stored, Present
<1>7. Types'
  BY <1>1, <1>2, <1>5, <1>6 DEF Types
<1>8. Waiting'
  <2>1. Ordered(graph')
    BY <1>1, <1>2, <1>3, PrunesOrdered DEF Waiting
  <2> QED
    BY <1>1, <1>2, <1>5, <2>1 DEF Waiting, Hnsw, Live
<1>9. Straight'
  <2> SUFFICES ASSUME ~astray' PROVE Sound(graph') /\ Fitting(graph') /\ (~cut' => Full(graph'))
    BY DEF Straight
  <2>1. ~astray /\ Sound(graph') /\ Fitting(graph) /\ (~cut => Full(graph)) /\ cut' = cut
    BY <1>1, <1>2 DEF Straight
  <2> QED
    BY <1>2, <1>3, <2>1, PrunesFitting, PrunesFull
<1>10. Mirrored'
  <2>1. graph'.inserted = Present(shadow'.inserted)
    BY <1>1, <1>3, <1>5, <1>6 DEF Mirrored, Present
  <2>2. Known' = Known
    BY <1>1, <1>3, <1>5, <1>6 DEF Mirrored, Known
  <2>3. Knows(graph', Known)
    BY <1>1, <1>2, <1>3, PrunesKnows DEF Mirrored
  <2> QED
    BY <1>2, <1>5, <1>6, <2>1, <2>2, <2>3 DEF Mirrored
<1> QED
  BY <1>7, <1>8, <1>9, <1>10 DEF GraphInv
\* An id that is inserted has no node.
LEMMA InsertStep ==
  ASSUME GraphInv, NEW id \in Ids, NEW level \in Layers, Insert(id, level)
  PROVE  GraphInv' /\ id \notin graph.inserted
<1>1. Types /\ Waiting /\ Straight /\ Mirrored
  BY DEF GraphInv
<1>2. /\ graph' \in Inserts(graph, id, level, vectors) /\ shadow' = HnswInserted(shadow, id, vectors[id])
      /\ pc = "build" /\ id \in graph.to_be_inserted
      /\ UNCHANGED <<vectors, unnoted, installed, pc>> /\ astray' = (astray \/ ~Sound(graph'))
      /\ cut' = (cut \/ Crowds(graph, graph', id))
  BY DEF Insert, collection
<1>3. graph \in Graph /\ vectors \in Stored /\ Ordered(graph)
  BY <1>1 DEF Types, Waiting
<1>4. graph' \in Graph
  BY <1>2, <1>3, InsertsType
<1>5. /\ Ordered(graph') /\ graph'.to_be_removed = graph.to_be_removed
      /\ graph'.to_be_inserted = graph.to_be_inserted \ {id}
      /\ graph'.inserted = IF vectors[id] = Nil THEN graph.inserted ELSE graph.inserted \cup {id}
  BY <1>2, <1>3, InsertsOrdered
<1>6. id \notin graph.inserted
  BY <1>1, <1>2 DEF Waiting, Ordered
<1>7. /\ shadow' \in HnswIndex /\ shadow'.to_be_removed = shadow.to_be_removed
      /\ Present(shadow'.inserted) = IF vectors[id] = Nil THEN Present(shadow.inserted)
                                     ELSE Present(shadow.inserted) \cup {id}
      /\ shadow'.stray = IF vectors[id] = Nil THEN shadow.stray \cup {id} ELSE shadow.stray \ {id}
  <2>1. CASE vectors[id] = Nil
    BY <1>1, <1>2, <2>1 DEF Types, HnswIndex, HnswInserted
  <2>2. CASE vectors[id] # Nil
    <3>1. shadow' = [shadow EXCEPT !.inserted = [shadow.inserted EXCEPT ![id] = vectors[id]],
                                   !.stray = shadow.stray \ {id}]
      BY <1>1, <1>2, <2>2 DEF Types, HnswIndex, HnswInserted
    <3>2. [shadow.inserted EXCEPT ![id] = vectors[id]] \in Stored
      BY <1>1, <1>3 DEF Types, HnswIndex, Stored
    <3>3. Present([shadow.inserted EXCEPT ![id] = vectors[id]]) = Present(shadow.inserted) \cup {id}
      BY <1>1, <2>2 DEF Types, HnswIndex, Stored, Present
    <3> QED
      BY <1>1, <2>2, <3>1, <3>2, <3>3 DEF Types, HnswIndex
  <2> QED
    BY <2>1, <2>2
<1>8. Types'
  BY <1>1, <1>2, <1>4, <1>7 DEF Types
<1>9. Waiting'
  <2>1. vectors[id] = Nil => id \notin Live
    BY DEF Live, Present
  <2>2. vectors[id] # Nil => id \in Live
    BY DEF Live, Present
  <2> QED
    BY <1>1, <1>2, <1>5, <2>1, <2>2 DEF Waiting, Hnsw, Live
<1>10. Straight'
  <2> SUFFICES ASSUME ~astray' PROVE Sound(graph') /\ Fitting(graph') /\ (~cut' => Full(graph'))
    BY DEF Straight
  <2>1. ~astray /\ Sound(graph') /\ Sound(graph) /\ Fitting(graph) /\ (~cut => Full(graph))
    BY <1>1, <1>2 DEF Straight
  <2>2. Fitting(graph')
    BY <1>2, <1>3, <1>6, <2>1, InsertsFitting
  <2>3. ASSUME ~cut' PROVE Full(graph')
    <3>1. ~cut /\ ~Crowds(graph, graph', id)
      BY <1>2, <2>3
    <3> QED
      BY <1>2, <1>3, <1>6, <2>1, <3>1, InsertsFull
  <2> QED
    BY <2>1, <2>2, <2>3
<1>11. Mirrored'
  <2>1. graph'.inserted = Present(shadow'.inserted) /\ graph'.to_be_removed = shadow'.to_be_removed
    BY <1>1, <1>5, <1>7 DEF Mirrored
  <2>2. Known' = Known \cup {id}
    BY <1>5, <1>7 DEF Known
  <2>3. Knows(graph', Known \cup {id})
    BY <1>1, <1>2, <1>3, InsertsKnows DEF Mirrored
  <2> QED
    BY <1>2, <2>1, <2>2, <2>3 DEF Mirrored
<1> QED
  BY <1>6, <1>8, <1>9, <1>10, <1>11 DEF GraphInv

LEMMA DrainedStep ==
  ASSUME GraphInv, Drained
  PROVE  GraphInv'
<1>1. Types /\ Waiting /\ Straight /\ Mirrored
  BY DEF GraphInv
<1>2. /\ pc = "build" /\ pc' = "ready" /\ graph.to_be_inserted = {} /\ shadow' = HnswSettled(shadow)
      /\ UNCHANGED <<vectors, unnoted, installed, graph, astray, cut>>
  BY DEF Drained, collection
<1>3. /\ shadow' \in HnswIndex /\ shadow'.inserted = shadow.inserted /\ shadow'.stray = shadow.stray
      /\ shadow'.to_be_inserted = {} /\ shadow'.to_be_removed = {}
  BY <1>1, <1>2 DEF Types, HnswIndex, HnswSettled
<1>4. Types'
  BY <1>1, <1>2, <1>3 DEF Types
<1>5. Waiting'
  BY <1>1, <1>2 DEF Waiting, Hnsw, Live
<1>6. Straight'
  BY <1>1, <1>2 DEF Straight
<1>7. Mirrored'
  <2>1. graph.to_be_removed = {}
    BY <1>1, <1>2 DEF Waiting
  <2>2. Known' = Known
    BY <1>2, <1>3 DEF Known
  <2> QED
    BY <1>1, <1>2, <1>3, <2>1, <2>2 DEF Mirrored
<1> QED
  BY <1>4, <1>5, <1>6, <1>7 DEF GraphInv

LEMMA GraphStep == GraphInv /\ [Next]_vars => GraphInv'
<1> SUFFICES ASSUME GraphInv, [Next]_vars PROVE GraphInv'
  OBVIOUS
<1>1. ASSUME NEW ids \in Batches, NEW place \in [ids -> Vals], Write(ids, place) PROVE GraphInv'
  BY <1>1, WriteStep, CallsAssumption
<1>2. CASE Notify
  BY <1>2, NotifyStep
<1>3. ASSUME NEW ids \in Batches, Remove(ids) PROVE GraphInv'
  BY <1>3, RemoveStep, CallsAssumption
<1>4. CASE Drain
  BY <1>4, DrainStep
<1>5. ASSUME NEW id \in Ids, NEW level \in Layers, Insert(id, level) PROVE GraphInv'
  BY <1>5, InsertStep
<1>6. CASE Drained
  BY <1>6, DrainedStep
<1>7. CASE UNCHANGED vars
  BY <1>7 DEF vars, collection, history, GraphInv, Types, Waiting, Straight, Mirrored, Known, Hnsw, Live
<1> QED
  BY <1>1, <1>2, <1>3, <1>4, <1>5, <1>6, <1>7 DEF Next

LEMMA GraphInvariant == Spec => []GraphInv
<1>1. Init => GraphInv
  BY InitGraph
<1>2. GraphInv /\ [Next]_vars => GraphInv'
  BY GraphStep
<1> QED
  BY <1>1, <1>2, PTL DEF Spec

-----------------------------------------------------------------------------
(* The theorems *)

\* "max neighbors per node": whatever the number of ids, of layers and of
\* neighbours, insert() leaves no node of a sound graph with more neighbours than
\* M_, or M0_ in layer 0.
THEOREM DegreeIsBounded == Spec => []HnswDegree
<1>1. GraphInv => HnswDegree
  BY DEF GraphInv, Straight, Fitting, HnswDegree
<1> QED
  BY <1>1, GraphInvariant, PTL

\* The answers of search_knn() are those of the brute-force search, as long as
\* the graph has not gone astray and no node of layer 0 had to drop a link.
THEOREM SearchIsExact == Spec => []HnswExact
<1>1. ASSUME GraphInv PROVE HnswExact
  <2> SUFFICES ASSUME ~astray, ~cut, Hnsw, Settled, NEW q \in Vals, NEW k \in 1 .. Cardinality(Ids)
               PROVE  Answers(graph, vectors, q, k) = {Exact(vectors, q, k)}
    BY DEF HnswExact, FindsNearest
  <2>1. Types /\ Waiting /\ Straight
    BY <1>1 DEF GraphInv
  <2>2. graph \in Graph /\ vectors \in Stored /\ Sound(graph) /\ Full(graph)
    BY <2>1 DEF Types, Straight
  <2>3. graph.inserted = Present(vectors)
    BY <2>1 DEF Waiting, Settled, Live
  <2>4. k \in Nat
    BY LineAssumption, FS_CardinalityType
  <2> QED
    BY <2>2, <2>3, <2>4, AnswersExact
<1> QED
  BY <1>1, GraphInvariant, PTL

\* The index of Collection and the graph agree on what has a node and what is
\* pending, and no walk of the graph leaves what Indices lets it come upon.
THEOREM GraphIsWithinIndices == Spec => []WithinIndices
<1>1. ASSUME GraphInv PROVE WithinIndices
  <2> SUFFICES ASSUME Hnsw, pc = "ready"
               PROVE  /\ graph.inserted = Present(shadow.inserted)
                      /\ graph.to_be_inserted = shadow.to_be_inserted
                      /\ graph.to_be_removed = shadow.to_be_removed
                      /\ \A q \in Vals : \A a \in Answers(graph, vectors, q, Cardinality(Ids)) :
                           a \subseteq HnswReach(shadow)
    BY DEF WithinIndices
  <2>1. Types /\ Mirrored
    BY <1>1 DEF GraphInv
  <2>2. graph \in Graph /\ vectors \in Stored /\ Cardinality(Ids) \in Nat /\ Knows(graph, Known)
    BY <2>1, LineAssumption, FS_CardinalityType DEF Types, Mirrored
  <2>3. graph.inserted = Present(shadow.inserted)
    BY <2>1 DEF Mirrored
  <2>4. graph.inserted # {} => Known = HnswReach(shadow)
    BY <2>3 DEF Known, HnswReach, Present, Empty
  <2>5. ASSUME NEW q \in Vals, NEW a \in Answers(graph, vectors, q, Cardinality(Ids))
        PROVE  a \subseteq HnswReach(shadow)
    <3>1. IF graph.inserted = {} THEN a = {} ELSE a \subseteq Known
      BY <2>2, AnswersKnown
    <3> QED
      BY <2>4, <3>1
  <2> QED
    BY <2>1, <2>3, <2>5 DEF Mirrored
<1> QED
  BY <1>1, GraphInvariant, PTL

\* The steps of build() and insert() that GoesAstray names, and no others, make
\* a sound graph unsound.
THEOREM OnlySomeStepsGoAstray == Spec => GoesAstray
<1> DEFINE Cause ==
      \/ graph.entry_point \in graph.to_be_removed
      \/ \E id \in graph.to_be_removed : OneSided(graph, id)
      \/ graph'.entry_point = 0 /\ graph'.inserted # {}
      \/ \E id \in graph.to_be_inserted \ graph'.to_be_inserted : vectors[id] = Nil
<1>1. ASSUME GraphInv, [Next]_vars, ~astray, astray' PROVE Cause
  <2>1. Types /\ Waiting /\ Sound(graph) /\ graph \in Graph /\ vectors \in Stored /\ Ordered(graph)
    BY <1>1 DEF GraphInv, Types, Straight, Waiting
  <2>2. CASE Drain
    <3>1. graph' \in Prunes(graph) /\ ~Sound(graph')
      BY <1>1, <2>1, <2>2 DEF Drain, Types
    <3> QED
      BY <2>1, <3>1, PrunesSound
  <2>3. ASSUME NEW id \in Ids, NEW level \in Layers, Insert(id, level) PROVE Cause
    <3>1. /\ graph' \in Inserts(graph, id, level, vectors) /\ ~Sound(graph')
          /\ id \in graph.to_be_inserted /\ id \notin graph.inserted
      BY <1>1, <2>1, <2>3, InsertStep DEF Insert, Types
    <3>2. /\ graph'.to_be_inserted = graph.to_be_inserted \ {id}
          /\ graph'.inserted = IF vectors[id] = Nil THEN graph.inserted ELSE graph.inserted \cup {id}
      <4> HIDE DEF Cause
      <4> QED
        BY <2>1, <3>1, InsertsOrdered
    <3>3. CASE vectors[id] = Nil
      BY <3>1, <3>2, <3>3
    <3>4. CASE vectors[id] # Nil
      <4>1. graph'.entry_point = 0
        BY <2>1, <3>1, <3>4, InsertsSound
      <4> QED
        BY <3>2, <3>4, <4>1
    <3> QED
      BY <3>3, <3>4
  <2>4. astray' = astray => FALSE
    BY <1>1
  <2> QED
    BY <1>1, <2>2, <2>3, <2>4 DEF Next, Write, Notify, Remove, Drained, vars, history
<1>2. GraphInv /\ [Next]_vars => [~astray /\ astray' => Cause]_vars
  BY <1>1
<1> HIDE DEF Cause
<1>3. Spec => [][~astray /\ astray' => Cause]_vars
  BY <1>2, GraphInvariant, PTL DEF Spec
<1> QED
  BY <1>3 DEF GoesAstray, Cause
==============================================================================
