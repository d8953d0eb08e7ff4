----------------------------- MODULE ClusterProofs -----------------------------
(***************************************************************************)
(* What the searches of an ivf_flat index find, for any number of ids and  *)
(* clusters and for any history of adds, removals and rebuilds.            *)
(***************************************************************************)
EXTENDS GraphProofs

-----------------------------------------------------------------------------
(* Sums: the fold of the library takes the elements in an order of its own. *)

Summing(f, S) ==
  LET iter[s \in SUBSET S] ==
        IF s = {} THEN 0 ELSE f[CHOOSE x \in s : TRUE] + iter[s \ {CHOOSE x \in s : TRUE}]
  IN  iter

LEMMA SumFolds ==
  ASSUME NEW f, NEW S
  PROVE  SumFunctionOnSet(f, S) = Summing(f, S)[S]
BY DEF SumFunctionOnSet, FoldFunctionOnSet, MapThenFoldSet, Summing

\* The element of s that the fold takes, and what it leaves.
Taken(s) == CHOOSE x \in s : TRUE
Rest(s) == s \ {Taken(s)}

\* What is left of a set is smaller.
LEMMA RestIsLess ==
  ASSUME NEW S, IsFiniteSet(S), NEW s \in SUBSET S, s # {}
  PROVE  /\ Taken(s) \in s
         /\ Rest(s) \in SUBSET S
         /\ Cardinality(s) \in Nat \ {0}
         /\ Cardinality(Rest(s)) = Cardinality(s) - 1
<1>1. Taken(s) \in s
  BY DEF Taken
<1>2. IsFiniteSet(s)
  BY FS_Subset
<1>3. Cardinality(s \ {Taken(s)}) = Cardinality(s) - 1
  BY <1>1, <1>2, FS_RemoveElement
<1>4. Cardinality(s) \in Nat /\ Cardinality(s) # 0
  BY <1>1, <1>2, FS_CardinalityType, FS_EmptySet
<1> QED
  BY <1>1, <1>3, <1>4 DEF Rest

IntOn(f, S) == \A x \in S : f[x] \in Int
ZeroBut(f, S, y) == \A x \in S \ {y} : f[x] = 0

\* The fold is defined by its steps: after as many as the set has elements,
\* another one changes nothing.
LEMMA SumUnfolds ==
  ASSUME NEW S, IsFiniteSet(S), NEW f, IntOn(f, S)
  PROVE  /\ Summing(f, S) \in [SUBSET S -> Int]
         /\ Summing(f, S)[{}] = 0
         /\ \A s \in SUBSET S : s # {} =>
              Summing(f, S)[s] = f[Taken(s)] + Summing(f, S)[Rest(s)]
<1> DEFINE A == [SUBSET S -> Int]
           T(F) == [s \in SUBSET S |-> IF s = {} THEN 0 ELSE f[Taken(s)] + F[Rest(s)]]
           N == Cardinality(S) + 1
           step == [n \in 1 .. N |-> [F \in A |-> T(F)]]
           zero == [s \in SUBSET S |-> 0]
<1>1. Cardinality(S) \in Nat /\ N \in Nat
  BY FS_CardinalityType
<1>2. \A F \in A : T(F) \in A
  <2>1. ASSUME NEW s \in SUBSET S, s # {} PROVE f[Taken(s)] \in Int /\ Rest(s) \in SUBSET S
    BY <2>1, RestIsLess DEF IntOn
  <2> QED
    BY <2>1
<1>3. \A F : T(F)[{}] = 0 /\ \A s \in SUBSET S : s # {} => T(F)[s] = f[Taken(s)] + F[Rest(s)]
  OBVIOUS
<1>4. zero \in A /\ zero[{}] = 0
  OBVIOUS
<1>5. step \in [1 .. N -> [A -> A]] /\ \A n \in 1 .. N, F \in A : step[n][F] = T(F)
  BY <1>2
<1> HIDE DEF A, T, N, step, zero
<1>6. PICK G \in [0 .. N -> A] : G[0] = zero /\ \A n \in 1 .. N : G[n] = step[n][G[n - 1]]
  <2>1. N \in Nat /\ zero \in A /\ step \in [1 .. N -> [A -> A]]
    BY <1>1, <1>4, <1>5
  <2> QED
    BY ONLY <2>1, Iterates
<1>7. ASSUME NEW n \in Nat, n + 1 <= N
      PROVE  G[n] \in A /\ G[n + 1] = T(G[n])
  <2>1. n \in 0 .. N /\ n + 1 \in 1 .. N /\ (n + 1) - 1 = n
    BY <1>1, <1>7
  <2>2. G[n] \in A
    BY <1>6, <2>1
  <2>3. G[n + 1] = step[n + 1][G[n]]
    BY <1>6, <2>1
  <2> QED
    BY <1>5, <2>1, <2>2, <2>3
<1> DEFINE D == {n \in Nat : n + 1 <= N =>
                   \A s \in SUBSET S : Cardinality(s) <= n => G[n + 1][s] = G[n][s]}
<1>8. 0 \in D
  <2> SUFFICES ASSUME 0 + 1 <= N, NEW s \in SUBSET S, Cardinality(s) <= 0
               PROVE  G[0 + 1][s] = G[0][s]
    OBVIOUS
  <2>1. s = {}
    <3>1. s # {} => Cardinality(s) \in Nat \ {0}
      BY RestIsLess
    <3> QED
      BY <3>1
  <2>2. G[0 + 1] = T(G[0])
    BY <1>7
  <2> QED
    BY <1>3, <1>4, <1>6, <2>1, <2>2
<1>9. ASSUME NEW n \in Nat, n \in D PROVE n + 1 \in D
  <2> SUFFICES ASSUME (n + 1) + 1 <= N, NEW s \in SUBSET S, Cardinality(s) <= n + 1
               PROVE  G[(n + 1) + 1][s] = G[n + 1][s]
    OBVIOUS
  <2>1. n + 1 <= N
    BY <1>1
  <2>2. G[n + 1] = T(G[n]) /\ G[(n + 1) + 1] = T(G[n + 1])
    BY <1>7, <2>1
  <2>3. CASE s = {}
    BY <1>3, <2>2, <2>3
  <2>4. CASE s # {}
    <3>1. Rest(s) \in SUBSET S /\ Cardinality(Rest(s)) <= n
      <4>1. /\ Rest(s) \in SUBSET S /\ Cardinality(s) \in Nat
            /\ Cardinality(Rest(s)) = Cardinality(s) - 1
        BY <2>4, RestIsLess
      <4> QED
        BY <4>1
    <3>2. G[n + 1][Rest(s)] = G[n][Rest(s)]
      BY <1>9, <2>1, <3>1
    <3> QED
      BY <1>3, <2>2, <2>4, <3>2
  <2> QED
    BY <2>3, <2>4
<1> HIDE DEF D
<1>10. Cardinality(S) \in D
  BY <1>1, <1>8, <1>9, Induct
<1> DEFINE F == G[Cardinality(S)]
<1>11. N = Cardinality(S) + 1
  BY DEF N
<1>12. F \in A /\ G[N] = T(F)
  BY <1>1, <1>7, <1>11
<1>13. \A s \in SUBSET S : T(F)[s] = F[s]
  <2> TAKE s \in SUBSET S
  <2>1. Cardinality(s) <= Cardinality(S)
    BY FS_Subset
  <2> QED
    BY <1>1, <1>10, <1>11, <1>12, <2>1 DEF D
<1>14. F = T(F)
  <2>1. T(F) \in A
    BY <1>2, <1>12
  <2> HIDE DEF F
  <2> QED
    BY <1>12, <1>13, <2>1 DEF A
<1> HIDE DEF F
<1> DEFINE sum == Summing(f, S)
<1>15. sum = T(sum)
  <2>1. \E h : h = T(h)
    BY <1>14
  <2> QED
    BY <2>1 DEF Summing, T, Taken, Rest
<1> HIDE DEF sum
<1>16. sum[{}] = 0 /\ \A s \in SUBSET S : s # {} => sum[s] = f[Taken(s)] + sum[Rest(s)]
  BY <1>3, <1>15
<1> DEFINE E == {n \in Nat : \A s \in SUBSET S : Cardinality(s) <= n => sum[s] \in Int}
<1>17. 0 \in E
  <2> SUFFICES ASSUME NEW s \in SUBSET S, Cardinality(s) <= 0 PROVE sum[s] \in Int
    OBVIOUS
  <2>1. s # {} => Cardinality(s) \in Nat \ {0}
    BY RestIsLess
  <2>2. s = {}
    BY <2>1
  <2> QED
    BY <1>16, <2>2
<1>18. ASSUME NEW n \in Nat, n \in E PROVE n + 1 \in E
  <2> SUFFICES ASSUME NEW s \in SUBSET S, Cardinality(s) <= n + 1 PROVE sum[s] \in Int
    OBVIOUS
  <2>1. CASE s = {}
    BY <1>16, <2>1
  <2>2. CASE s # {}
    <3>1. /\ Taken(s) \in s /\ Rest(s) \in SUBSET S /\ Cardinality(s) \in Nat
          /\ Cardinality(Rest(s)) = Cardinality(s) - 1
      BY <2>2, RestIsLess
    <3>2. sum[Rest(s)] \in Int
      BY <1>18, <3>1
    <3>3. f[Taken(s)] \in Int
      BY <3>1 DEF IntOn
    <3> QED
      BY <1>16, <2>2, <3>2, <3>3
  <2> QED
    BY <2>1, <2>2
<1>19. \A s \in SUBSET S : sum[s] \in Int
  <2> TAKE s \in SUBSET S
  <2>1. Cardinality(s) <= Cardinality(S)
    BY FS_Subset
  <2>2. Cardinality(S) \in E
    <3> HIDE DEF E
    <3> QED
      BY <1>1, <1>17, <1>18, Induct
  <2> QED
    BY <2>1, <2>2
<1>20. sum \in [SUBSET S -> Int]
  BY <1>15, <1>19 DEF T
<1> QED
  BY <1>16, <1>20 DEF sum

\* The sum of integers is one.
LEMMA SumIsInt ==
  ASSUME NEW S, IsFiniteSet(S), NEW f, IntOn(f, S)
  PROVE  SumFunctionOnSet(f, S) \in Int
<1>1. Summing(f, S) \in [SUBSET S -> Int]
  BY SumUnfolds
<1>2. Summing(f, S)[S] \in Int
  <2> DEFINE sum == Summing(f, S)
  <2> HIDE DEF sum
  <2>1. sum \in [SUBSET S -> Int]
    BY <1>1 DEF sum
  <2>2. sum[S] \in Int
    BY <2>1
  <2> QED
    BY <2>2 DEF sum
<1> QED
  BY <1>2, SumFolds

\* The sum is the one number in it that is not 0.
LEMMA SumOfOne ==
  ASSUME NEW S, IsFiniteSet(S), NEW f, NEW y \in S, f[y] \in Int, ZeroBut(f, S, y)
  PROVE  SumFunctionOnSet(f, S) = f[y]
<1> DEFINE sum == Summing(f, S)
<1>1. sum[{}] = 0 /\ \A s \in SUBSET S : s # {} => sum[s] = f[Taken(s)] + sum[Rest(s)]
  <2>1. IntOn(f, S)
    BY DEF IntOn, ZeroBut
  <2> QED
    BY <2>1, SumUnfolds
<1> HIDE DEF sum
<1> DEFINE D == {n \in Nat : \A s \in SUBSET S :
                   Cardinality(s) <= n => sum[s] = IF y \in s THEN f[y] ELSE 0}
<1>2. 0 \in D
  <2> SUFFICES ASSUME NEW s \in SUBSET S, Cardinality(s) <= 0
               PROVE  sum[s] = IF y \in s THEN f[y] ELSE 0
    OBVIOUS
  <2>1. s # {} => Cardinality(s) \in Nat \ {0}
    BY RestIsLess
  <2>2. s = {}
    BY <2>1
  <2> QED
    BY <1>1, <2>2
<1>3. ASSUME NEW n \in Nat, n \in D PROVE n + 1 \in D
  <2> SUFFICES ASSUME NEW s \in SUBSET S, Cardinality(s) <= n + 1
               PROVE  sum[s] = IF y \in s THEN f[y] ELSE 0
    OBVIOUS
  <2>1. CASE s = {}
    BY <1>1, <2>1
  <2>2. CASE s # {}
    <3>1. /\ Taken(s) \in s /\ Rest(s) \in SUBSET S /\ Cardinality(s) \in Nat
          /\ Cardinality(Rest(s)) = Cardinality(s) - 1
      BY <2>2, RestIsLess
    <3>2. sum[Rest(s)] = IF y \in Rest(s) THEN f[y] ELSE 0
      BY <1>3, <3>1
    <3>3. Rest(s) = s \ {Taken(s)}
      BY DEF Rest
    <3>4. sum[s] = f[Taken(s)] + sum[Rest(s)]
      BY <1>1, <2>2
    <3>5. f[Taken(s)] = IF Taken(s) = y THEN f[y] ELSE 0
      BY <3>1 DEF ZeroBut
    <3> QED
      BY <3>1, <3>2, <3>3, <3>4, <3>5
  <2> QED
    BY <2>1, <2>2
<1> HIDE DEF D
<1>4. Cardinality(S) \in Nat /\ Cardinality(S) \in D
  BY <1>2, <1>3, FS_CardinalityType, Induct
<1>5. sum[S] = f[y]
  BY <1>4 DEF D
<1> QED
  BY <1>5, SumFolds DEF sum

\* Induction over the subsets of a finite set.
LEMMA SmallerFirst ==
  ASSUME NEW S, IsFiniteSet(S), NEW P,
         \A s \in SUBSET S : (\A u \in SUBSET s : u # s => u \in P) => s \in P
  PROVE  SUBSET S \subseteq P
<1> DEFINE D == {n \in Nat : \A s \in SUBSET S : Cardinality(s) <= n => s \in P}
<1>1. 0 \in D
  <2> SUFFICES ASSUME NEW s \in SUBSET S, Cardinality(s) <= 0 PROVE s \in P
    OBVIOUS
  <2>1. s # {} => Cardinality(s) \in Nat \ {0}
    BY RestIsLess
  <2>2. s = {}
    BY <2>1
  <2> QED
    BY <2>2
<1>2. ASSUME NEW n \in Nat, n \in D PROVE n + 1 \in D
  <2> SUFFICES ASSUME NEW s \in SUBSET S, Cardinality(s) <= n + 1 PROVE s \in P
    OBVIOUS
  <2>1. ASSUME NEW u \in SUBSET s, u # s PROVE u \in P
    <3>1. IsFiniteSet(s)
      BY FS_Subset
    <3>2. /\ Cardinality(u) <= Cardinality(s) /\ Cardinality(u) # Cardinality(s)
          /\ Cardinality(u) \in Nat /\ Cardinality(s) \in Nat
      BY <2>1, <3>1, FS_Subset, FS_CardinalityType
    <3>3. u \in SUBSET S /\ Cardinality(u) <= n
      BY <3>2
    <3> QED
      BY <1>2, <3>3
  <2> QED
    BY <2>1
<1> HIDE DEF D
<1>3. Cardinality(S) \in D
  BY <1>1, <1>2, FS_CardinalityType, Induct
<1>4. \A s \in SUBSET S : Cardinality(s) <= Cardinality(S)
  BY FS_Subset
<1> QED
  BY <1>3, <1>4 DEF D

\* The sum over a set, step by step.
LEMMA SumTakes ==
  ASSUME NEW S, IsFiniteSet(S), NEW f, IntOn(f, S), NEW s \in SUBSET S
  PROVE  /\ SumFunctionOnSet(f, s) \in Int
         /\ s = {} => SumFunctionOnSet(f, s) = 0
         /\ s # {} => SumFunctionOnSet(f, s) = f[Taken(s)] + SumFunctionOnSet(f, Rest(s))
<1> DEFINE sum == Summing(f, S)
<1>1. sum \in [SUBSET S -> Int] /\ sum[{}] = 0
      /\ \A u \in SUBSET S : u # {} => sum[u] = f[Taken(u)] + sum[Rest(u)]
  BY SumUnfolds
<1> HIDE DEF sum
<1>2. ASSUME NEW w \in SUBSET S PROVE sum[w] = SumFunctionOnSet(f, w)
  <2> DEFINE part == Summing(f, w)
             P == {u \in SUBSET w : part[u] = sum[u]}
  <2>1. IsFiniteSet(w) /\ IntOn(f, w)
    BY FS_Subset DEF IntOn
  <2>2. part[{}] = 0 /\ \A u \in SUBSET w : u # {} => part[u] = f[Taken(u)] + part[Rest(u)]
    BY <2>1, SumUnfolds
  <2> HIDE DEF part
  <2>3. ASSUME NEW u \in SUBSET w, \A x \in SUBSET u : x # u => x \in P PROVE u \in P
    <3>1. CASE u = {}
      BY <1>1, <2>2, <3>1
    <3>2. CASE u # {}
      <4>1. Taken(u) \in u /\ Rest(u) = u \ {Taken(u)}
        BY <3>2 DEF Taken, Rest
      <4>2. Rest(u) \in P
        BY <2>3, <4>1
      <4> QED
        BY <1>1, <2>2, <3>2, <4>2
    <3> QED
      BY <3>1, <3>2
  <2> HIDE DEF P
  <2>4. w \in P
    BY <2>1, <2>3, SmallerFirst
  <2> QED
    BY <2>4, SumFolds DEF P, part
<1>3. Rest(s) \in SUBSET S
  BY DEF Rest
<1> QED
  BY <1>1, <1>2, <1>3

\* Any element may be taken first.
LEMMA SumAdds ==
  ASSUME NEW S, IsFiniteSet(S), NEW f, IntOn(f, S), NEW s \in SUBSET S, NEW y \in s
  PROVE  SumFunctionOnSet(f, s) = f[y] + SumFunctionOnSet(f, s \ {y})
<1> DEFINE sum(u) == SumFunctionOnSet(f, u)
           P == {u \in SUBSET S : \A x \in u : sum(u) = f[x] + sum(u \ {x})}
<1>1. \A u \in SUBSET S : sum(u) \in Int /\ (u # {} => sum(u) = f[Taken(u)] + sum(Rest(u)))
  BY SumTakes
<1> HIDE DEF sum
<1>2. ASSUME NEW u \in SUBSET S, \A w \in SUBSET u : w # u => w \in P PROVE u \in P
  <2> SUFFICES ASSUME NEW x \in u PROVE sum(u) = f[x] + sum(u \ {x})
    OBVIOUS
  <2> DEFINE t == Taken(u)
  <2>1. t \in u /\ Rest(u) = u \ {t} /\ sum(u) = f[t] + sum(u \ {t})
    BY <1>1 DEF Taken, Rest
  <2> HIDE DEF t
  <2>2. CASE x = t
    BY <2>1, <2>2
  <2>3. CASE x # t
    <3>1. u \ {t} \in P /\ u \ {x} \in P
      BY <1>2, <2>1
    <3>2. x \in u \ {t} /\ t \in u \ {x}
      BY <2>1, <2>3
    <3>3. sum(u \ {t}) = f[x] + sum((u \ {t}) \ {x}) /\ sum(u \ {x}) = f[t] + sum((u \ {x}) \ {t})
      BY <3>1, <3>2
    <3>4. (u \ {t}) \ {x} = (u \ {x}) \ {t}
      OBVIOUS
    <3>5. /\ f[x] \in Int /\ f[t] \in Int
          /\ sum(u \ {t}) \in Int /\ sum(u \ {x}) \in Int /\ sum((u \ {x}) \ {t}) \in Int
      BY <1>1, <2>1 DEF IntOn
    <3>6. sum((u \ {t}) \ {x}) = sum((u \ {x}) \ {t})
      BY <3>4
    <3> DEFINE a == sum(u)
               b == sum(u \ {t})
               c == sum(u \ {x})
               d == sum((u \ {x}) \ {t})
    <3>7. a = f[t] + b /\ b = f[x] + d /\ c = f[t] + d
      BY <2>1, <3>3, <3>6
    <3>8. f[x] \in Int /\ f[t] \in Int /\ b \in Int /\ c \in Int /\ d \in Int
      BY <3>5
    <3> HIDE DEF a, b, c, d
    <3>9. a = f[x] + c
      BY <3>7, <3>8
    <3> QED
      BY <3>9 DEF a, c
  <2> QED
    BY <2>2, <2>3
<1> HIDE DEF P
<1>3. s \in P
  BY <1>2, SmallerFirst
<1> QED
  BY <1>3 DEF P, sum

\* The sum over a set is that over a part of it and that over the rest.
LEMMA SumSplits ==
  ASSUME NEW S, IsFiniteSet(S), NEW f, IntOn(f, S), NEW s \in SUBSET S, NEW a \in SUBSET s
  PROVE  SumFunctionOnSet(f, s) = SumFunctionOnSet(f, a) + SumFunctionOnSet(f, s \ a)
<1> DEFINE sum(u) == SumFunctionOnSet(f, u)
           P == {u \in SUBSET S : \A b \in SUBSET u : sum(u) = sum(b) + sum(u \ b)}
<1>1. \A u \in SUBSET S : sum(u) \in Int /\ (u = {} => sum(u) = 0)
  BY SumTakes
<1>2. ASSUME NEW u \in SUBSET S, NEW x \in u PROVE sum(u) = f[x] + sum(u \ {x})
  BY SumAdds
<1> HIDE DEF sum
<1>3. ASSUME NEW u \in SUBSET S, \A w \in SUBSET u : w # u => w \in P PROVE u \in P
  <2> SUFFICES ASSUME NEW b \in SUBSET u PROVE sum(u) = sum(b) + sum(u \ b)
    OBVIOUS
  <2>1. CASE b = {}
    BY <1>1, <2>1
  <2>2. ASSUME NEW x \in b PROVE sum(u) = sum(b) + sum(u \ b)
    <3>1. u \ {x} \in P /\ b \ {x} \in SUBSET (u \ {x}) /\ (u \ {x}) \ (b \ {x}) = u \ b
      BY <1>3, <2>2
    <3>2. sum(u \ {x}) = sum(b \ {x}) + sum(u \ b)
      BY <3>1
    <3>3. sum(u) = f[x] + sum(u \ {x}) /\ sum(b) = f[x] + sum(b \ {x})
      BY <1>2, <2>2
    <3>4. /\ f[x] \in Int /\ sum(u \ {x}) \in Int /\ sum(b \ {x}) \in Int /\ sum(u \ b) \in Int
      BY <1>1, <2>2 DEF IntOn
    <3> QED
      BY <3>2, <3>3, <3>4
  <2> QED
    BY <2>1, <2>2
<1> HIDE DEF P
<1>4. s \in P
  BY <1>3, SmallerFirst
<1> QED
  BY <1>4 DEF P, sum

\* What is nowhere more has no greater sum.
LEMMA SumOrders ==
  ASSUME NEW S, IsFiniteSet(S), NEW f, IntOn(f, S), NEW g, IntOn(g, S), \A x \in S : f[x] <= g[x]
  PROVE  SumFunctionOnSet(f, S) <= SumFunctionOnSet(g, S)
<1> DEFINE P == {u \in SUBSET S : SumFunctionOnSet(f, u) <= SumFunctionOnSet(g, u)}
<1>1. ASSUME NEW u \in SUBSET S, \A w \in SUBSET u : w # u => w \in P PROVE u \in P
  <2>1. CASE u = {}
    <3>1. SumFunctionOnSet(f, u) = 0 /\ SumFunctionOnSet(g, u) = 0
      BY <2>1, SumTakes
    <3> QED
      BY <3>1
  <2>2. ASSUME NEW x \in u PROVE u \in P
    <3> DEFINE r == u \ {x}
    <3>1. r \in P
      BY <1>1, <2>2
    <3>2. /\ SumFunctionOnSet(f, u) = f[x] + SumFunctionOnSet(f, r)
          /\ SumFunctionOnSet(g, u) = g[x] + SumFunctionOnSet(g, r)
      BY <2>2, SumAdds
    <3>3. SumFunctionOnSet(f, r) \in Int /\ SumFunctionOnSet(g, r) \in Int
      BY SumTakes
    <3>4. f[x] \in Int /\ g[x] \in Int /\ f[x] <= g[x]
      BY <2>2 DEF IntOn
    <3> QED
      BY <3>1, <3>2, <3>3, <3>4
  <2> QED
    BY <2>1, <2>2
<1> HIDE DEF P
<1>2. S \in P
  BY <1>1, SmallerFirst
<1> QED
  BY <1>2 DEF P

\* A number to the sum and the sum of as much.
LEMMA SumScales ==
  ASSUME NEW S, IsFiniteSet(S), NEW f, IntOn(f, S), NEW W \in Int,
         NEW g, \A x \in S : g[x] = W * f[x]
  PROVE  SumFunctionOnSet(g, S) = W * SumFunctionOnSet(f, S)
<1> DEFINE P == {u \in SUBSET S : SumFunctionOnSet(g, u) = W * SumFunctionOnSet(f, u)}
<1>0. IntOn(g, S)
  BY DEF IntOn
<1>1. ASSUME NEW u \in SUBSET S, \A w \in SUBSET u : w # u => w \in P PROVE u \in P
  <2>1. CASE u = {}
    <3>1. SumFunctionOnSet(f, u) = 0 /\ SumFunctionOnSet(g, u) = 0
      BY <1>0, <2>1, SumTakes
    <3> QED
      BY <3>1
  <2>2. ASSUME NEW x \in u PROVE u \in P
    <3> DEFINE r == u \ {x}
    <3>1. r \in P
      BY <1>1, <2>2
    <3>2. /\ SumFunctionOnSet(f, u) = f[x] + SumFunctionOnSet(f, r)
          /\ SumFunctionOnSet(g, u) = g[x] + SumFunctionOnSet(g, r)
      BY <1>0, <2>2, SumAdds
    <3>3. SumFunctionOnSet(f, r) \in Int
      BY SumTakes
    <3>4. f[x] \in Int /\ g[x] = W * f[x]
      BY <2>2 DEF IntOn
    <3> QED
      BY <3>1, <3>2, <3>3, <3>4
  <2> QED
    BY <2>1, <2>2
<1> HIDE DEF P
<1>2. S \in P
  BY <1>1, SmallerFirst
<1> QED
  BY <1>2 DEF P

Square(a) == a * a

\* The sum of the squares of what lies between the f[x] and c.
LEMMA SumOfSquares ==
  ASSUME NEW S, IsFiniteSet(S), NEW f, IntOn(f, S), NEW c \in Int,
         NEW g, \A x \in S : g[x] = Square(f[x] - c),
         NEW h, \A x \in S : h[x] = Square(f[x])
  PROVE  SumFunctionOnSet(g, S) =
           SumFunctionOnSet(h, S) - 2 * c * SumFunctionOnSet(f, S) + Cardinality(S) * Square(c)
<1> DEFINE P == {u \in SUBSET S : SumFunctionOnSet(g, u) =
                   SumFunctionOnSet(h, u) - 2 * c * SumFunctionOnSet(f, u) + Cardinality(u) * Square(c)}
<1>0. IntOn(g, S) /\ IntOn(h, S) /\ Square(c) \in Int
  BY DEF IntOn, Square
<1>1. ASSUME NEW u \in SUBSET S, \A w \in SUBSET u : w # u => w \in P PROVE u \in P
  <2>1. CASE u = {}
    <3>1. SumFunctionOnSet(f, u) = 0 /\ SumFunctionOnSet(g, u) = 0 /\ SumFunctionOnSet(h, u) = 0
      BY <1>0, <2>1, SumTakes
    <3>2. Cardinality(u) = 0
      BY <2>1, FS_EmptySet
    <3> QED
      BY <1>0, <3>1, <3>2
  <2>2. ASSUME NEW x \in u PROVE u \in P
    <3> DEFINE r == u \ {x}
               A == SumFunctionOnSet(h, r)
               B == SumFunctionOnSet(f, r)
               n == Cardinality(r)
               q == Square(c)
    <3>1. r \in P
      BY <1>1, <2>2
    <3>2. /\ SumFunctionOnSet(f, u) = f[x] + B
          /\ SumFunctionOnSet(g, u) = g[x] + SumFunctionOnSet(g, r)
          /\ SumFunctionOnSet(h, u) = h[x] + A
      BY <1>0, <2>2, SumAdds
    <3>3. A \in Int /\ B \in Int
      BY <1>0, SumTakes
    <3>4. f[x] \in Int /\ g[x] = (f[x] - c) * (f[x] - c) /\ h[x] = f[x] * f[x]
      BY <2>2 DEF IntOn, Square
    <3>5. n \in Nat /\ Cardinality(u) = n + 1
      <4>1. IsFiniteSet(u) /\ IsFiniteSet(r)
        BY FS_Subset
      <4>2. n = Cardinality(u) - 1
        BY <2>2, <4>1, FS_RemoveElement
      <4> QED
        BY <4>1, <4>2, FS_CardinalityType
    <3>6. SumFunctionOnSet(g, r) = A - 2 * c * B + n * q
      BY <3>1
    <3>7. q = c * c /\ q \in Int
      BY DEF Square
    <3> HIDE DEF A, B, n, q
    <3>8. ASSUME NEW y \in Int PROVE /\ (y - c) * (y - c) = y * y - 2 * c * y + c * c
                                     /\ 2 * c * (y + B) = 2 * c * y + 2 * c * B
                                     /\ (n + 1) * q = n * q + q
      BY <3>3, <3>5, <3>7
    <3>9. g[x] + (A - 2 * c * B + n * q) = (h[x] + A) - 2 * c * (f[x] + B) + (n + 1) * q
      <4> DEFINE s == f[x] * f[x]
                 t == 2 * c * f[x]
                 v == 2 * c * B
                 w == n * q
      <4>1. s \in Int /\ t \in Int /\ v \in Int /\ w \in Int /\ q \in Int /\ A \in Int
        BY <3>3, <3>4, <3>5, <3>7
      <4>2. /\ g[x] = s - t + q /\ h[x] = s
            /\ 2 * c * (f[x] + B) = t + v
            /\ (n + 1) * q = w + q
        BY <3>4, <3>7, <3>8
      <4> HIDE DEF s, t, v, w
      <4>3. (s - t + q) + (A - v + w) = (s + A) - (t + v) + (w + q)
        BY <4>1
      <4> QED
        BY <4>2, <4>3 DEF v, w
    <3> QED
      BY <3>2, <3>5, <3>6, <3>9 DEF q
  <2> QED
    BY <2>1, <2>2
<1> HIDE DEF P
<1>2. S \in P
  BY <1>1, SmallerFirst
<1> QED
  BY <1>2 DEF P

-----------------------------------------------------------------------------
(* The nearest centroid *)

LEMMA CrossLess ==
  ASSUME NEW a \in Nat, NEW b \in Nat, NEW c \in Nat,
         NEW m \in Nat \ {0}, NEW n \in Nat \ {0}, NEW p \in Nat \ {0},
         a * n < b * m, b * p <= c * n
  PROVE  a * p < c * m
<1>1. (a * n) * p < (b * m) * p
  <2> DEFINE u == a * n
             v == b * m
  <2>1. u \in Nat /\ v \in Nat /\ u < v
    OBVIOUS
  <2> HIDE DEF u, v
  <2>2. u * p < v * p
    BY <2>1
  <2> QED
    BY <2>2 DEF u, v
<1>2. (b * p) * m <= (c * n) * m
  <2> DEFINE u == b * p
             v == c * n
  <2>1. u \in Nat /\ v \in Nat /\ u <= v
    OBVIOUS
  <2> HIDE DEF u, v
  <2>2. u * m <= v * m
    BY <2>1
  <2> QED
    BY <2>2 DEF u, v
<1>3. (a * n) * p = (a * p) * n /\ (b * m) * p = (b * p) * m /\ (c * n) * m = (c * m) * n
  OBVIOUS
<1> DEFINE u == a * p
           v == c * m
<1>4. u \in Nat /\ v \in Nat /\ (a * n) * p = u * n /\ (c * n) * m = v * n
  BY <1>3
<1>5. u * n < v * n
  <2> DEFINE r == (a * n) * p
             s == (b * m) * p
             t == (c * n) * m
  <2>1. r \in Nat /\ s \in Nat /\ t \in Nat
    OBVIOUS
  <2>2. r < s /\ s <= t /\ r = u * n /\ t = v * n
    BY <1>1, <1>2, <1>3
  <2> HIDE DEF r, s, t, u, v
  <2> QED
    BY <2>1, <2>2
<1> HIDE DEF u, v
<1>6. u < v
  BY <1>4, <1>5
<1> QED
  BY <1>6 DEF u, v

LEMMA GapType ==
  ASSUME NEW x \in Int, NEW c \in Centroid
  PROVE  Gap(x, c) \in Nat /\ c[2] \in Nat \ {0}
<1>1. c[1] \in Int /\ c[2] \in Nat \ {0}
  BY DEF Centroid
<1>2. x * c[2] \in Int
  BY <1>1
<1> DEFINE y == x * c[2]
<1> HIDE DEF y
<1>3. y \in Int => Distance(y, c[1]) \in Nat
  BY <1>1 DEF Distance
<1> QED
  BY <1>1, <1>2, <1>3 DEF Gap, y

\* "Closer" orders the centroids, those at the same distance being equal.
LEMMA CloserOrders ==
  ASSUME NEW x \in Int, NEW a \in Centroid, NEW b \in Centroid, NEW c \in Centroid
  PROVE  /\ ~Closer(x, a, a)
         /\ Closer(x, a, b) => ~Closer(x, b, a)
         /\ Closer(x, a, b) /\ ~Closer(x, c, b) => Closer(x, a, c)
         /\ ~Closer(x, b, a) /\ Closer(x, b, c) => Closer(x, a, c)
<1> DEFINE u == Gap(x, a)
           v == Gap(x, b)
           w == Gap(x, c)
           m == a[2]
           n == b[2]
           p == c[2]
<1>1. /\ u \in Nat /\ v \in Nat /\ w \in Nat
      /\ m \in Nat \ {0} /\ n \in Nat \ {0} /\ p \in Nat \ {0}
  BY GapType
<1>2. /\ Closer(x, a, a) <=> (u * m < u * m)
      /\ Closer(x, a, b) <=> (u * n < v * m)
      /\ Closer(x, b, a) <=> (v * m < u * n)
      /\ Closer(x, c, b) <=> (w * n < v * p)
      /\ Closer(x, b, c) <=> (v * p < w * n)
      /\ Closer(x, a, c) <=> (u * p < w * m)
  BY DEF Closer
<1> HIDE DEF u, v, w, m, n, p
<1>3. u * m \in Nat /\ u * n \in Nat /\ v * m \in Nat /\ w * n \in Nat /\ v * p \in Nat /\ u * p \in Nat /\ w * m \in Nat
  BY <1>1
<1>4. ASSUME Closer(x, a, b), ~Closer(x, c, b) PROVE Closer(x, a, c)
  <2>1. u * n < v * m /\ v * p <= w * n
    BY <1>2, <1>3, <1>4
  <2>2. u * p < w * m
    BY ONLY <1>1, <2>1, CrossLess
  <2> QED
    BY <1>2, <2>2
<1>5. ASSUME ~Closer(x, b, a), Closer(x, b, c) PROVE Closer(x, a, c)
  <2>1. u * n <= v * m /\ v * p < w * n
    BY <1>2, <1>3, <1>5
  <2>2. ASSUME w * m <= u * p PROVE FALSE
    <3>1. v * m < u * n
      BY ONLY <1>1, <2>1, <2>2, CrossLess
    <3> QED
      BY <1>3, <2>1, <3>1
  <2> QED
    BY <1>2, <1>3, <2>2
<1> QED
  BY <1>2, <1>3, <1>4, <1>5

IsNearest(cs, x, I, j) ==
  /\ j \in I
  /\ \A i \in I : ~Closer(x, cs[i], cs[j]) /\ (i < j => Closer(x, cs[j], cs[i]))

\* There is a nearest centroid, and NearestOf is it.
LEMMA NearestOfIs ==
  ASSUME NEW m \in Nat \ {0}, NEW cs \in [1 .. m -> Centroid], NEW x \in Int
  PROVE  IsNearest(cs, x, 1 .. m, NearestOf(cs, x))
<1> DEFINE T == {n \in Nat : n + 1 <= m => \E j : IsNearest(cs, x, 1 .. n + 1, j)}
<1>1. 0 \in T
  <2>1. cs[1] \in Centroid
    OBVIOUS
  <2>2. ~Closer(x, cs[1], cs[1])
    BY <2>1, CloserOrders
  <2>3. IsNearest(cs, x, 1 .. 0 + 1, 1)
    BY <2>2 DEF IsNearest
  <2> QED
    BY <2>3
<1>2. ASSUME NEW n \in Nat, n \in T PROVE n + 1 \in T
  <2> SUFFICES ASSUME (n + 1) + 1 <= m PROVE \E j : IsNearest(cs, x, 1 .. (n + 1) + 1, j)
    OBVIOUS
  <2>1. PICK j : IsNearest(cs, x, 1 .. n + 1, j)
    BY <1>2
  <2> DEFINE l == (n + 1) + 1
  <2>2. /\ l \in Nat /\ j \in Nat /\ j < l
        /\ \A i \in 1 .. l : i \in Nat /\ cs[i] \in Centroid /\ (i \in 1 .. n + 1 \/ i = l)
        /\ l \in 1 .. l /\ j \in 1 .. l
    BY <2>1 DEF IsNearest
  <2>3. \A i \in 1 .. n + 1 : i < l /\ i \in 1 .. l
    OBVIOUS
  <2> HIDE DEF l
  <2>4. CASE Closer(x, cs[l], cs[j])
    <3>1. ASSUME NEW i \in 1 .. l PROVE ~Closer(x, cs[i], cs[l]) /\ (i < l => Closer(x, cs[l], cs[i]))
      <4>1. CASE i = l
        <5>1. ~Closer(x, cs[l], cs[l])
          BY <2>2, CloserOrders
        <5> QED
          BY <2>2, <4>1, <5>1
      <4>2. CASE i \in 1 .. n + 1
        <5>1. ~Closer(x, cs[i], cs[j])
          BY <2>1, <4>2 DEF IsNearest
        <5>2. cs[i] \in Centroid /\ cs[j] \in Centroid /\ cs[l] \in Centroid
          BY <2>2
        <5>3. Closer(x, cs[l], cs[i])
          BY <2>4, <5>1, <5>2, CloserOrders
        <5>4. ~Closer(x, cs[i], cs[l])
          BY <5>2, <5>3, CloserOrders
        <5> QED
          BY <5>3, <5>4
      <4> QED
        BY <2>2, <4>1, <4>2
    <3>2. IsNearest(cs, x, 1 .. l, l)
      BY <2>2, <3>1 DEF IsNearest
    <3> QED
      BY <3>2 DEF l
  <2>5. CASE ~Closer(x, cs[l], cs[j])
    <3>1. \A i \in 1 .. l : ~Closer(x, cs[i], cs[j]) /\ (i < j => Closer(x, cs[j], cs[i]))
      BY <2>1, <2>2, <2>5 DEF IsNearest
    <3>2. IsNearest(cs, x, 1 .. l, j)
      BY <2>2, <3>1 DEF IsNearest
    <3> QED
      BY <3>2 DEF l
  <2> QED
    BY <2>4, <2>5
<1> HIDE DEF T
<1>3. m - 1 \in T
  BY <1>1, <1>2, Induct
<1>4. \E j : IsNearest(cs, x, 1 .. m, j)
  BY <1>3 DEF T
<1>5. NearestOf(cs, x) = CHOOSE j : IsNearest(cs, x, 1 .. m, j)
  BY DEF NearestOf, IsNearest
<1> QED
  BY <1>4, <1>5

-----------------------------------------------------------------------------
(* search_for_top_k() *)

LEMMA ClustersAre ==
  ASSUME NEW i \in Clusters
  PROVE  /\ Len(i.clusters) \in Nat
         /\ i.clusters \in [1 .. Len(i.clusters) -> Cluster]
         /\ DOMAIN i.clusters = 1 .. Len(i.clusters)
         /\ Centroids(i) \in [1 .. Len(i.clusters) -> Centroid]
         /\ i.clusters # <<>> => Len(i.clusters) \in Nat \ {0}
<1>1. i.clusters \in Seq(Cluster)
  BY DEF Clusters
<1>2. /\ Len(i.clusters) \in Nat /\ i.clusters \in [1 .. Len(i.clusters) -> Cluster]
      /\ DOMAIN i.clusters = 1 .. Len(i.clusters)
      /\ i.clusters # <<>> => Len(i.clusters) # 0
  BY <1>1
<1> DEFINE n == Len(i.clusters)
<1> HIDE DEF n
<1>3. Centroids(i) \in [1 .. n -> Centroid]
  BY <1>2 DEF n, Centroids, Cluster
<1> QED
  BY <1>2, <1>3 DEF n

\* A search that probes one cluster takes the one an add files into, and one
\* that probes as many as there are takes all.
LEMMA ProbedIs ==
  ASSUME NEW i \in Clusters, i.clusters # <<>>, NEW x \in Int
  PROVE  /\ Probed(i, x, 1) = {NearestOf(Centroids(i), x)}
         /\ Probed(i, x, Len(i.clusters)) = DOMAIN i.clusters
<1> DEFINE cs == Centroids(i)
           m == Len(i.clusters)
           first(a, b) == Closer(x, cs[a], cs[b]) \/ (~Closer(x, cs[b], cs[a]) /\ a < b)
           ahead(j) == {h \in 1 .. m : first(h, j)}
           j0 == NearestOf(cs, x)
<1>1. /\ m \in Nat \ {0} /\ cs \in [1 .. m -> Centroid]
      /\ DOMAIN i.clusters = 1 .. m /\ DOMAIN cs = 1 .. m
  BY ClustersAre
<1>2. \A n : Probed(i, x, n) = {j \in 1 .. m : Cardinality(ahead(j)) < n}
  BY <1>1 DEF Probed
<1>3. IsNearest(cs, x, 1 .. m, j0)
  <2> HIDE DEF cs, m
  <2> QED
    BY <1>1, NearestOfIs
<1> HIDE DEF cs, m, j0
<1>4. \A j \in 1 .. m : j \notin ahead(j)
  <2> TAKE j \in 1 .. m
  <2>1. cs[j] \in Centroid
    BY <1>1
  <2>2. ~Closer(x, cs[j], cs[j])
    BY <2>1, CloserOrders
  <2> QED
    BY <2>2
<1>5. ahead(j0) = {}
  BY <1>3 DEF IsNearest
<1>6. \A j \in 1 .. m : j # j0 => ahead(j) # {}
  <2> TAKE j \in 1 .. m
  <2> HAVE j # j0
  <2>1. j0 \in 1 .. m /\ ~first(j, j0)
    BY <1>3, <1>5 DEF IsNearest
  <2>2. first(j0, j)
    BY <2>1
  <2> QED
    BY <2>1, <2>2
<1> HIDE DEF first
<1>7. ASSUME NEW j \in 1 .. m
      PROVE  /\ Cardinality(ahead(j)) \in Nat /\ Cardinality(ahead(j)) < m
             /\ Cardinality(ahead(j)) = 0 <=> ahead(j) = {}
  <2> DEFINE I == 1 .. m
  <2>1. IsFiniteSet(I) /\ Cardinality(I) = m
    BY <1>1, FS_Interval
  <2>2. ahead(j) \in SUBSET I /\ j \in I /\ j \notin ahead(j)
    BY <1>4
  <2> HIDE DEF I, ahead
  <2>3. ahead(j) \in SUBSET (I \ {j})
    BY <2>2
  <2>4. IsFiniteSet(I \ {j}) /\ Cardinality(I \ {j}) = m - 1
    BY <2>1, <2>2, FS_RemoveElement
  <2>5. IsFiniteSet(ahead(j)) /\ Cardinality(ahead(j)) <= m - 1
    BY <2>3, <2>4, FS_Subset
  <2>6. Cardinality(ahead(j)) \in Nat
    BY <2>5, FS_CardinalityType
  <2>7. Cardinality(ahead(j)) = 0 <=> ahead(j) = {}
    BY <2>5, FS_EmptySet
  <2> QED
    BY <1>1, <2>5, <2>6, <2>7
<1> HIDE DEF ahead
<1>8. Probed(i, x, 1) = {j0}
  BY <1>2, <1>3, <1>5, <1>6, <1>7 DEF IsNearest
<1>9. Probed(i, x, m) = 1 .. m
  BY <1>2, <1>7
<1> QED
  BY <1>1, <1>8, <1>9 DEF cs, m, j0

-----------------------------------------------------------------------------
(* k_means() *)

\* ids that have vectors, and m centroids to choose from.
Clusterable(ids, vecs, m) ==
  /\ ids \in SUBSET Ids /\ vecs \in Stored /\ m \in Nat
  /\ \A id \in ids : vecs[id] # Nil
  /\ ids # {} => m # 0

LEMMA RecentredType ==
  ASSUME NEW ids, NEW vecs, NEW m, Clusterable(ids, vecs, m),
         NEW members \in SUBSET ids, NEW c \in Centroid
  PROVE  Recentred(c, members, vecs) \in Centroid
<1>1. IsFiniteSet(members) /\ Cardinality(members) \in Nat /\ (Cardinality(members) = 0 <=> members = {})
  BY LineAssumption, FS_Subset, FS_CardinalityType, FS_EmptySet DEF Clusterable
<1>2. IntOn(vecs, members)
  BY LineAssumption DEF Clusterable, IntOn, Stored
<1>3. SumFunctionOnSet(vecs, members) \in Int
  BY <1>1, <1>2, SumIsInt
<1>4. CASE members = {}
  BY <1>4 DEF Recentred
<1>5. CASE members # {}
  <2>1. <<SumFunctionOnSet(vecs, members), Cardinality(members)>> \in Centroid
    BY <1>1, <1>3, <1>5 DEF Centroid
  <2> QED
    BY <2>1 DEF Recentred
<1> QED
  BY <1>4, <1>5

LEMMA RoundIs ==
  ASSUME NEW ids, NEW vecs, NEW m, Clusterable(ids, vecs, m), NEW cs \in [1 .. m -> Centroid]
  PROVE  /\ Round(cs, ids, vecs).chosen = [id \in ids |-> NearestOf(cs, vecs[id])]
         /\ Round(cs, ids, vecs).chosen \in [ids -> 1 .. m]
         /\ Round(cs, ids, vecs).centroids \in [1 .. m -> Centroid]
         /\ ~Round(cs, ids, vecs).changed => Round(cs, ids, vecs).centroids = cs
<1> DEFINE chosen == [id \in ids |-> NearestOf(cs, vecs[id])]
           next == [j \in DOMAIN cs |-> Recentred(cs[j], Members(chosen, j), vecs)]
<1>1. ASSUME NEW id \in ids PROVE NearestOf(cs, vecs[id]) \in 1 .. m
  <2>1. vecs[id] \in Int /\ m \in Nat \ {0}
    BY LineAssumption DEF Clusterable, Stored
  <2>2. IsNearest(cs, vecs[id], 1 .. m, NearestOf(cs, vecs[id]))
    BY <2>1, NearestOfIs
  <2> QED
    BY <2>2 DEF IsNearest
<1>2. chosen \in [ids -> 1 .. m]
  BY <1>1
<1> HIDE DEF chosen
<1>3. ASSUME NEW j \in 1 .. m PROVE Recentred(cs[j], Members(chosen, j), vecs) \in Centroid
  <2>1. Members(chosen, j) \in SUBSET ids /\ cs[j] \in Centroid
    BY <1>2 DEF Members
  <2> QED
    BY <2>1, RecentredType
<1>4. next \in [1 .. m -> Centroid]
  BY <1>3
<1> HIDE DEF next
<1>5. Round(cs, ids, vecs) = [chosen |-> chosen, centroids |-> next, changed |-> next # cs]
  BY DEF Round, chosen, next
<1>6. Round(cs, ids, vecs).chosen = chosen /\ Round(cs, ids, vecs).centroids = next
  BY <1>5
<1>7. CASE next # cs
  <2>1. (next # cs) = TRUE
    BY <1>7
  <2>2. Round(cs, ids, vecs) = [chosen |-> chosen, centroids |-> next, changed |-> TRUE]
    BY <1>5, <2>1
  <2>3. Round(cs, ids, vecs).changed
    BY <2>2
  <2> QED
    BY <1>2, <1>4, <1>6, <2>3 DEF chosen
<1>8. CASE next = cs
  BY <1>2, <1>4, <1>6, <1>8 DEF chosen
<1> QED
  BY <1>7, <1>8

\* A function on 1 .. N given by its first value and a step.
Repetition(f, A, a, F, N) ==
  f \in [1 .. N -> A] /\ f[1] = a /\ \A n \in 2 .. N : f[n] = F[f[n - 1]]

LEMMA Repeats ==
  ASSUME NEW A, NEW a \in A, NEW F, F \in [A -> A], NEW N \in Nat, N # 0
  PROVE  \E f : Repetition(f, A, a, F, N)
<1> DEFINE step == [n \in 1 .. N |-> F]
<1>1. step \in [1 .. N -> [A -> A]] /\ \A n \in 1 .. N : step[n] = F
  OBVIOUS
<1> HIDE DEF step
<1>2. PICK g \in [0 .. N -> A] : g[0] = a /\ \A n \in 1 .. N : g[n] = step[n][g[n - 1]]
  <2>1. step \in [1 .. N -> [A -> A]]
    BY <1>1
  <2> QED
    BY ONLY <2>1, Iterates
<1> DEFINE f == [n \in 1 .. N |-> g[n - 1]]
<1>3. f \in [1 .. N -> A] /\ f[1] = a
  BY <1>2
<1>4. ASSUME NEW n \in 2 .. N PROVE f[n] = F[f[n - 1]]
  <2>1. n - 1 \in 1 .. N /\ n \in 1 .. N
    BY <1>4
  <2>2. g[n - 1] = F[g[(n - 1) - 1]]
    BY <1>1, <1>2, <2>1
  <2> QED
    BY <2>1, <2>2
<1> HIDE DEF f
<1>5. Repetition(f, A, a, F, N)
  BY <1>3, <1>4 DEF Repetition
<1> QED
  BY <1>5

\* What k-means may end with: a round from some centroids.
Rounds(ids, vecs, m) == {Round(cs, ids, vecs) : cs \in [1 .. m -> Centroid]}

Again(r, ids, vecs) == IF r.changed THEN Round(r.centroids, ids, vecs) ELSE r
FirstOf(seed, vecs) == [j \in DOMAIN seed |-> <<vecs[seed[j]], 1>>]

\* The rounds of k-means, the last of them repeated if they are fewer than they may be.
RoundsFrom(R, seed, ids, vecs, m) ==
  /\ R \in [1 .. MaxIterations -> Rounds(ids, vecs, m)]
  /\ R[1] = Round(FirstOf(seed, vecs), ids, vecs)
  /\ \A n \in 2 .. MaxIterations : R[n] = Again(R[n - 1], ids, vecs)

LEMMA RoundsAre ==
  ASSUME NEW ids, NEW vecs, NEW m, Clusterable(ids, vecs, m), NEW seed \in [1 .. m -> ids]
  PROVE  RoundsFrom(RoundsOf(ids, vecs, seed), seed, ids, vecs, m)
<1> DEFINE N == MaxIterations
           A == Rounds(ids, vecs, m)
           first == Round(FirstOf(seed, vecs), ids, vecs)
           again(r) == Again(r, ids, vecs)
           R[n \in 1 .. N] == IF n = 1 THEN first ELSE again(R[n - 1])
<1>1. N \in Nat \ {0}
  BY ClustersAssumption
<1>2. RoundsOf(ids, vecs, seed) = R
  BY DEF RoundsOf, Again, FirstOf
<1>3. first \in A
  <2>1. \A j \in 1 .. m : <<vecs[seed[j]], 1>> \in Centroid
    <3> TAKE j \in 1 .. m
    <3>1. vecs[seed[j]] \in Int
      BY LineAssumption DEF Clusterable, Stored
    <3> QED
      BY <3>1 DEF Centroid
  <2>2. FirstOf(seed, vecs) \in [1 .. m -> Centroid]
    BY <2>1 DEF FirstOf
  <2> QED
    BY <2>2 DEF Rounds
<1>4. \A r \in A : again(r) \in A
  <2> SUFFICES ASSUME NEW cs \in [1 .. m -> Centroid] PROVE again(Round(cs, ids, vecs)) \in A
    BY DEF Rounds
  <2>1. Round(cs, ids, vecs).centroids \in [1 .. m -> Centroid]
    BY RoundIs
  <2> QED
    BY <2>1 DEF Rounds, Again
<1> HIDE DEF A, first, again
<1>5. \E f : f = [n \in 1 .. N |-> IF n = 1 THEN first ELSE again(f[n - 1])]
  <2> DEFINE F == [r \in A |-> again(r)]
  <2>1. F \in [A -> A] /\ \A r \in A : F[r] = again(r)
    BY <1>4
  <2> HIDE DEF F, N, R
  <2>2. PICK f : Repetition(f, A, first, F, N)
    BY <1>1, <1>3, <2>1, Repeats
  <2>3. ASSUME NEW n \in 1 .. N, n # 1 PROVE f[n] = again(f[n - 1])
    <3>1. n \in 2 .. N /\ n - 1 \in 1 .. N
      BY <1>1, <2>3
    <3>2. f[n - 1] \in A
      BY <2>2, <3>1 DEF Repetition
    <3> QED
      BY <2>1, <2>2, <3>1, <3>2 DEF Repetition
  <2>4. f = [n \in 1 .. N |-> IF n = 1 THEN first ELSE again(f[n - 1])]
    BY <2>2, <2>3 DEF Repetition
  <2> QED
    BY <2>4
<1>6. R = [n \in 1 .. N |-> IF n = 1 THEN first ELSE again(R[n - 1])]
  BY <1>5 DEF R
<1> HIDE DEF R
<1> DEFINE T == {n \in Nat : n + 1 <= N => R[n + 1] \in A}
<1>7. 0 \in T
  BY <1>1, <1>3, <1>6
<1>8. ASSUME NEW n \in Nat, n \in T PROVE n + 1 \in T
  <2> SUFFICES ASSUME (n + 1) + 1 <= N PROVE R[(n + 1) + 1] \in A
    OBVIOUS
  <2>1. R[n + 1] \in A /\ (n + 1) + 1 \in 1 .. N /\ (n + 1) + 1 # 1 /\ ((n + 1) + 1) - 1 = n + 1
    BY <1>1, <1>8
  <2>2. R[(n + 1) + 1] = again(R[n + 1])
    BY <1>6, <2>1
  <2> QED
    BY <1>4, <2>1, <2>2
<1> HIDE DEF T
<1>9. ASSUME NEW n \in 1 .. N PROVE R[n] \in A
  <2>1. n - 1 \in Nat /\ (n - 1) + 1 = n /\ n <= N
    BY <1>1, <1>9
  <2>2. n - 1 \in T
    BY <1>7, <1>8, <2>1, Induct
  <2> QED
    BY <2>1, <2>2 DEF T
<1>10. R \in [1 .. N -> A]
  BY <1>6, <1>9
<1>11. R[1] = first /\ \A n \in 2 .. N : R[n] = again(R[n - 1])
  <2>1. 1 \in 1 .. N /\ \A n \in 2 .. N : n \in 1 .. N /\ n # 1
    BY <1>1
  <2> QED
    BY <1>6, <2>1
<1>12. RoundsFrom(R, seed, ids, vecs, m)
  BY <1>10, <1>11 DEF RoundsFrom, A, first, again
<1> QED
  BY <1>2, <1>12

\* What a build ends with.
LEMMA LastRoundIs ==
  ASSUME NEW ids, NEW vecs, NEW m, Clusterable(ids, vecs, m), NEW seed \in [1 .. m -> ids]
  PROVE  LastRound(ids, vecs, seed) \in Rounds(ids, vecs, m)
<1>1. RoundsFrom(RoundsOf(ids, vecs, seed), seed, ids, vecs, m)
  BY RoundsAre
<1> QED
  BY <1>1, ClustersAssumption DEF RoundsFrom, LastRound

-----------------------------------------------------------------------------
(* What a call leaves in the clusters *)

\* The index lists each id of S; it lists each in the cluster a search for its
\* vector begins with; it lists no id twice.
Listed(i, S) ==
  i.clusters # <<>> => \A id \in S : Holders(i, id) # {}

InItsCluster(i, vecs, S) ==
  i.clusters # <<>> =>
    \A id \in S : i.clusters[NearestOf(Centroids(i), vecs[id])].entries[id] > 0

Once(i) ==
  \A id \in Ids : \A j \in DOMAIN i.clusters :
    /\ i.clusters[j].entries[id] <= 1
    /\ \A h \in Holders(i, id) : i.clusters[j].entries[id] > 0 => h = j

LEMMA WithEntriesIs ==
  ASSUME NEW i \in Clusters, NEW e \in [DOMAIN i.clusters -> [Ids -> Nat]]
  PROVE  /\ WithEntries(i, e) \in Clusters
         /\ WithEntries(i, e).since = i.since
         /\ DOMAIN WithEntries(i, e).clusters = DOMAIN i.clusters
         /\ Centroids(WithEntries(i, e)) = Centroids(i)
         /\ \A j \in DOMAIN i.clusters : WithEntries(i, e).clusters[j].entries = e[j]
         /\ WithEntries(i, e).clusters # <<>> <=> i.clusters # <<>>
<1> DEFINE m == Len(i.clusters)
           cl == [j \in 1 .. m |-> [i.clusters[j] EXCEPT !.entries = e[j]]]
           r == WithEntries(i, e)
<1>1. m \in Nat /\ i.clusters \in [1 .. m -> Cluster] /\ DOMAIN i.clusters = 1 .. m
  BY ClustersAre
<1>2. i.since \in Nat /\ i = [clusters |-> i.clusters, since |-> i.since]
  BY DEF Clusters
<1>3. r = [i EXCEPT !.clusters = cl]
  BY <1>1 DEF WithEntries
<1>4. r.clusters = cl /\ r.since = i.since /\ r = [clusters |-> cl, since |-> i.since]
  BY <1>2, <1>3
<1>5. \A j \in 1 .. m : /\ cl[j] = [centroid |-> i.clusters[j].centroid, entries |-> e[j]]
                        /\ i.clusters[j].centroid \in Centroid /\ e[j] \in [Ids -> Nat]
  <2> TAKE j \in 1 .. m
  <2>1. i.clusters[j] \in Cluster
    BY <1>1
  <2>2. cl[j] = [i.clusters[j] EXCEPT !.entries = e[j]]
    OBVIOUS
  <2> QED
    BY <1>1, <2>1, <2>2 DEF Cluster
<1>6. \A j \in 1 .. m : cl[j] \in Cluster
  BY <1>5 DEF Cluster
<1>7. cl \in [1 .. m -> Cluster] /\ DOMAIN cl = 1 .. m
  BY <1>6
<1>8. cl \in Seq(Cluster)
  BY <1>1, <1>7
<1>9. r \in Clusters
  BY <1>2, <1>4, <1>8 DEF Clusters
<1>10. r.clusters # <<>> <=> i.clusters # <<>>
  <2>1. \A s \in Seq(Cluster) : s # <<>> <=> Len(s) # 0
    OBVIOUS
  <2>2. Len(cl) = m
    BY <1>1, <1>7, <1>8
  <2>3. i.clusters \in Seq(Cluster)
    BY DEF Clusters
  <2> QED
    BY <1>4, <1>8, <2>1, <2>2, <2>3
<1>11. Centroids(r) = Centroids(i)
  BY <1>1, <1>4, <1>5, <1>7 DEF Centroids
<1> QED
  BY <1>1, <1>4, <1>5, <1>7, <1>9, <1>10, <1>11

LEMMA HomeIs ==
  ASSUME NEW i \in Clusters, i.clusters # <<>>, NEW vecs \in Stored, NEW id \in Present(vecs)
  PROVE  NearestOf(Centroids(i), vecs[id]) \in DOMAIN i.clusters
<1> DEFINE m == Len(i.clusters)
           cs == Centroids(i)
<1>1. m \in Nat \ {0} /\ cs \in [1 .. m -> Centroid] /\ DOMAIN i.clusters = 1 .. m
  BY ClustersAre
<1>2. vecs[id] \in Int
  BY LineAssumption DEF Present, Stored
<1> HIDE DEF m, cs
<1>3. IsNearest(cs, vecs[id], 1 .. m, NearestOf(cs, vecs[id]))
  BY <1>1, <1>2, NearestOfIs
<1> QED
  BY <1>1, <1>3 DEF IsNearest, cs

\* r is i with the vectors of ids filed, each into the nearest cluster.
FiledAs(i, r, ids, vecs) ==
  LET home(id) == NearestOf(Centroids(i), vecs[id]) IN
  /\ r \in Clusters /\ r.since = i.since
  /\ DOMAIN r.clusters = DOMAIN i.clusters /\ Centroids(r) = Centroids(i)
  /\ r.clusters # <<>> <=> i.clusters # <<>>
  /\ \A id \in Ids, j \in DOMAIN i.clusters :
       r.clusters[j].entries[id] =
         i.clusters[j].entries[id] + IF id \in ids /\ vecs[id] # Nil /\ home(id) = j THEN 1 ELSE 0
  /\ i.clusters # <<>> => \A id \in ids \cap Present(vecs) : home(id) \in DOMAIN i.clusters

LEMMA FiledInIs ==
  ASSUME NEW i \in Clusters, NEW ids \in SUBSET Ids, NEW vecs \in Stored
  PROVE  FiledAs(i, FiledIn(i, ids, vecs), ids, vecs)
<1> DEFINE r == FiledIn(i, ids, vecs)
           home(id) == NearestOf(Centroids(i), vecs[id])
           goes(id, j) == id \in ids /\ vecs[id] # Nil /\ home(id) = j
           old(j) == i.clusters[j].entries
           e == [j \in DOMAIN i.clusters |-> [id \in Ids |-> old(j)[id] + IF goes(id, j) THEN 1 ELSE 0]]
<1>1. r = WithEntries(i, e)
  BY DEF FiledIn
<1>2. \A j \in DOMAIN i.clusters : old(j) \in [Ids -> Nat]
  BY ClustersAre DEF Cluster
<1> HIDE DEF r, goes, old
<1>3. e \in [DOMAIN i.clusters -> [Ids -> Nat]]
  BY <1>2
<1>4. \A id \in Ids, j \in DOMAIN i.clusters : e[j][id] = old(j)[id] + IF goes(id, j) THEN 1 ELSE 0
  BY <1>2
<1> HIDE DEF e
<1>5. /\ r \in Clusters /\ r.since = i.since
      /\ DOMAIN r.clusters = DOMAIN i.clusters /\ Centroids(r) = Centroids(i)
      /\ r.clusters # <<>> <=> i.clusters # <<>>
      /\ \A j \in DOMAIN i.clusters : r.clusters[j].entries = e[j]
  BY <1>1, <1>3, WithEntriesIs
<1>6. ASSUME i.clusters # <<>>, NEW id \in ids \cap Present(vecs) PROVE home(id) \in DOMAIN i.clusters
  BY <1>6, HomeIs
<1>7. \A id \in Ids, j \in DOMAIN i.clusters :
        r.clusters[j].entries[id] = old(j)[id] + IF goes(id, j) THEN 1 ELSE 0
  BY <1>4, <1>5
<1> QED
  BY <1>5, <1>6, <1>7 DEF r, goes, old, FiledAs

\* Taking ids out of their first cluster leaves the others in theirs, and no
\* cluster with less than no entry.
Unfiling(i, r, ids) ==
  /\ r \in Clusters
  /\ DOMAIN r.clusters = DOMAIN i.clusters /\ Centroids(r) = Centroids(i)
  /\ r.clusters # <<>> <=> i.clusters # <<>>
  /\ \A id \in Ids, j \in DOMAIN i.clusters :
       /\ r.clusters[j].entries[id] <= i.clusters[j].entries[id]
       /\ id \notin ids => r.clusters[j].entries[id] = i.clusters[j].entries[id]

LEMMA UnfiledIs ==
  ASSUME NEW i \in Clusters, NEW ids \in SUBSET Ids
  PROVE  Unfiling(i, Unfiled(i, ids), ids)
<1> DEFINE r == Unfiled(i, ids)
           first(id, j) == j \in Holders(i, id) /\ \A h \in Holders(i, id) : j <= h
           goes(id, j) == id \in ids /\ first(id, j)
           old(j) == i.clusters[j].entries
           e == [j \in DOMAIN i.clusters |-> [id \in Ids |-> old(j)[id] - IF goes(id, j) THEN 1 ELSE 0]]
<1>1. r = WithEntries(i, e)
  BY DEF Unfiled
<1>2. \A j \in DOMAIN i.clusters : old(j) \in [Ids -> Nat]
  BY ClustersAre DEF Cluster
<1>3. \A id \in Ids, j \in DOMAIN i.clusters : goes(id, j) => old(j)[id] > 0 /\ id \in ids
  BY DEF Holders
<1> HIDE DEF r, goes, old, first
<1>4. e \in [DOMAIN i.clusters -> [Ids -> Nat]]
  BY <1>2, <1>3
<1>5. \A id \in Ids, j \in DOMAIN i.clusters :
        e[j][id] <= old(j)[id] /\ (id \notin ids => e[j][id] = old(j)[id])
  BY <1>2, <1>3
<1> HIDE DEF e
<1>6. /\ r \in Clusters
      /\ DOMAIN r.clusters = DOMAIN i.clusters /\ Centroids(r) = Centroids(i)
      /\ r.clusters # <<>> <=> i.clusters # <<>>
      /\ \A j \in DOMAIN i.clusters : r.clusters[j].entries = e[j]
  BY <1>1, <1>4, WithEntriesIs
<1> QED
  BY <1>5, <1>6 DEF r, old, Unfiling

\* k-means has come to rest before its last round.
Rests(ids, vecs) == K # 0 => \A s \in Seeds(ids) : ~LastRound(ids, vecs, s).changed

\* b is a rebuilt index: what it lists, and where.
BuiltFrom(b, vecs) ==
  /\ b \in Clusters /\ b.since = 0
  /\ Listed(b, Present(vecs)) /\ Once(b)
  /\ Rests(Present(vecs), vecs) => InItsCluster(b, vecs, Present(vecs))

LEMMA NoClustersIs ==
  NoClusters \in Clusters /\ NoClusters.clusters = <<>> /\ Once(NoClusters)
BY DEF NoClusters, Clusters, Once

\* A rebuilt index lists each vector once, in the cluster that was the nearest
\* in the last round: if nothing moved in that round, in the nearest there is.
LEMMA BuildsIs ==
  ASSUME NEW vecs \in Stored, NEW b \in Builds(vecs)
  PROVE  BuiltFrom(b, vecs)
<1> DEFINE ids == Present(vecs)
           m == IF K < Cardinality(ids) THEN K ELSE Cardinality(ids)
<1>1. PICK s \in Seeds(ids) : b = [clusters |-> KMeans(ids, vecs, s), since |-> 0]
  BY DEF Builds
<1>17. CASE ids = {} \/ K = 0
  <2>1. b = NoClusters
    BY <1>1, <1>17 DEF KMeans, NoClusters
  <2> QED
    BY <2>1, NoClustersIs DEF BuiltFrom, Listed, InItsCluster, NoClusters
<1> SUFFICES ASSUME ids # {}, K # 0 PROVE BuiltFrom(b, vecs)
  BY <1>17
<1>2. ids \in SUBSET Ids
  BY DEF Present
<1>3. m \in Nat /\ m # 0
  <2>1. IsFiniteSet(ids) /\ Cardinality(ids) \in Nat /\ (Cardinality(ids) = 0 <=> ids = {})
    BY <1>2, LineAssumption, FS_Subset, FS_CardinalityType, FS_EmptySet
  <2> QED
    BY <2>1, ClustersAssumption
<1>4. s \in [1 .. m -> ids]
  BY DEF Seeds
<1> HIDE DEF m
<1>5. Clusterable(ids, vecs, m)
  BY <1>2, <1>3 DEF Clusterable, Present
<1> DEFINE end == LastRound(ids, vecs, s)
<1>6. PICK cs \in [1 .. m -> Centroid] : end = Round(cs, ids, vecs)
  <2> HIDE DEF ids
  <2>1. end \in Rounds(ids, vecs, m)
    BY <1>4, <1>5, LastRoundIs
  <2> QED
    BY <2>1 DEF Rounds
<1>7. /\ end.chosen = [id \in ids |-> NearestOf(cs, vecs[id])]
      /\ end.chosen \in [ids -> 1 .. m] /\ end.centroids \in [1 .. m -> Centroid]
      /\ ~end.changed => end.centroids = cs
  <2> HIDE DEF ids
  <2> QED
    BY <1>5, <1>6, RoundIs
<1> HIDE DEF end
<1> DEFINE listed(j) == [id \in Ids |-> IF id \in Members(end.chosen, j) THEN 1 ELSE 0]
           cl == [j \in 1 .. m |-> [centroid |-> end.centroids[j], entries |-> listed(j)]]
<1>8. b.clusters = cl /\ b.since = 0 /\ b = [clusters |-> cl, since |-> 0]
  BY <1>1, <1>4 DEF KMeans, end
<1>9. \A j \in 1 .. m : listed(j) \in [Ids -> Nat] /\ end.centroids[j] \in Centroid
  BY <1>7
<1>10. \A j \in 1 .. m, id \in Ids :
         listed(j)[id] = IF id \in ids /\ end.chosen[id] = j THEN 1 ELSE 0
  BY <1>7 DEF Members
<1> HIDE DEF listed, ids
<1>11. cl \in [1 .. m -> Cluster] /\ DOMAIN cl = 1 .. m
  BY <1>9 DEF Cluster
<1>12. \A j \in 1 .. m : cl[j].centroid = end.centroids[j] /\ cl[j].entries = listed(j)
  OBVIOUS
<1> HIDE DEF cl
<1>13. b \in Clusters
  <2>1. cl \in Seq(Cluster)
    BY <1>3, <1>11
  <2> QED
    BY <1>8, <2>1 DEF Clusters
<1>14. Listed(b, ids)
  <2> SUFFICES ASSUME NEW id \in ids PROVE Holders(b, id) # {}
    BY DEF Listed
  <2>1. end.chosen[id] \in 1 .. m
    BY <1>7
  <2>2. cl[end.chosen[id]].entries[id] = 1
    BY <1>2, <1>10, <1>12, <2>1
  <2> QED
    BY <1>8, <1>11, <2>1, <2>2 DEF Holders
<1>15. Once(b)
  <2>1. \A id \in Ids, j \in DOMAIN b.clusters :
          b.clusters[j].entries[id] = IF id \in ids /\ end.chosen[id] = j THEN 1 ELSE 0
    BY <1>8, <1>10, <1>11, <1>12
  <2> QED
    BY <2>1 DEF Once, Holders
<1>16. ASSUME Rests(ids, vecs) PROVE InItsCluster(b, vecs, ids)
  <2>1. end.centroids = cs
    BY <1>7, <1>16 DEF Rests, end
  <2>2. Centroids(b) = cs
    BY <1>7, <1>8, <1>11, <1>12, <2>1 DEF Centroids
  <2> SUFFICES ASSUME NEW id \in ids
               PROVE  b.clusters[NearestOf(Centroids(b), vecs[id])].entries[id] > 0
    BY DEF InItsCluster
  <2>3. NearestOf(Centroids(b), vecs[id]) = end.chosen[id] /\ end.chosen[id] \in 1 .. m
    BY <1>7, <2>2
  <2> QED
    BY <1>2, <1>8, <1>10, <1>12, <2>3
<1> QED
  BY <1>8, <1>13, <1>14, <1>15, <1>16 DEF ids, BuiltFrom

\* on_vectors_added() with the collection as it is then.
LEMMA AddedIs ==
  ASSUME NEW i \in Clusters, NEW ids \in (SUBSET Ids) \ {{}}, NEW vecs \in Stored,
         NEW r \in ClustersAdded(i, ids, vecs)
  PROVE  /\ r \in Clusters
         /\ Listed(i, Present(vecs) \ ids) => Listed(r, Present(vecs))
         /\ InItsCluster(i, vecs, Present(vecs) \ ids) /\ Rests(Present(vecs), vecs) =>
              InItsCluster(r, vecs, Present(vecs))
         /\ r.since = 0 => Once(r)
         /\ Once(i) /\ (\A id \in ids : Holders(i, id) = {}) => Once(r)
<1> DEFINE since == i.since + Cardinality(ids)
           i1 == [i EXCEPT !.since = since]
<1>1. Cardinality(ids) \in Nat \ {0} /\ i.since \in Nat /\ i = [clusters |-> i.clusters, since |-> i.since]
  BY LineAssumption, FS_Subset, FS_CardinalityType, FS_EmptySet DEF Clusters
<1>2. CASE r \in Builds(vecs)
  BY <1>2, BuildsIs DEF BuiltFrom
<1>3. CASE i.clusters # <<>> /\ r = FiledIn(i1, ids, vecs)
  <2>1. /\ i1.clusters = i.clusters /\ i1.since = since /\ since \in Nat \ {0} /\ i1 \in Clusters
    BY <1>1 DEF Clusters
  <2> DEFINE home(id) == NearestOf(Centroids(i), vecs[id])
             more(id, j) == IF id \in ids /\ vecs[id] # Nil /\ home(id) = j THEN 1 ELSE 0
             D == DOMAIN i.clusters
             old(id, j) == i.clusters[j].entries[id]
  <2>2. Centroids(i1) = Centroids(i)
    BY <2>1 DEF Centroids
  <2> HIDE DEF i1, since
  <2>3. FiledAs(i1, r, ids, vecs)
    BY <1>3, <2>1, FiledInIs
  <2>4. /\ r \in Clusters /\ r.since # 0 /\ DOMAIN r.clusters = D /\ Centroids(r) = Centroids(i)
        /\ \A id \in Ids, j \in D : r.clusters[j].entries[id] = old(id, j) + more(id, j)
        /\ \A id \in ids \cap Present(vecs) : home(id) \in D
    BY <1>3, <2>1, <2>2, <2>3 DEF FiledAs
  <2>5. \A id \in Ids, j \in D : old(id, j) \in Nat
    <3> TAKE id \in Ids, j \in D
    <3>1. i.clusters[j] \in Cluster
      BY ClustersAre
    <3> QED
      BY <3>1 DEF Cluster
  <2>6. \A id \in Ids : /\ Holders(i, id) = {j \in D : old(id, j) > 0}
                        /\ Holders(r, id) = {j \in D : r.clusters[j].entries[id] > 0}
    BY <2>4 DEF Holders
  <2>7. \A id \in Ids, j \in D : more(id, j) \in {0, 1} /\ (id \notin ids => more(id, j) = 0)
    OBVIOUS
  <2>8. \A id \in ids \cap Present(vecs) : home(id) \in D /\ more(id, home(id)) = 1
    BY <2>4 DEF Present
  <2>9. \A id \in Ids, j \in D, h \in D : more(id, j) = 1 /\ more(id, h) = 1 => j = h
    OBVIOUS
  <2> HIDE DEF home, more, old, D
  <2>10. \A id \in Ids, j \in D :
           /\ old(id, j) > 0 => r.clusters[j].entries[id] > 0
           /\ more(id, j) = 1 => r.clusters[j].entries[id] > 0
    BY <2>4, <2>5, <2>7
  <2>11. ASSUME Listed(i, Present(vecs) \ ids) PROVE Listed(r, Present(vecs))
    <3> SUFFICES ASSUME NEW id \in Present(vecs) PROVE Holders(r, id) # {}
      BY DEF Listed
    <3>1. id \in Ids
      BY DEF Present
    <3>2. CASE id \in ids
      BY <2>6, <2>8, <2>10, <3>1, <3>2
    <3>3. CASE id \notin ids
      <4>1. Holders(i, id) # {}
        BY <1>3, <2>11, <3>3 DEF Listed
      <4> QED
        BY <2>6, <2>10, <3>1, <4>1
    <3> QED
      BY <3>2, <3>3
  <2>12. ASSUME InItsCluster(i, vecs, Present(vecs) \ ids) PROVE InItsCluster(r, vecs, Present(vecs))
    <3> SUFFICES ASSUME NEW id \in Present(vecs)
                 PROVE  r.clusters[home(id)].entries[id] > 0
      BY <2>4 DEF InItsCluster, home
    <3>1. id \in Ids
      BY DEF Present
    <3>2. CASE id \in ids
      BY <2>8, <2>10, <3>1, <3>2
    <3>3. CASE id \notin ids
      <4>1. old(id, home(id)) > 0
        BY <1>3, <2>12, <3>3 DEF InItsCluster, home, old
      <4>2. home(id) \in D
        BY <1>3, HomeIs DEF home, D
      <4> QED
        BY <2>10, <3>1, <4>1, <4>2
    <3> QED
      BY <3>2, <3>3
  <2>13. ASSUME Once(i), \A id \in ids : Holders(i, id) = {} PROVE Once(r)
    <3>1. \A id \in ids, j \in D : old(id, j) = 0
      BY <2>5, <2>6, <2>13
    <3>2. ASSUME NEW id \in Ids, NEW j \in D
          PROVE  /\ r.clusters[j].entries[id] <= 1
                 /\ \A h \in Holders(r, id) : r.clusters[j].entries[id] > 0 => h = j
      <4>1. CASE id \in ids
        <5>1. \A h \in D : r.clusters[h].entries[id] = more(id, h)
          BY <2>4, <2>7, <3>1, <4>1
        <5> QED
          BY <2>6, <2>7, <2>9, <3>2, <5>1
      <4>2. CASE id \notin ids
        <5>1. \A h \in D : r.clusters[h].entries[id] = old(id, h)
          BY <2>4, <2>5, <2>7, <4>2
        <5>2. Holders(r, id) = Holders(i, id)
          BY <2>6, <5>1
        <5>3. /\ old(id, j) <= 1
              /\ \A h \in Holders(i, id) : old(id, j) > 0 => h = j
          BY <2>13, <3>2 DEF Once, old, D
        <5> QED
          BY <3>2, <5>1, <5>2, <5>3
      <4> QED
        BY <4>1, <4>2
    <3> QED
      BY <2>4, <3>2 DEF Once
  <2> QED
    BY <2>4, <2>11, <2>12, <2>13
<1> QED
  BY <1>2, <1>3 DEF ClustersAdded

\* on_vectors_removed(); the vectors of the other ids stay as they are.
LEMMA RemovedIs ==
  ASSUME NEW i \in Clusters, NEW ids \in SUBSET Ids, NEW vecs \in Stored, NEW new \in Stored,
         NEW S \in SUBSET Present(vecs)
  PROVE  /\ ClustersRemoved(i, ids) \in Clusters
         /\ Listed(i, S) => Listed(ClustersRemoved(i, ids), S \ ids)
         /\ (\A id \in Ids \ ids : new[id] = vecs[id]) /\ InItsCluster(i, vecs, S) =>
              InItsCluster(ClustersRemoved(i, ids), new, S \ ids)
         /\ Once(i) => Once(ClustersRemoved(i, ids))
<1> DEFINE r == ClustersRemoved(i, ids)
           since == i.since + Cardinality(ids)
           i1 == [i EXCEPT !.since = since]
<1>1. Cardinality(ids) \in Nat /\ i.since \in Nat /\ i = [clusters |-> i.clusters, since |-> i.since]
  BY LineAssumption, FS_Subset, FS_CardinalityType DEF Clusters
<1>2. CASE i.clusters = <<>>
  <2>1. r = i
    BY <1>2 DEF ClustersRemoved
  <2> QED
    BY <1>2, <2>1 DEF Listed, InItsCluster
<1>3. CASE i.clusters # <<>> /\ r = NoClusters
  BY <1>3, NoClustersIs DEF Listed, InItsCluster
<1>4. CASE i.clusters # <<>> /\ r = Unfiled(i1, ids)
  <2>1. i1.clusters = i.clusters /\ i1 \in Clusters
    BY <1>1 DEF Clusters
  <2>2. Centroids(i1) = Centroids(i)
    BY <2>1 DEF Centroids
  <2> HIDE DEF i1, r
  <2>3. Unfiling(i1, r, ids)
    BY <1>4, <2>1, UnfiledIs
  <2> DEFINE D == DOMAIN i.clusters
             old(id, j) == i.clusters[j].entries[id]
             left(id, j) == r.clusters[j].entries[id]
  <2>4. /\ r \in Clusters /\ DOMAIN r.clusters = D /\ Centroids(r) = Centroids(i)
        /\ \A id \in Ids, j \in D : /\ left(id, j) <= old(id, j)
                                    /\ id \notin ids => left(id, j) = old(id, j)
    BY <2>1, <2>2, <2>3 DEF Unfiling
  <2>5. \A id \in Ids, j \in D : old(id, j) \in Nat /\ left(id, j) \in Nat
    <3> TAKE id \in Ids, j \in D
    <3>1. i.clusters[j] \in Cluster /\ r.clusters[j] \in Cluster
      BY <2>4, ClustersAre
    <3> QED
      BY <3>1 DEF Cluster
  <2>6. \A id \in Ids : /\ Holders(i, id) = {j \in D : old(id, j) > 0}
                        /\ Holders(r, id) = {j \in D : left(id, j) > 0}
    BY <2>4 DEF Holders
  <2>7. ASSUME Listed(i, S) PROVE Listed(r, S \ ids)
    <3> HIDE DEF old, left, D
    <3> SUFFICES ASSUME NEW id \in S \ ids PROVE Holders(r, id) # {}
      BY DEF Listed
    <3>1. Holders(i, id) # {} /\ id \in Ids
      BY <1>4, <2>7 DEF Listed, Present
    <3> QED
      BY <2>4, <2>6, <3>1
  <2>8. ASSUME \A id \in Ids \ ids : new[id] = vecs[id], InItsCluster(i, vecs, S)
        PROVE  InItsCluster(r, new, S \ ids)
    <3> SUFFICES ASSUME NEW id \in S \ ids, r.clusters # <<>>
                 PROVE  r.clusters[NearestOf(Centroids(r), new[id])].entries[id] > 0
      BY DEF InItsCluster
    <3> DEFINE home == NearestOf(Centroids(i), vecs[id])
    <3>1. NearestOf(Centroids(r), new[id]) = home
      <4>1. new[id] = vecs[id]
        BY <2>8 DEF Present
      <4> QED
        BY <2>4, <4>1
    <3>2. old(id, home) > 0
      BY <1>4, <2>8 DEF InItsCluster
    <3>3. home \in D /\ id \in Ids
      BY <1>4, HomeIs DEF Present
    <3> HIDE DEF home, D
    <3> QED
      BY <2>4, <3>1, <3>2, <3>3
  <2>9. ASSUME Once(i) PROVE Once(r)
    <3>1. ASSUME NEW id \in Ids, NEW j \in D
          PROVE  left(id, j) <= 1 /\ \A h \in Holders(r, id) : left(id, j) > 0 => h = j
      <4>1. old(id, j) <= 1 /\ \A h \in Holders(i, id) : old(id, j) > 0 => h = j
        BY <2>9, <3>1 DEF Once
      <4> HIDE DEF old, left, D
      <4>2. left(id, j) <= old(id, j) /\ old(id, j) \in Nat /\ left(id, j) \in Nat
        BY <2>4, <2>5, <3>1
      <4>3. Holders(r, id) \subseteq Holders(i, id)
        BY <2>4, <2>5, <2>6
      <4> QED
        BY <4>1, <4>2, <4>3
    <3> QED
      BY <2>4, <3>1 DEF Once
  <2> QED
    BY <2>4, <2>7, <2>8, <2>9 DEF r
<1> QED
  BY <1>2, <1>3, <1>4 DEF ClustersRemoved

-----------------------------------------------------------------------------
(* The invariants *)

\* The index lists what the collection holds and has told it of; unless an id was
\* filed again since the last rebuild, once.
ClusterInv ==
  /\ ivf \in Clusters
  /\ updates \in 0 .. MaxUpdates[installed]
  /\ refiled \in SUBSET Ids
  /\ ~Hnsw => Listed(ivf, Live \ unnoted) /\ (refiled = {} => Once(ivf))

\* It lists each in the cluster a search for its vector begins with.
HomeInv == ~Hnsw => InItsCluster(ivf, vectors, Live \ unnoted)

LEMMA InitClusters == Init => ClusterInv /\ HomeInv
<1> SUFFICES ASSUME Init PROVE ClusterInv /\ HomeInv
  OBVIOUS
<1>1. ivf = NoClusters /\ installed \in Kinds /\ updates = 0 /\ refiled = {}
  BY DEF Init
<1>2. updates \in 0 .. MaxUpdates[installed]
  BY <1>1, CallsAssumption
<1> QED
  BY <1>1, <1>2, NoClustersIs DEF ClusterInv, HomeInv, Listed, InItsCluster

\* A call that does not touch the index.
LEMMA ClustersKept ==
  ASSUME ClusterInv, UNCHANGED <<ivf, refiled, installed>>,
         updates' \in 0 .. MaxUpdates[installed], Hnsw \/ Live' \ unnoted' \subseteq Live \ unnoted
  PROVE  ClusterInv'
BY DEF ClusterInv, Hnsw, Listed, Holders

LEMMA HomesKept ==
  ASSUME HomeInv, UNCHANGED <<ivf, installed>>,
         Hnsw \/ \A id \in Live' \ unnoted' : id \in Live \ unnoted /\ vectors'[id] = vectors[id]
  PROVE  HomeInv'
BY DEF HomeInv, Hnsw, InItsCluster

LEMMA ClusterStep ==
  ASSUME Types, Types', ClusterInv, [Next]_vars
  PROVE  ClusterInv' /\ (HomeInv /\ KMeansRests => HomeInv')
<1>0. /\ vectors \in Stored /\ vectors' \in Stored /\ unnoted \in SUBSET Ids /\ installed \in Kinds
      /\ MaxUpdates[installed] \in Nat /\ updates \in 0 .. MaxUpdates[installed] /\ ivf \in Clusters
  BY CallsAssumption DEF Types, ClusterInv
<1>1. ASSUME NEW ids \in Batches, NEW place \in [ids -> Vals], Write(ids, place)
      PROVE  ClusterInv' /\ (HomeInv /\ KMeansRests => HomeInv')
  <2>1. /\ UNCHANGED <<ivf, refiled, installed>> /\ updates' \in 0 .. MaxUpdates[installed]
        /\ unnoted = {} /\ unnoted' = ids
        /\ \A id \in Ids \ ids : vectors'[id] = vectors[id]
    BY <1>0, <1>1 DEF Write
  <2>2. \A id \in Live' \ unnoted' : id \in Live \ unnoted /\ vectors'[id] = vectors[id]
    BY <2>1 DEF Live, Present
  <2>3. ClusterInv'
    BY <2>1, <2>2, ClustersKept
  <2>4. HomeInv => HomeInv'
    BY <2>1, <2>2, HomesKept
  <2> QED
    BY <2>3, <2>4
<1>2. CASE Notify
  <2>1. /\ unnoted \in (SUBSET Ids) \ {{}} /\ unnoted' = {} /\ UNCHANGED <<vectors, installed, updates>>
        /\ Live' = Live
    BY <1>0, <1>2 DEF Notify, Live
  <2>2. CASE Hnsw /\ UNCHANGED <<ivf, refiled>>
    <3>1. ClusterInv'
      BY <1>0, <2>1, <2>2, ClustersKept
    <3>2. HomeInv'
      BY <2>1, <2>2 DEF HomeInv, Hnsw
    <3> QED
      BY <3>1, <3>2
  <2>3. CASE /\ ~Hnsw /\ ivf' \in ClustersAdded(ivf, unnoted, vectors)
             /\ refiled' = IF ivf'.since = 0 THEN {}
                           ELSE refiled \cup {id \in unnoted : Holders(ivf, id) # {}}
    <3>1. /\ ivf' \in Clusters
          /\ Listed(ivf, Live \ unnoted) => Listed(ivf', Live)
          /\ InItsCluster(ivf, vectors, Live \ unnoted) /\ Rests(Live, vectors) =>
               InItsCluster(ivf', vectors, Live)
          /\ ivf'.since = 0 => Once(ivf')
          /\ Once(ivf) /\ (\A id \in unnoted : Holders(ivf, id) = {}) => Once(ivf')
      BY <1>0, <2>1, <2>3, AddedIs DEF Live
    <3>2. Live' \ unnoted' = Live /\ Hnsw' = Hnsw
      BY <2>1 DEF Hnsw
    <3>3. ClusterInv'
      <4>1. Listed(ivf', Live' \ unnoted')
        BY <2>3, <3>1, <3>2 DEF ClusterInv
      <4>2. ASSUME refiled' = {} PROVE Once(ivf')
        <5>1. CASE ivf'.since = 0
          BY <3>1, <5>1
        <5>2. CASE ivf'.since # 0
          <6>1. refiled = {} /\ \A id \in unnoted : Holders(ivf, id) = {}
            BY <2>3, <4>2, <5>2
          <6> QED
            BY <2>3, <3>1, <6>1 DEF ClusterInv
        <5> QED
          BY <5>1, <5>2
      <4>3. refiled' \in SUBSET Ids
        BY <1>0, <2>3 DEF ClusterInv
      <4> QED
        BY <1>0, <2>1, <3>1, <4>1, <4>2, <4>3 DEF ClusterInv, Listed, Once, Holders
    <3>4. ASSUME HomeInv, KMeansRests PROVE HomeInv'
      <4>1. Rests(Live, vectors)
        BY <2>3, <3>4 DEF KMeansRests, Rests
      <4>2. InItsCluster(ivf', vectors, Live)
        BY <2>3, <3>1, <3>4, <4>1 DEF HomeInv
      <4> QED
        BY <2>1, <3>2, <4>2 DEF HomeInv, InItsCluster, Centroids
    <3> QED
      BY <3>3, <3>4
  <2> QED
    BY <1>2, <2>2, <2>3 DEF Notify
<1>3. ASSUME NEW ids \in Batches, Remove(ids)
      PROVE  ClusterInv' /\ (HomeInv /\ KMeansRests => HomeInv')
  <2>1. /\ UNCHANGED <<refiled, installed, unnoted>> /\ updates' \in 0 .. MaxUpdates[installed]
        /\ ids \in SUBSET Ids /\ Live' = Live \ ids
        /\ \A id \in Ids \ ids : vectors'[id] = vectors[id]
    BY <1>0, <1>3, CallsAssumption DEF Remove, Live, Present
  <2>2. CASE Hnsw /\ UNCHANGED ivf
    <3>1. ClusterInv'
      BY <2>1, <2>2, ClustersKept
    <3>2. HomeInv'
      BY <2>1, <2>2 DEF HomeInv, Hnsw
    <3> QED
      BY <3>1, <3>2
  <2>3. CASE ~Hnsw /\ ivf' = ClustersRemoved(ivf, ids)
    <3> DEFINE S == Live \ unnoted
    <3>1. S \in SUBSET Present(vectors) /\ Live' \ unnoted' = S \ ids /\ Hnsw' = Hnsw
      BY <2>1 DEF Live, Hnsw
    <3> HIDE DEF S
    <3>2. /\ ivf' \in Clusters
          /\ Listed(ivf, S) => Listed(ivf', S \ ids)
          /\ InItsCluster(ivf, vectors, S) => InItsCluster(ivf', vectors', S \ ids)
          /\ Once(ivf) => Once(ivf')
      BY <1>0, <2>1, <2>3, <3>1, RemovedIs
    <3>3. ClusterInv'
      BY <2>1, <2>3, <3>1, <3>2 DEF ClusterInv, S, Listed, Once, Holders
    <3>4. HomeInv => HomeInv'
      BY <2>3, <3>1, <3>2 DEF HomeInv, S, InItsCluster, Centroids
    <3> QED
      BY <3>3, <3>4
  <2> QED
    BY <1>3, <2>2, <2>3 DEF Remove
<1>4. ASSUME UNCHANGED <<collection, ivf, updates, refiled>>
      PROVE  ClusterInv' /\ (HomeInv => HomeInv')
  <2>1. UNCHANGED <<vectors, unnoted, installed, ivf, updates, refiled, Live>>
    BY <1>4 DEF collection, Live
  <2>2. ClusterInv'
    BY <1>0, <2>1, ClustersKept
  <2>3. HomeInv => HomeInv'
    BY <2>1, HomesKept
  <2> QED
    BY <2>2, <2>3
<1>5. CASE Drain
  BY <1>4, <1>5 DEF Drain
<1>6. ASSUME NEW id \in Ids, NEW level \in Layers, Insert(id, level)
      PROVE  ClusterInv' /\ (HomeInv => HomeInv')
  BY <1>4, <1>6 DEF Insert
<1>7. CASE Drained
  BY <1>4, <1>7 DEF Drained
<1>8. CASE UNCHANGED vars
  BY <1>4, <1>8 DEF vars, history
<1> QED
  BY <1>1, <1>2, <1>3, <1>5, <1>6, <1>7, <1>8 DEF Next

LEMMA ClustersInvariant == Spec => []ClusterInv
<1>1. Init => ClusterInv
  BY InitClusters
<1>2. Types /\ Types' /\ ClusterInv /\ [Next]_vars => ClusterInv'
  BY ClusterStep
<1>3. GraphInv => Types
  BY DEF GraphInv
<1> QED
  BY <1>1, <1>2, <1>3, GraphInvariant, PTL DEF Spec

LEMMA HomesInvariant == Spec /\ []KMeansRests => []HomeInv
<1>1. Init => HomeInv
  BY InitClusters
<1>2. Types /\ Types' /\ ClusterInv /\ KMeansRests /\ HomeInv /\ [Next]_vars => HomeInv'
  BY ClusterStep
<1>3. GraphInv => Types
  BY DEF GraphInv
<1> QED
  BY <1>1, <1>2, <1>3, GraphInvariant, ClustersInvariant, PTL DEF Spec

-----------------------------------------------------------------------------
(* What a search meets *)

\* A cluster that lists an id, of which no other probed one lists it, gives all
\* the entries a search meets.
LEMMA MetIs ==
  ASSUME NEW i \in Clusters, NEW vecs \in Stored, NEW q \in Int, NEW n, NEW id \in Present(vecs),
         NEW j \in Probed(i, q, n),
         \A h \in Probed(i, q, n) \ {j} : i.clusters[h].entries[id] = 0
  PROVE  Met(i, vecs, q, n)[id] = i.clusters[j].entries[id]
<1> DEFINE f == [h \in DOMAIN i.clusters |-> i.clusters[h].entries[id]]
           P == Probed(i, q, n)
           m == Len(i.clusters)
<1>1. DOMAIN i.clusters = 1 .. m /\ m \in Nat /\ i.clusters \in [1 .. m -> Cluster]
  BY ClustersAre
<1>2. P \subseteq 1 .. m
  BY <1>1 DEF Probed, Centroids
<1>3. IsFiniteSet(P)
  <2> DEFINE I == 1 .. m
  <2>1. IsFiniteSet(I) /\ P \in SUBSET I
    BY <1>1, <1>2, FS_Interval
  <2> HIDE DEF I, P
  <2> QED
    BY <2>1, FS_Subset
<1>4. f[j] = i.clusters[j].entries[id] /\ f[j] \in Int /\ ZeroBut(f, P, j)
  <2>1. i.clusters[j] \in Cluster /\ id \in Ids /\ j \in 1 .. m
    BY <1>1, <1>2 DEF Present
  <2> QED
    BY <1>1, <1>2, <2>1 DEF Cluster, ZeroBut
<1>5. Met(i, vecs, q, n)[id] = SumFunctionOnSet(f, P)
  BY DEF Met
<1> HIDE DEF f, P
<1>6. j \in P
  BY DEF P
<1>7. SumFunctionOnSet(f, P) = f[j]
  BY <1>3, <1>4, <1>6, SumOfOne
<1> QED
  BY <1>4, <1>5, <1>7

\* A search under a vector for which the index has filed it meets its entries.
LEMMA MeetsStored ==
  ASSUME NEW i \in Clusters, i.clusters # <<>>, NEW vecs \in Stored, NEW id \in Present(vecs)
  PROVE  Met(i, vecs, vecs[id], 1)[id] = i.clusters[NearestOf(Centroids(i), vecs[id])].entries[id]
<1> DEFINE q == vecs[id]
           j == NearestOf(Centroids(i), q)
<1>1. q \in Int
  BY LineAssumption DEF Present, Stored
<1> HIDE DEF q
<1>2. Probed(i, q, 1) = {j}
  BY <1>1, ProbedIs
<1> HIDE DEF j
<1>3. j \in Probed(i, q, 1) /\ \A h \in Probed(i, q, 1) \ {j} : i.clusters[h].entries[id] = 0
  BY <1>2
<1>4. Met(i, vecs, q, 1)[id] = i.clusters[j].entries[id]
  BY <1>1, <1>3, MetIs
<1> QED
  BY <1>4 DEF q, j

\* A search that probes all clusters meets each vector as often as the index
\* lists it, once.
LEMMA MeetsAll ==
  ASSUME NEW i \in Clusters, i.clusters # <<>>, NEW vecs \in Stored, NEW q \in Int,
         Once(i), Listed(i, Present(vecs)), NEW id \in Present(vecs)
  PROVE  Met(i, vecs, q, Len(i.clusters))[id] = 1
<1> DEFINE n == Len(i.clusters)
<1>1. Probed(i, q, n) = DOMAIN i.clusters
  BY ProbedIs
<1>2. PICK j : j \in Holders(i, id)
  BY DEF Listed
<1>3. \A h \in DOMAIN i.clusters : i.clusters[h].entries[id] \in Nat
  <2> TAKE h \in DOMAIN i.clusters
  <2>1. i.clusters[h] \in Cluster
    BY ClustersAre
  <2> QED
    BY <2>1 DEF Cluster, Present
<1>4. j \in DOMAIN i.clusters /\ i.clusters[j].entries[id] > 0 /\ id \in Ids
  BY <1>2 DEF Holders, Present
<1>5. i.clusters[j].entries[id] = 1
  BY <1>3, <1>4 DEF Once
<1>6. \A h \in DOMAIN i.clusters \ {j} : i.clusters[h].entries[id] = 0
  BY <1>2, <1>3, <1>4 DEF Once
<1> HIDE DEF n
<1>7. Met(i, vecs, q, n)[id] = i.clusters[j].entries[id]
  BY <1>1, <1>4, <1>6, MetIs
<1> QED
  BY <1>5, <1>7 DEF n

LEMMA FirstsOf ==
  ASSUME NEW L, IsFiniteSet(L), NEW X \in SUBSET (L \X {1})
  PROVE  Cardinality({e[1] : e \in X}) = Cardinality(X)
<1> DEFINE F == {e[1] : e \in X}
           f == [x \in F |-> <<x, 1>>]
<1>1. F \in SUBSET L
  OBVIOUS
<1>2. IsFiniteSet(F)
  BY <1>1, FS_Subset
<1>3. \A x \in F : f[x] \in X
  OBVIOUS
<1>4. \A e \in X : e[1] \in F /\ f[e[1]] = e
  OBVIOUS
<1>5. f \in [F -> X] /\ \A x, y \in F : f[x] = f[y] => x = y
  BY <1>3
<1> HIDE DEF F, f
<1>6. f \in Bijection(F, X)
  BY <1>4, <1>5 DEF Bijection, Injection, Surjection, IsInjective
<1>7. ExistsBijection(F, X)
  BY <1>6 DEF ExistsBijection
<1>8. Cardinality(X) = Cardinality(F)
  BY <1>2, <1>7, FS_Bijection
<1> QED
  BY <1>8 DEF F

-----------------------------------------------------------------------------
(***************************************************************************)
(* k-means goes on.  All centroids are whole numbers on a line that is     *)
(* stretched by a number which every size of a cluster divides.  There     *)
(* the squares of how far the vectors are from the centroids they are      *)
(* given sum up to less with every round that changes something, whatever  *)
(* it began with, and to what the choice of clusters says once the         *)
(* centroids are means: no such round chooses what an earlier one chose.   *)
(***************************************************************************)

\* A whole number of times as much keeps the order.
LEMMA TimesLess ==
  ASSUME NEW a \in Int, NEW b \in Int, NEW k \in Nat \ {0}
  PROVE  /\ a < b <=> k * a < k * b
         /\ k * a = k * b => a = b
<1>1. a < b => k * a < k * b
  OBVIOUS
<1>2. b < a => k * b < k * a
  OBVIOUS
<1>3. k * a \in Int /\ k * b \in Int
  OBVIOUS
<1> QED
  BY <1>1, <1>2, <1>3

\* There is a number that all of 1 .. N divide.
Divides(n, W) == \E w \in Nat \ {0} : W = n * w

LEMMA CommonMultiple ==
  ASSUME NEW N \in Nat
  PROVE  \E W \in Nat \ {0} : \A n \in 1 .. N : Divides(n, W)
<1> DEFINE T == {k \in Nat : \E W \in Nat \ {0} : \A n \in 1 .. k : Divides(n, W)}
<1>1. 0 \in T
  OBVIOUS
<1>2. ASSUME NEW k \in Nat, k \in T PROVE k + 1 \in T
  <2>1. PICK W \in Nat \ {0} : \A n \in 1 .. k : Divides(n, W)
    BY <1>2
  <2> DEFINE V == W * (k + 1)
  <2>2. V \in Nat \ {0}
    OBVIOUS
  <2>3. ASSUME NEW n \in 1 .. k + 1 PROVE Divides(n, V)
    <3>1. CASE n = k + 1
      <4>1. V = n * W
        BY <3>1
      <4> QED
        BY <4>1 DEF Divides
    <3>2. CASE n \in 1 .. k
      <4>1. PICK w \in Nat \ {0} : W = n * w
        BY <2>1, <3>2 DEF Divides
      <4>2. V = n * (w * (k + 1)) /\ w * (k + 1) \in Nat \ {0}
        BY <4>1
      <4> HIDE DEF V
      <4> QED
        BY <4>2 DEF Divides
    <3> QED
      BY <3>1, <3>2
  <2> HIDE DEF V
  <2> QED
    BY <2>2, <2>3
<1> HIDE DEF T
<1>3. N \in T
  BY <1>1, <1>2, Induct
<1> QED
  BY <1>3 DEF T

\* On a line W times as long, the centroids whose place there is a whole number.
IsPlace(W, c, a) == a \in Int /\ a * c[2] = W * c[1]
Whole(W) == {c \in Centroid : \E a : IsPlace(W, c, a)}
Place(W, c) == CHOOSE a : IsPlace(W, c, a)

\* There is one such place.
LEMMA PlaceIs ==
  ASSUME NEW W \in Nat \ {0}, NEW c \in Whole(W)
  PROVE  /\ c \in Centroid /\ c[1] \in Int /\ c[2] \in Nat \ {0}
         /\ Place(W, c) \in Int /\ Place(W, c) * c[2] = W * c[1]
<1>1. c \in Centroid /\ \E a : IsPlace(W, c, a)
  BY DEF Whole
<1>2. IsPlace(W, c, Place(W, c))
  BY <1>1 DEF Place
<1> QED
  BY <1>1, <1>2 DEF IsPlace, Centroid

\* Closer is so on the longer line, too.
LEMMA GapIs ==
  ASSUME NEW W \in Nat \ {0}, NEW x \in Int, NEW c \in Whole(W)
  PROVE  /\ W * Gap(x, c) = c[2] * Distance(W * x, Place(W, c))
         /\ Distance(W * x, Place(W, c)) \in Nat
<1> DEFINE s == c[1]
           n == c[2]
           p == Place(W, c)
<1>1. s \in Int /\ n \in Nat \ {0} /\ p \in Int /\ p * n = W * s
  BY PlaceIs
<1>2. Gap(x, c) = Distance(x * n, s)
  BY DEF Gap
<1> HIDE DEF s, n, p
<1> DEFINE X == x * n
           Y == W * x
<1>3. X \in Int /\ Y \in Int /\ W * X = n * Y /\ W * s = n * p
  BY <1>1
<1> HIDE DEF X, Y
<1>4. (X > s) <=> (Y > p)
  <2>1. s < X <=> W * s < W * X
    BY <1>1, <1>3, TimesLess
  <2>2. p < Y <=> n * p < n * Y
    BY <1>1, <1>3, TimesLess
  <2> QED
    BY <1>1, <1>3, <2>1, <2>2
<1>5. W * (X - s) = W * X - W * s /\ n * (Y - p) = n * Y - n * p
  BY <1>1, <1>3
<1>6. W * (s - X) = W * s - W * X /\ n * (p - Y) = n * p - n * Y
  BY <1>1, <1>3
<1>7. W * Distance(X, s) = n * Distance(Y, p)
  <2>1. CASE X > s
    <3>1. Distance(X, s) = X - s /\ Distance(Y, p) = Y - p
      BY <1>4, <2>1 DEF Distance
    <3> QED
      BY <1>3, <1>5, <3>1
  <2>2. CASE ~(X > s)
    <3>1. Distance(X, s) = s - X /\ Distance(Y, p) = p - Y
      BY <1>4, <2>2 DEF Distance
    <3> QED
      BY <1>3, <1>6, <3>1
  <2> QED
    BY <2>1, <2>2
<1>8. Distance(Y, p) \in Nat
  BY <1>1, <1>3 DEF Distance
<1> QED
  BY <1>2, <1>7, <1>8 DEF s, n, p, X, Y

LEMMA CloserIs ==
  ASSUME NEW W \in Nat \ {0}, NEW x \in Int, NEW c \in Whole(W), NEW d \in Whole(W)
  PROVE  Closer(x, c, d) <=> Distance(W * x, Place(W, c)) < Distance(W * x, Place(W, d))
<1> DEFINE u == Gap(x, c)
           v == Gap(x, d)
           m == c[2]
           n == d[2]
           D == Distance(W * x, Place(W, c))
           E == Distance(W * x, Place(W, d))
<1>1. u \in Nat /\ v \in Nat /\ m \in Nat \ {0} /\ n \in Nat \ {0}
  BY GapType, PlaceIs
<1>2. W * u = m * D /\ W * v = n * E /\ D \in Nat /\ E \in Nat
  BY GapIs
<1>3. Closer(x, c, d) <=> u * n < v * m
  BY DEF Closer
<1> HIDE DEF u, v, m, n, D, E
<1> DEFINE a == u * n
           b == v * m
           k == m * n
<1>4. a \in Nat /\ b \in Nat /\ k \in Nat \ {0}
  BY <1>1
<1>5. W * a = k * D
  <2>1. W * (u * n) = (W * u) * n
    BY <1>1
  <2>2. (m * D) * n = (m * n) * D
    BY <1>1, <1>2
  <2> QED
    BY <1>2, <2>1, <2>2
<1>6. W * b = k * E
  <2>1. W * (v * m) = (W * v) * m
    BY <1>1
  <2>2. (n * E) * m = (m * n) * E
    BY <1>1, <1>2
  <2> QED
    BY <1>2, <2>1, <2>2
<1>7. (a < b <=> W * a < W * b) /\ (D < E <=> k * D < k * E)
  <2> HIDE DEF a, b, k
  <2> QED
    BY <1>2, <1>4, TimesLess
<1>8. a < b <=> D < E
  BY <1>5, <1>6, <1>7
<1> QED
  BY <1>3, <1>8 DEF D, E

\* Squares of numbers and of their sizes are ordered alike.
LEMMA SquaresOrder ==
  ASSUME NEW a \in Int, NEW b \in Int, NEW c \in Int
  PROVE  Distance(a, b) <= Distance(a, c) => Square(a - b) <= Square(a - c)
<1>1. ASSUME NEW d \in Nat, NEW e \in Nat, d <= e PROVE d * d <= e * e
  <2>1. d * d <= d * e
    BY <1>1
  <2>2. d * e <= e * e
    BY <1>1
  <2>3. d * d \in Int /\ d * e \in Int /\ e * e \in Int
    OBVIOUS
  <2> QED
    BY <2>1, <2>2, <2>3
<1>2. ASSUME NEW y \in Int PROVE Distance(a, y) \in Nat /\ Distance(a, y) * Distance(a, y) = Square(a - y)
  <2>1. (y - a) * (y - a) = (a - y) * (a - y)
    OBVIOUS
  <2>2. CASE a > y
    BY <2>2 DEF Distance, Square
  <2>3. CASE ~(a > y)
    BY <2>1, <2>3 DEF Distance, Square
  <2> QED
    BY <2>2, <2>3
<1>3. ASSUME Distance(a, b) <= Distance(a, c) PROVE Square(a - b) <= Square(a - c)
  BY <1>1, <1>2, <1>3
<1> QED
  BY <1>3

\* W is long enough for means of ids.
Scale(ids, W) == W \in Nat \ {0} /\ \A n \in 1 .. Cardinality(ids) : Divides(n, W)

\* Where the vectors are on the longer line.
Stretched(W, vecs, S) == [id \in S |-> W * vecs[id]]

\* The members of a cluster are ids, and finitely many.
LEMMA MembersAre ==
  ASSUME NEW ids, NEW vecs, NEW m, Clusterable(ids, vecs, m), NEW members \in SUBSET ids
  PROVE  /\ IsFiniteSet(ids) /\ IsFiniteSet(members) /\ Cardinality(members) \in Nat
         /\ Cardinality(ids) \in Nat /\ Cardinality(members) <= Cardinality(ids)
         /\ members # {} => Cardinality(members) \in 1 .. Cardinality(ids)
         /\ IntOn(vecs, members)
<1>1. IsFiniteSet(ids)
  BY LineAssumption, FS_Subset DEF Clusterable
<1>2. IsFiniteSet(members) /\ Cardinality(members) <= Cardinality(ids)
  BY <1>1, FS_Subset
<1>3. Cardinality(ids) \in Nat /\ Cardinality(members) \in Nat /\ (Cardinality(members) = 0 <=> members = {})
  BY <1>1, <1>2, FS_CardinalityType, FS_EmptySet
<1>4. IntOn(vecs, members)
  BY LineAssumption DEF Clusterable, IntOn, Stored
<1> QED
  BY <1>1, <1>2, <1>3, <1>4

\* A centroid moved to the mean of its members is as often as it has members what
\* these sum up to; one that is not where it was has moved on the longer line.
LEMMA RecentredIs ==
  ASSUME NEW ids, NEW vecs, NEW m, Clusterable(ids, vecs, m), NEW W, Scale(ids, W),
         NEW members \in SUBSET ids, NEW c \in Whole(W)
  PROVE  /\ Recentred(c, members, vecs) \in Whole(W)
         /\ members = {} => Recentred(c, members, vecs) = c
         /\ members # {} => Place(W, Recentred(c, members, vecs)) * Cardinality(members)
                              = SumFunctionOnSet(Stretched(W, vecs, ids), members)
         /\ Recentred(c, members, vecs) # c => Place(W, Recentred(c, members, vecs)) # Place(W, c)
<1>1. CASE members = {}
  <2>1. Recentred(c, members, vecs) = c
    BY <1>1 DEF Recentred
  <2> QED
    BY <1>1, <2>1
<1>2. CASE members # {}
  <2> DEFINE n == Cardinality(members)
             s == SumFunctionOnSet(vecs, members)
             d == <<s, n>>
             r == Recentred(c, members, vecs)
  <2>1. IsFiniteSet(members) /\ n \in 1 .. Cardinality(ids) /\ IntOn(vecs, members) /\ n \in Nat \ {0}
    BY <1>2, MembersAre
  <2>2. s \in Int
    BY <2>1, SumIsInt
  <2>3. SumFunctionOnSet(Stretched(W, vecs, ids), members) = W * s
    <3>1. \A id \in members : Stretched(W, vecs, ids)[id] = W * vecs[id]
      BY DEF Stretched
    <3>2. W \in Int
      BY DEF Scale
    <3> HIDE DEF s
    <3> QED
      BY <2>1, <3>1, <3>2, SumScales DEF s
  <2>4. PICK w \in Nat \ {0} : W = n * w
    BY <2>1 DEF Scale, Divides
  <2>5. W \in Nat \ {0}
    BY DEF Scale
  <2>6. r = IF SameMean(d, c) THEN c ELSE d
    BY <1>2 DEF Recentred
  <2> HIDE DEF n, s, r
  <2>7. d \in Whole(W)
    <3>1. w * s \in Int /\ (w * s) * n = W * s
      BY <2>1, <2>2, <2>4
    <3>2. IsPlace(W, d, w * s)
      BY <3>1 DEF IsPlace
    <3>3. d \in Centroid
      BY <2>1, <2>2 DEF Centroid
    <3> QED
      BY <3>2, <3>3 DEF Whole
  <2> DEFINE p == Place(W, c)
             q == Place(W, d)
             t == c[1]
             k == c[2]
  <2>8. /\ p \in Int /\ t \in Int /\ k \in Nat \ {0} /\ p * k = W * t
        /\ q \in Int /\ q * n = W * s
    BY <2>5, <2>7, PlaceIs
  <2>9. SameMean(d, c) <=> s * k = t * n
    BY DEF SameMean
  <2> HIDE DEF p, q, t, k, d
  <2>10. (p * n) * k = W * (t * n) /\ (q * n) * k = W * (s * k)
    <3>1. (p * n) * k = (p * k) * n /\ (W * t) * n = W * (t * n) /\ (W * s) * k = W * (s * k)
      BY <2>1, <2>2, <2>5, <2>8
    <3> QED
      BY <2>8, <3>1
  <2>11. CASE SameMean(d, c)
    <3> DEFINE a == p * n
               b == q * n
    <3>1. k * a = k * b /\ a \in Int /\ b \in Int
      <4>1. (p * n) * k = k * (p * n) /\ (q * n) * k = k * (q * n)
        BY <2>1, <2>8
      <4> QED
        BY <2>1, <2>8, <2>9, <2>10, <2>11, <4>1
    <3> HIDE DEF a, b
    <3>2. a = b
      BY <2>8, <3>1, TimesLess
    <3>3. r = c /\ p * n = W * s
      BY <2>6, <2>8, <2>11, <3>2 DEF a, b
    <3> QED
      BY <1>2, <2>3, <3>3 DEF r, n, p
  <2>12. CASE ~SameMean(d, c)
    <3>1. r = d
      BY <2>6, <2>12
    <3>2. p # q
      <4> SUFFICES ASSUME p = q PROVE FALSE
        OBVIOUS
      <4> DEFINE a == t * n
                 b == s * k
      <4>1. W * a = W * b /\ a \in Int /\ b \in Int
        BY <2>1, <2>2, <2>8, <2>10
      <4> HIDE DEF a, b
      <4>2. a = b
        BY <2>5, <4>1, TimesLess
      <4> QED
        BY <2>9, <2>12, <4>2 DEF a, b
    <3> QED
      BY <1>2, <2>3, <2>7, <2>8, <3>1, <3>2 DEF r, n, p, q
  <2> QED
    BY <2>11, <2>12
<1> QED
  BY <1>1, <1>2

\* What k-means makes smaller with every round: the squares of how far the vectors
\* are from the centroids they are given.
Off(W, cs, chosen, vecs) ==
  [id \in DOMAIN chosen |-> Square(W * vecs[id] - Place(W, cs[chosen[id]]))]
Cost(W, cs, chosen, vecs) == SumFunctionOnSet(Off(W, cs, chosen, vecs), DOMAIN chosen)

\* m clusters of the vectors of ids.
Grouped(ids, vecs, m, W, cs, chosen) ==
  /\ Clusterable(ids, vecs, m) /\ Scale(ids, W)
  /\ cs \in [1 .. m -> Whole(W)] /\ chosen \in [ids -> 1 .. m]

\* What is squared and summed up are whole numbers.
LEMMA OffIs ==
  ASSUME NEW ids, NEW vecs, NEW m, NEW W, NEW cs, NEW chosen, Grouped(ids, vecs, m, W, cs, chosen)
  PROVE  /\ \A id \in ids : /\ cs[chosen[id]] \in Whole(W) /\ Place(W, cs[chosen[id]]) \in Int
                            /\ W * vecs[id] \in Int /\ vecs[id] \in Int
                            /\ Off(W, cs, chosen, vecs)[id] = Square(W * vecs[id] - Place(W, cs[chosen[id]]))
         /\ IntOn(Off(W, cs, chosen, vecs), ids)
         /\ Cost(W, cs, chosen, vecs) \in Int
<1> USE DEF Grouped
<1>1. W \in Nat \ {0}
  BY DEF Scale
<1>2. ASSUME NEW id \in ids
      PROVE  /\ cs[chosen[id]] \in Whole(W) /\ Place(W, cs[chosen[id]]) \in Int
             /\ W * vecs[id] \in Int /\ vecs[id] \in Int
  <2>1. cs[chosen[id]] \in Whole(W)
    OBVIOUS
  <2>2. Place(W, cs[chosen[id]]) \in Int
    BY <1>1, <2>1, PlaceIs
  <2>3. vecs[id] \in Int
    BY LineAssumption DEF Clusterable, Stored
  <2> QED
    BY <1>1, <2>1, <2>2, <2>3
<1>3. DOMAIN chosen = ids
  OBVIOUS
<1>4. \A id \in ids : Off(W, cs, chosen, vecs)[id] = Square(W * vecs[id] - Place(W, cs[chosen[id]]))
  BY <1>3 DEF Off
<1>5. \A a, b \in Int : Square(a - b) \in Int
  BY DEF Square
<1>6. IntOn(Off(W, cs, chosen, vecs), ids)
  BY <1>2, <1>4, <1>5 DEF IntOn
<1>7. IsFiniteSet(ids)
  BY MembersAre
<1> QED
  BY <1>2, <1>3, <1>4, <1>6, <1>7, SumIsInt DEF Cost

\* To give each vector to its nearest centroid is the best there is.
LEMMA AssigningHelps ==
  ASSUME NEW ids, NEW vecs, NEW m, NEW W, NEW cs, NEW chosen, Grouped(ids, vecs, m, W, cs, chosen)
  PROVE  Cost(W, cs, [id \in ids |-> NearestOf(cs, vecs[id])], vecs) <= Cost(W, cs, chosen, vecs)
<1> DEFINE best == [id \in ids |-> NearestOf(cs, vecs[id])]
<1>0. /\ Clusterable(ids, vecs, m) /\ Scale(ids, W)
      /\ cs \in [1 .. m -> Whole(W)] /\ chosen \in [ids -> 1 .. m]
  BY DEF Grouped
<1>1. ASSUME NEW id \in ids
      PROVE  /\ best[id] \in 1 .. m
             /\ Square(W * vecs[id] - Place(W, cs[best[id]])) <= Square(W * vecs[id] - Place(W, cs[chosen[id]]))
  <2> DEFINE x == vecs[id]
             j == best[id]
             i == chosen[id]
  <2>1. x \in Int /\ m \in Nat \ {0} /\ W \in Nat \ {0}
    BY <1>0, OffIs DEF Clusterable, Scale
  <2>2. cs \in [1 .. m -> Centroid]
    BY <1>0 DEF Whole
  <2>3. IsNearest(cs, x, 1 .. m, j)
    BY <2>1, <2>2, NearestOfIs
  <2>4. j \in 1 .. m /\ i \in 1 .. m /\ ~Closer(x, cs[i], cs[j])
    BY <1>0, <2>3 DEF IsNearest
  <2> HIDE DEF x, i, j
  <2>5. cs[i] \in Whole(W) /\ cs[j] \in Whole(W)
    BY <1>0, <2>4
  <2>6. Place(W, cs[i]) \in Int /\ Place(W, cs[j]) \in Int /\ W * x \in Int
    BY <2>1, <2>5, PlaceIs
  <2>7. Distance(W * x, Place(W, cs[j])) <= Distance(W * x, Place(W, cs[i]))
    <3>1. /\ Distance(W * x, Place(W, cs[j])) \in Nat
          /\ Distance(W * x, Place(W, cs[i])) \in Nat
      BY <2>1, <2>5, GapIs
    <3>2. ~(Distance(W * x, Place(W, cs[i])) < Distance(W * x, Place(W, cs[j])))
      BY <2>1, <2>4, <2>5, CloserIs
    <3> QED
      BY <3>1, <3>2
  <2>8. Square(W * x - Place(W, cs[j])) <= Square(W * x - Place(W, cs[i]))
    BY <2>6, <2>7, SquaresOrder
  <2> QED
    BY <2>4, <2>8 DEF x, i, j
<1>2. best \in [ids -> 1 .. m]
  BY <1>1
<1> HIDE DEF best
<1>3. Grouped(ids, vecs, m, W, cs, best)
  BY <1>0, <1>2 DEF Grouped
<1>4. /\ IntOn(Off(W, cs, best, vecs), ids) /\ IntOn(Off(W, cs, chosen, vecs), ids)
      /\ \A id \in ids : Off(W, cs, best, vecs)[id] <= Off(W, cs, chosen, vecs)[id]
  <2>1. /\ IntOn(Off(W, cs, best, vecs), ids)
        /\ \A id \in ids : Off(W, cs, best, vecs)[id] = Square(W * vecs[id] - Place(W, cs[best[id]]))
    BY <1>3, OffIs
  <2>2. /\ IntOn(Off(W, cs, chosen, vecs), ids)
        /\ \A id \in ids : Off(W, cs, chosen, vecs)[id] = Square(W * vecs[id] - Place(W, cs[chosen[id]]))
    BY OffIs
  <2> QED
    BY <1>1, <2>1, <2>2
<1>5. IsFiniteSet(ids)
  BY <1>0, MembersAre
<1>6. Cost(W, cs, best, vecs) <= Cost(W, cs, chosen, vecs)
  BY <1>0, <1>2, <1>4, <1>5, SumOrders DEF Cost
<1> QED
  BY <1>6 DEF best

\* Each centroid that has members is their mean.
Centred(W, cs, chosen, vecs) ==
  \A j \in DOMAIN cs : Members(chosen, j) # {} =>
    Place(W, cs[j]) * Cardinality(Members(chosen, j))
      = SumFunctionOnSet(Stretched(W, vecs, DOMAIN chosen), Members(chosen, j))

\* Nothing is nearer to its members than their mean.
LEMMA MeanIsBest ==
  ASSUME NEW S, IsFiniteSet(S), S # {}, NEW x, IntOn(x, S), NEW c \in Int, NEW p \in Int,
         p * Cardinality(S) = SumFunctionOnSet(x, S),
         NEW f, \A id \in S : f[id] = Square(x[id] - c),
         NEW g, \A id \in S : g[id] = Square(x[id] - p)
  PROVE  /\ SumFunctionOnSet(g, S) <= SumFunctionOnSet(f, S)
         /\ p # c => SumFunctionOnSet(g, S) < SumFunctionOnSet(f, S)
<1> DEFINE h == [id \in S |-> Square(x[id])]
           q == SumFunctionOnSet(h, S)
           n == Cardinality(S)
           l == SumFunctionOnSet(x, S)
           F == SumFunctionOnSet(f, S)
           G == SumFunctionOnSet(g, S)
<1>1. \A id \in S : h[id] = Square(x[id])
  OBVIOUS
<1>2. IntOn(h, S)
  BY DEF IntOn, Square
<1> HIDE DEF h
<1>3. F = q - 2 * c * l + n * Square(c) /\ G = q - 2 * p * l + n * Square(p)
  BY <1>1, SumOfSquares
<1>4. q \in Int /\ l \in Int /\ n \in Nat \ {0} /\ p * n = l
  BY <1>2, SumIsInt, FS_CardinalityType, FS_EmptySet
<1> HIDE DEF q, n, l, F, G
<1> DEFINE d == (c - p) * (c - p)
<1>5. d \in Nat /\ (p # c => d # 0)
  <2>1. ASSUME NEW y \in Int PROVE y * y \in Nat /\ (y # 0 => y * y # 0)
    OBVIOUS
  <2>2. c - p \in Int /\ (p # c => c - p # 0)
    OBVIOUS
  <2> HIDE DEF d
  <2> QED
    BY <2>1, <2>2 DEF d
<1>6. F = G + n * d
  <2>1. 2 * c * l = 2 * (n * (c * p)) /\ 2 * p * l = 2 * (n * (p * p))
    BY <1>4
  <2>2. d = c * c - 2 * (c * p) + p * p
    OBVIOUS
  <2> DEFINE u == c * c
             v == c * p
             w == p * p
  <2>3. u \in Int /\ v \in Int /\ w \in Int
    OBVIOUS
  <2>4. F = q - 2 * (n * v) + n * u /\ G = q - 2 * (n * w) + n * w
    BY <1>3, <2>1 DEF Square
  <2>5. d = u - 2 * v + w
    BY <2>2
  <2> HIDE DEF u, v, w, d
  <2>6. n * (u - 2 * v + w) = n * u - 2 * (n * v) + n * w
    BY <1>4, <2>3
  <2> DEFINE a == n * u
             b == n * v
             e == n * w
  <2>7. a \in Int /\ b \in Int /\ e \in Int
    BY <1>4, <2>3
  <2>8. F = q - 2 * b + a /\ G = q - 2 * e + e /\ n * d = a - 2 * b + e
    BY <2>4, <2>5, <2>6
  <2> HIDE DEF a, b, e
  <2> QED
    BY <1>4, <2>7, <2>8
<1> HIDE DEF d
<1>7. n * d \in Nat /\ (d # 0 => n * d # 0)
  BY <1>4, <1>5
<1>8. G \in Int
  <2>1. IntOn(g, S)
    BY DEF IntOn, Square
  <2> QED
    BY <2>1, SumIsInt DEF G
<1>9. G <= F /\ (p # c => G < F)
  BY <1>5, <1>6, <1>7, <1>8
<1> QED
  BY <1>9 DEF G, F

Moved(cs, chosen, vecs) == [j \in DOMAIN cs |-> Recentred(cs[j], Members(chosen, j), vecs)]

\* Moving the centroids to the means helps, too, and always if one moves.
LEMMA CentringHelps ==
  ASSUME NEW ids, NEW vecs, NEW m, NEW W, NEW cs, NEW chosen, Grouped(ids, vecs, m, W, cs, chosen)
  PROVE  /\ Moved(cs, chosen, vecs) \in [1 .. m -> Whole(W)]
         /\ Centred(W, Moved(cs, chosen, vecs), chosen, vecs)
         /\ Cost(W, Moved(cs, chosen, vecs), chosen, vecs) <= Cost(W, cs, chosen, vecs)
         /\ Moved(cs, chosen, vecs) # cs =>
              Cost(W, Moved(cs, chosen, vecs), chosen, vecs) < Cost(W, cs, chosen, vecs)
<1> DEFINE next == Moved(cs, chosen, vecs)
           mem(j) == Members(chosen, j)
           x == Stretched(W, vecs, ids)
           f == Off(W, cs, chosen, vecs)
           g == Off(W, next, chosen, vecs)
<1>0. /\ Clusterable(ids, vecs, m) /\ Scale(ids, W)
      /\ cs \in [1 .. m -> Whole(W)] /\ chosen \in [ids -> 1 .. m]
      /\ W \in Nat \ {0} /\ m \in Nat /\ IsFiniteSet(ids)
  BY MembersAre DEF Scale, Clusterable, Grouped
<1>1. DOMAIN cs = 1 .. m /\ DOMAIN chosen = ids
  BY <1>0
<1>2. ASSUME NEW j \in 1 .. m
      PROVE  /\ mem(j) \in SUBSET ids /\ next[j] = Recentred(cs[j], mem(j), vecs)
             /\ next[j] \in Whole(W)
             /\ mem(j) = {} => next[j] = cs[j]
             /\ mem(j) # {} => Place(W, next[j]) * Cardinality(mem(j)) = SumFunctionOnSet(x, mem(j))
             /\ next[j] # cs[j] => Place(W, next[j]) # Place(W, cs[j])
  <2>1. mem(j) \in SUBSET ids /\ cs[j] \in Whole(W) /\ next[j] = Recentred(cs[j], mem(j), vecs)
    BY <1>0, <1>1 DEF Members, Moved
  <2> HIDE DEF mem, next, x
  <2>2. /\ Recentred(cs[j], mem(j), vecs) \in Whole(W)
        /\ mem(j) = {} => Recentred(cs[j], mem(j), vecs) = cs[j]
        /\ mem(j) # {} => Place(W, Recentred(cs[j], mem(j), vecs)) * Cardinality(mem(j))
                            = SumFunctionOnSet(Stretched(W, vecs, ids), mem(j))
        /\ Recentred(cs[j], mem(j), vecs) # cs[j] => Place(W, Recentred(cs[j], mem(j), vecs)) # Place(W, cs[j])
    BY <1>0, <2>1, RecentredIs
  <2> QED
    BY <2>1, <2>2 DEF x
<1>3. next \in [1 .. m -> Whole(W)]
  <2>1. next = [j \in 1 .. m |-> next[j]]
    BY <1>1 DEF Moved
  <2> HIDE DEF next
  <2> QED
    BY <1>2, <2>1
<1>4. Centred(W, next, chosen, vecs)
  <2> HIDE DEF next
  <2>1. DOMAIN next = 1 .. m
    BY <1>3
  <2> QED
    BY <1>1, <1>2, <2>1 DEF Centred
<1> HIDE DEF next
<1>5. /\ IntOn(f, ids) /\ IntOn(g, ids)
      /\ \A id \in ids : f[id] = Square(W * vecs[id] - Place(W, cs[chosen[id]]))
      /\ \A id \in ids : g[id] = Square(W * vecs[id] - Place(W, next[chosen[id]]))
      /\ \A id \in ids : W * vecs[id] \in Int
  <2>1. /\ IntOn(f, ids)
        /\ \A id \in ids : f[id] = Square(W * vecs[id] - Place(W, cs[chosen[id]])) /\ W * vecs[id] \in Int
    BY OffIs
  <2>2. Grouped(ids, vecs, m, W, next, chosen)
    BY <1>0, <1>3 DEF Grouped
  <2>3. IntOn(g, ids) /\ \A id \in ids : g[id] = Square(W * vecs[id] - Place(W, next[chosen[id]]))
    BY <2>2, OffIs
  <2> QED
    BY <2>1, <2>3
<1> HIDE DEF f, g
<1>6. ASSUME NEW j \in 1 .. m
      PROVE  /\ SumFunctionOnSet(g, mem(j)) <= SumFunctionOnSet(f, mem(j))
             /\ next[j] # cs[j] => SumFunctionOnSet(g, mem(j)) < SumFunctionOnSet(f, mem(j))
  <2>1. mem(j) \in SUBSET ids /\ \A id \in mem(j) : id \in ids /\ chosen[id] = j
    BY <1>1 DEF Members
  <2> HIDE DEF mem
  <2>2. SumFunctionOnSet(g, mem(j)) \in Int /\ SumFunctionOnSet(f, mem(j)) \in Int
    BY <1>0, <1>5, <2>1, SumTakes
  <2>3. CASE mem(j) = {}
    <3>1. SumFunctionOnSet(g, mem(j)) = 0 /\ SumFunctionOnSet(f, mem(j)) = 0
      BY <1>0, <1>5, <2>1, <2>3, SumTakes
    <3> QED
      BY <1>2, <2>3, <3>1 DEF mem
  <2>4. CASE mem(j) # {}
    <3> DEFINE S == mem(j)
               c == Place(W, cs[j])
               p == Place(W, next[j])
    <3>1. IsFiniteSet(S) /\ S # {}
      BY <1>0, <2>1, <2>4, FS_Subset
    <3>2. c \in Int /\ p \in Int /\ p * Cardinality(S) = SumFunctionOnSet(x, S)
      <4>1. cs[j] \in Whole(W) /\ next[j] \in Whole(W)
        BY <1>0, <1>3
      <4>2. c \in Int /\ p \in Int
        BY <1>0, <4>1, PlaceIs
      <4> HIDE DEF x, c, p
      <4>3. mem(j) # {} => Place(W, next[j]) * Cardinality(mem(j)) = SumFunctionOnSet(x, mem(j))
        BY <1>2
      <4> QED
        BY <2>4, <4>2, <4>3 DEF p
    <3>3. \A id \in S : x[id] = W * vecs[id]
      BY <2>1 DEF Stretched
    <3> HIDE DEF x
    <3>4. IntOn(x, S)
      BY <1>5, <2>1, <3>3 DEF IntOn
    <3>5. \A id \in S : f[id] = Square(x[id] - c) /\ g[id] = Square(x[id] - p)
      BY <1>5, <2>1, <3>3
    <3> HIDE DEF S, c, p
    <3>6. /\ SumFunctionOnSet(g, S) <= SumFunctionOnSet(f, S)
          /\ p # c => SumFunctionOnSet(g, S) < SumFunctionOnSet(f, S)
      BY <3>1, <3>2, <3>4, <3>5, MeanIsBest
    <3> QED
      BY <1>2, <3>6 DEF S, c, p
  <2> QED
    BY <2>3, <2>4
<1> DEFINE part(j) == {id \in ids : chosen[id] \in 1 .. j}
           less(j) == SumFunctionOnSet(g, part(j)) < SumFunctionOnSet(f, part(j))
           atMost(j) == SumFunctionOnSet(g, part(j)) <= SumFunctionOnSet(f, part(j))
           T == {j \in Nat : j <= m => atMost(j) /\ ((\E i \in 1 .. j : next[i] # cs[i]) => less(j))}
<1>7. 0 \in T
  <2>1. part(0) = {}
    OBVIOUS
  <2> HIDE DEF part
  <2>2. SumFunctionOnSet(g, part(0)) = 0 /\ SumFunctionOnSet(f, part(0)) = 0
    BY <1>0, <1>5, <2>1, SumTakes
  <2> QED
    BY <2>2
<1>8. ASSUME NEW j \in Nat, j \in T PROVE j + 1 \in T
  <2> SUFFICES ASSUME j + 1 <= m
               PROVE  atMost(j + 1) /\ ((\E i \in 1 .. j + 1 : next[i] # cs[i]) => less(j + 1))
    OBVIOUS
  <2>1. atMost(j) /\ ((\E i \in 1 .. j : next[i] # cs[i]) => less(j)) /\ j + 1 \in 1 .. m
    BY <1>0, <1>8
  <2>2. /\ part(j + 1) \in SUBSET ids /\ part(j) \in SUBSET part(j + 1)
        /\ part(j + 1) \ part(j) = mem(j + 1)
    BY <1>1 DEF Members
  <2> HIDE DEF part, mem
  <2>3. /\ SumFunctionOnSet(f, part(j + 1)) = SumFunctionOnSet(f, part(j)) + SumFunctionOnSet(f, mem(j + 1))
        /\ SumFunctionOnSet(g, part(j + 1)) = SumFunctionOnSet(g, part(j)) + SumFunctionOnSet(g, mem(j + 1))
    BY <1>0, <1>5, <2>2, SumSplits
  <2>4. /\ SumFunctionOnSet(f, part(j)) \in Int /\ SumFunctionOnSet(f, mem(j + 1)) \in Int
        /\ SumFunctionOnSet(g, part(j)) \in Int /\ SumFunctionOnSet(g, mem(j + 1)) \in Int
    <3>1. part(j) \in SUBSET ids /\ mem(j + 1) \in SUBSET ids
      BY <2>2
    <3> QED
      BY <1>0, <1>5, <3>1, SumTakes
  <2>5. /\ SumFunctionOnSet(g, mem(j + 1)) <= SumFunctionOnSet(f, mem(j + 1))
        /\ next[j + 1] # cs[j + 1] => SumFunctionOnSet(g, mem(j + 1)) < SumFunctionOnSet(f, mem(j + 1))
    BY <1>6, <2>1 DEF mem
  <2>6. atMost(j + 1)
    BY <2>1, <2>3, <2>4, <2>5
  <2>7. ASSUME NEW i \in 1 .. j + 1, next[i] # cs[i] PROVE less(j + 1)
    <3>1. CASE i = j + 1
      BY <2>1, <2>3, <2>4, <2>5, <2>7, <3>1
    <3>2. CASE i \in 1 .. j
      BY <2>1, <2>3, <2>4, <2>5, <2>7, <3>2
    <3> QED
      BY <3>1, <3>2
  <2> QED
    BY <2>6, <2>7
<1>9. m \in T
  <2> HIDE DEF T
  <2> QED
    BY <1>0, <1>7, <1>8, Induct
<1>10. part(m) = ids
  BY <1>0
<1>11. next # cs => \E i \in 1 .. m : next[i] # cs[i]
  BY <1>0, <1>3
<1>12. /\ SumFunctionOnSet(g, ids) <= SumFunctionOnSet(f, ids)
       /\ next # cs => SumFunctionOnSet(g, ids) < SumFunctionOnSet(f, ids)
  BY <1>9, <1>10, <1>11
<1> QED
  BY <1>1, <1>3, <1>4, <1>12 DEF Cost, f, g, next

\* What the cost is after that depends on the choice of clusters only.
LEMMA CostOfCentred ==
  ASSUME NEW ids, NEW vecs, NEW m, NEW W, NEW chosen,
         NEW cs, Grouped(ids, vecs, m, W, cs, chosen), Centred(W, cs, chosen, vecs),
         NEW ds, Grouped(ids, vecs, m, W, ds, chosen), Centred(W, ds, chosen, vecs)
  PROVE  Cost(W, cs, chosen, vecs) = Cost(W, ds, chosen, vecs)
<1> USE DEF Grouped
<1>1. ASSUME NEW id \in ids PROVE Place(W, cs[chosen[id]]) = Place(W, ds[chosen[id]])
  <2> DEFINE j == chosen[id]
             S == Members(chosen, j)
             n == Cardinality(S)
             l == SumFunctionOnSet(Stretched(W, vecs, ids), S)
             p == Place(W, cs[j])
             q == Place(W, ds[j])
  <2>1. j \in 1 .. m /\ S # {} /\ S \in SUBSET ids
    BY DEF Members
  <2>2. p * n = l /\ q * n = l
    BY <2>1 DEF Centred
  <2>3. n \in Nat \ {0}
    BY <2>1, MembersAre
  <2>4. p \in Int /\ q \in Int
    <3>1. W \in Nat \ {0} /\ cs[j] \in Whole(W) /\ ds[j] \in Whole(W)
      BY <2>1 DEF Scale
    <3> QED
      BY <3>1, PlaceIs
  <2> HIDE DEF n, l, p, q
  <2>5. n * p = n * q
    BY <2>2, <2>3, <2>4
  <2>6. p = q
    BY <2>3, <2>4, <2>5, TimesLess
  <2> QED
    BY <2>6 DEF p, q
<1>2. Off(W, cs, chosen, vecs) = Off(W, ds, chosen, vecs)
  BY <1>1 DEF Off
<1> QED
  BY <1>2 DEF Cost

\* The clusters that a round leaves.
Balanced(W, r, ids, vecs, m) ==
  /\ Grouped(ids, vecs, m, W, r.centroids, r.chosen)
  /\ Centred(W, r.centroids, r.chosen, vecs)
CostOf(W, r, vecs) == Cost(W, r.centroids, r.chosen, vecs)

\* A round that changes something costs less than whatever choice of clusters it
\* began with.
LEMMA RoundHelps ==
  ASSUME NEW ids, NEW vecs, NEW m, Clusterable(ids, vecs, m), NEW W, Scale(ids, W),
         NEW cs \in [1 .. m -> Whole(W)]
  PROVE  /\ Balanced(W, Round(cs, ids, vecs), ids, vecs, m)
         /\ \A chosen \in [ids -> 1 .. m] : Round(cs, ids, vecs).changed =>
              CostOf(W, Round(cs, ids, vecs), vecs) < Cost(W, cs, chosen, vecs)
<1> DEFINE best == [id \in ids |-> NearestOf(cs, vecs[id])]
           next == Moved(cs, best, vecs)
           r == Round(cs, ids, vecs)
<1>1. r = [chosen |-> best, centroids |-> next, changed |-> next # cs]
  BY DEF Round, Moved
<1>2. r.chosen = best /\ r.centroids = next /\ (next = cs => ~r.changed)
  <2> HIDE DEF best, next, r
  <2>1. r.chosen = best /\ r.centroids = next
    BY <1>1
  <2>2. ASSUME next = cs PROVE ~r.changed
    <3>1. (next # cs) = FALSE
      BY <2>2
    <3>2. r = [chosen |-> best, centroids |-> next, changed |-> FALSE]
      BY <1>1, <3>1
    <3> QED
      BY <3>2
  <2> QED
    BY <2>1, <2>2
<1>3. best \in [ids -> 1 .. m]
  <2>1. cs \in [1 .. m -> Centroid]
    BY DEF Whole
  <2>2. r.chosen \in [ids -> 1 .. m]
    BY <2>1, RoundIs
  <2> QED
    BY <1>2, <2>2
<1>4. Grouped(ids, vecs, m, W, cs, best)
  BY <1>3 DEF Grouped
<1> HIDE DEF best, next, r
<1>5. /\ next \in [1 .. m -> Whole(W)] /\ Centred(W, next, best, vecs)
      /\ next # cs => Cost(W, next, best, vecs) < Cost(W, cs, best, vecs)
  BY <1>4, CentringHelps DEF next
<1>6. Grouped(ids, vecs, m, W, next, best)
  BY <1>3, <1>5 DEF Grouped
<1>7. Balanced(W, r, ids, vecs, m)
  BY <1>2, <1>5, <1>6 DEF Balanced
<1>8. ASSUME NEW chosen \in [ids -> 1 .. m], r.changed PROVE CostOf(W, r, vecs) < Cost(W, cs, chosen, vecs)
  <2>1. Grouped(ids, vecs, m, W, cs, chosen)
    BY DEF Grouped
  <2>2. Cost(W, cs, best, vecs) <= Cost(W, cs, chosen, vecs)
    BY <2>1, AssigningHelps DEF best
  <2>3. Cost(W, next, best, vecs) < Cost(W, cs, best, vecs)
    BY <1>2, <1>5, <1>8
  <2>4. Cost(W, next, best, vecs) \in Int /\ Cost(W, cs, best, vecs) \in Int /\ Cost(W, cs, chosen, vecs) \in Int
    <3>1. Cost(W, next, best, vecs) \in Int
      BY <1>6, OffIs
    <3>2. Cost(W, cs, best, vecs) \in Int
      BY <1>4, OffIs
    <3>3. Cost(W, cs, chosen, vecs) \in Int
      BY <2>1, OffIs
    <3> QED
      BY <3>1, <3>2, <3>3
  <2>5. CostOf(W, r, vecs) = Cost(W, next, best, vecs)
    BY <1>2 DEF CostOf
  <2> QED
    BY <2>2, <2>3, <2>4, <2>5
<1> QED
  BY <1>7, <1>8 DEF r

\* A round that changes something chooses other clusters than every round before.
LEMMA RoundsDiffer ==
  ASSUME NEW ids, NEW vecs, NEW m, Clusterable(ids, vecs, m), NEW seed \in [1 .. m -> ids],
         NEW R, RoundsFrom(R, seed, ids, vecs, m), NEW N \in 1 .. MaxIterations, R[N].changed
  PROVE  \A n \in 1 .. N - 1 : R[n].chosen # R[N].chosen
<1>1. N \in Nat \ {0} /\ 1 .. N \subseteq 1 .. MaxIterations /\ 2 .. N \subseteq 2 .. MaxIterations
  BY ClustersAssumption
<1>2. PICK W : Scale(ids, W)
  <2>1. Cardinality(ids) \in Nat
    BY MembersAre
  <2> QED
    BY <2>1, CommonMultiple DEF Scale
<1>3. ASSUME NEW n \in 1 .. N PROVE R[n].changed
  <2> DEFINE T == {k \in Nat : k < N => R[N - k].changed}
  <2>1. 0 \in T
    BY <1>1
  <2>2. ASSUME NEW k \in Nat, k \in T PROVE k + 1 \in T
    <3> SUFFICES ASSUME k + 1 < N PROVE R[N - (k + 1)].changed
      OBVIOUS
    <3>1. N - k \in 2 .. N /\ (N - k) - 1 = N - (k + 1) /\ k < N
      BY <1>1
    <3>2. R[N - k] = Again(R[N - (k + 1)], ids, vecs) /\ R[N - k].changed
      BY <1>1, <2>2, <3>1 DEF RoundsFrom
    <3> QED
      BY <3>2 DEF Again
  <2> HIDE DEF T
  <2>3. N - n \in Nat /\ N - n < N /\ N - (N - n) = n
    BY <1>1
  <2>4. N - n \in T
    BY <2>1, <2>2, <2>3, Induct
  <2> QED
    BY <2>3, <2>4 DEF T
<1>4. ASSUME NEW n \in 2 .. N PROVE R[n] = Round(R[n - 1].centroids, ids, vecs)
  <2>1. n - 1 \in 1 .. N
    BY <1>1
  <2>2. R[n - 1].changed /\ R[n] = Again(R[n - 1], ids, vecs)
    BY <1>1, <1>3, <2>1 DEF RoundsFrom
  <2> QED
    BY <2>2 DEF Again
<1> DEFINE U == {k \in Nat : k + 1 <= N => Balanced(W, R[k + 1], ids, vecs, m)}
<1>5. 0 \in U
  <2>1. ASSUME NEW j \in 1 .. m PROVE <<vecs[seed[j]], 1>> \in Whole(W)
    <3> DEFINE x == vecs[seed[j]]
    <3>1. x \in Int
      BY LineAssumption DEF Clusterable, Stored
    <3> HIDE DEF x
    <3>2. <<x, 1>> \in Centroid /\ IsPlace(W, <<x, 1>>, W * x)
      BY <1>2, <3>1 DEF Centroid, IsPlace, Scale
    <3>3. <<x, 1>> \in Whole(W)
      BY <3>2 DEF Whole
    <3> QED
      BY <3>3 DEF x
  <2>2. FirstOf(seed, vecs) \in [1 .. m -> Whole(W)]
    BY <2>1 DEF FirstOf
  <2>3. R[1] = Round(FirstOf(seed, vecs), ids, vecs)
    BY DEF RoundsFrom
  <2>4. Balanced(W, R[1], ids, vecs, m)
    BY <1>2, <2>2, <2>3, RoundHelps
  <2> QED
    BY <2>4
<1>6. ASSUME NEW k \in Nat, k \in U PROVE k + 1 \in U
  <2> SUFFICES ASSUME (k + 1) + 1 <= N PROVE Balanced(W, R[(k + 1) + 1], ids, vecs, m)
    OBVIOUS
  <2>1. Balanced(W, R[k + 1], ids, vecs, m)
    BY <1>1, <1>6
  <2>2. R[k + 1].centroids \in [1 .. m -> Whole(W)]
    BY <2>1 DEF Balanced, Grouped
  <2>3. R[(k + 1) + 1] = Round(R[k + 1].centroids, ids, vecs)
    <3>1. (k + 1) + 1 \in 2 .. N /\ ((k + 1) + 1) - 1 = k + 1
      BY <1>1
    <3> QED
      BY <1>4, <3>1
  <2> QED
    BY <1>2, <2>2, <2>3, RoundHelps
<1> HIDE DEF U
<1>7. ASSUME NEW n \in 1 .. N PROVE Balanced(W, R[n], ids, vecs, m)
  <2>1. n - 1 \in Nat /\ (n - 1) + 1 = n /\ n <= N
    BY <1>1
  <2>2. n - 1 \in U
    BY <1>5, <1>6, <2>1, Induct
  <2> QED
    BY <2>1, <2>2 DEF U
<1> DEFINE cost(n) == CostOf(W, R[n], vecs)
<1>8. ASSUME NEW n \in 1 .. N PROVE cost(n) \in Int /\ R[n].chosen \in [ids -> 1 .. m]
  <2>1. Grouped(ids, vecs, m, W, R[n].centroids, R[n].chosen)
    BY <1>7 DEF Balanced
  <2>2. Cost(W, R[n].centroids, R[n].chosen, vecs) \in Int
    BY <2>1, OffIs
  <2> QED
    BY <2>1, <2>2 DEF Grouped, CostOf
<1>9. ASSUME NEW n \in 2 .. N PROVE cost(n) < cost(n - 1)
  <2>1. n - 1 \in 1 .. N /\ n \in 1 .. N
    BY <1>1
  <2> DEFINE r == R[n - 1]
             cs == r.centroids
             chosen == r.chosen
  <2>2. cs \in [1 .. m -> Whole(W)] /\ chosen \in [ids -> 1 .. m]
    BY <1>7, <2>1 DEF Balanced, Grouped
  <2>3. R[n] = Round(cs, ids, vecs) /\ R[n].changed
    BY <1>3, <1>4, <2>1
  <2>4. cost(n - 1) = Cost(W, cs, chosen, vecs)
    BY DEF CostOf
  <2> HIDE DEF cs, chosen, cost
  <2>5. \A c \in [ids -> 1 .. m] : Round(cs, ids, vecs).changed =>
          CostOf(W, Round(cs, ids, vecs), vecs) < Cost(W, cs, c, vecs)
    BY <1>2, <2>2, RoundHelps
  <2>6. CostOf(W, R[n], vecs) < Cost(W, cs, chosen, vecs)
    BY <2>2, <2>3, <2>5
  <2> QED
    BY <2>4, <2>6 DEF cost
<1> HIDE DEF cost
<1> DEFINE V == {k \in Nat : \A n \in 1 .. N : n + (k + 1) <= N => cost(n + (k + 1)) < cost(n)}
<1>10. 0 \in V
  <2> SUFFICES ASSUME NEW n \in 1 .. N, n + 1 <= N PROVE cost(n + (0 + 1)) < cost(n)
    OBVIOUS
  <2>1. n + 1 \in 2 .. N /\ (n + 1) - 1 = n /\ 0 + 1 = 1
    BY <1>1
  <2> QED
    BY <1>9, <2>1
<1>11. ASSUME NEW k \in Nat, k \in V PROVE k + 1 \in V
  <2> SUFFICES ASSUME NEW n \in 1 .. N, n + ((k + 1) + 1) <= N PROVE cost(n + ((k + 1) + 1)) < cost(n)
    OBVIOUS
  <2> DEFINE a == n + (k + 1)
             b == n + ((k + 1) + 1)
  <2>1. a \in 1 .. N /\ b \in 2 .. N /\ b \in 1 .. N /\ b - 1 = a
    BY <1>1
  <2>2. cost(a) < cost(n)
    BY <1>11, <2>1
  <2> HIDE DEF a, b
  <2>3. cost(b) < cost(a)
    BY <1>9, <2>1
  <2>4. cost(a) \in Int /\ cost(b) \in Int /\ cost(n) \in Int
    BY <1>8, <2>1
  <2>5. cost(b) < cost(n)
    BY <2>2, <2>3, <2>4
  <2> QED
    BY <2>5 DEF b
<1> HIDE DEF V
<1>12. ASSUME NEW n \in 1 .. N, NEW l \in 1 .. N, n < l PROVE R[n].chosen # R[l].chosen
  <2>1. (l - n) - 1 \in Nat /\ n + (((l - n) - 1) + 1) = l /\ l <= N
    BY <1>1, <1>12
  <2>2. (l - n) - 1 \in V
    BY <1>10, <1>11, <2>1, Induct
  <2>3. cost(l) < cost(n)
    BY <2>1, <2>2 DEF V
  <2> SUFFICES ASSUME R[n].chosen = R[l].chosen PROVE FALSE
    OBVIOUS
  <2>4. Balanced(W, R[n], ids, vecs, m) /\ Balanced(W, R[l], ids, vecs, m)
    BY <1>7
  <2> DEFINE chosen == R[n].chosen
             cs == R[n].centroids
             ds == R[l].centroids
  <2>5. /\ Grouped(ids, vecs, m, W, cs, chosen) /\ Centred(W, cs, chosen, vecs)
        /\ Grouped(ids, vecs, m, W, ds, chosen) /\ Centred(W, ds, chosen, vecs)
    BY <2>4 DEF Balanced
  <2>6. cost(n) = Cost(W, cs, chosen, vecs) /\ cost(l) = Cost(W, ds, chosen, vecs)
    BY DEF cost, CostOf
  <2> HIDE DEF chosen, cs, ds
  <2>7. cost(n) = cost(l)
    BY <2>5, <2>6, CostOfCentred
  <2> QED
    BY <1>8, <2>3, <2>7
<1>13. \A n \in 1 .. N - 1 : n \in 1 .. N /\ n < N
  BY <1>1
<1> QED
  BY <1>1, <1>12, <1>13

-----------------------------------------------------------------------------
(* The theorems *)

\* Every variable keeps its type, whatever the constants: no cluster ever lists
\* an id less than never, although a removal takes entries out without looking
\* how many there are, and no insert goes beyond the layers there are.
THEOREM TypeCorrect == Spec => []TypeOK
<1>1. GraphInv /\ ClusterInv => TypeOK
  BY DEF GraphInv, Types, ClusterInv, TypeOK
<1> QED
  BY <1>1, GraphInvariant, ClustersInvariant, PTL

\* search_for_top_k() finds a stored vector in the first cluster it probes, for
\* any number of clusters and any history, if k-means comes to rest within its
\* rounds.
THEOREM StoredIsFound == Spec /\ []KMeansRests => []IvfFindsStored
<1>1. GraphInv /\ ClusterInv /\ HomeInv => IvfFindsStored
  <2> SUFFICES ASSUME GraphInv, ClusterInv, HomeInv, ~Hnsw, ivf.clusters # <<>>, NEW id \in Live \ unnoted
               PROVE  Met(ivf, vectors, vectors[id], 1)[id] > 0
    BY DEF IvfFindsStored
  <2>1. vectors \in Stored /\ ivf \in Clusters /\ id \in Present(vectors)
    BY DEF GraphInv, Types, ClusterInv, Live
  <2>2. Met(ivf, vectors, vectors[id], 1)[id] = ivf.clusters[NearestOf(Centroids(ivf), vectors[id])].entries[id]
    BY <2>1, MeetsStored
  <2> QED
    BY <2>2 DEF HomeInv, InItsCluster
<1> QED
  BY <1>1, GraphInvariant, ClustersInvariant, HomesInvariant, PTL

\* k_means() never goes round in circles: for any number of clusters and of
\* rounds, any vectors and any seeds it draws, a round that moves a centroid chooses
\* the clusters as no round before it did.  So the loop ends by itself after as many
\* rounds as there are ways to give the vectors a cluster each, at the latest.
THEOREM KMeansGoesOn == Spec => []KMeansNoCircle
<1>1. GraphInv => KMeansNoCircle
  <2> SUFFICES ASSUME GraphInv, K # 0, NEW s \in Seeds(Live), NEW l \in 1 .. MaxIterations,
                      RoundsOf(Live, vectors, s)[l].changed
               PROVE  \A n \in 1 .. l - 1 :
                        RoundsOf(Live, vectors, s)[n].chosen # RoundsOf(Live, vectors, s)[l].chosen
    BY DEF KMeansNoCircle
  <2> DEFINE m == IF K < Cardinality(Live) THEN K ELSE Cardinality(Live)
  <2>1. vectors \in Stored /\ Live \in SUBSET Ids
    BY DEF GraphInv, Types, Live, Present
  <2>2. m \in Nat /\ (Live # {} => m # 0)
    <3>1. IsFiniteSet(Live) /\ Cardinality(Live) \in Nat /\ (Cardinality(Live) = 0 <=> Live = {})
      BY <2>1, LineAssumption, FS_Subset, FS_CardinalityType, FS_EmptySet
    <3> QED
      BY <3>1, ClustersAssumption
  <2>3. s \in [1 .. m -> Live]
    BY DEF Seeds
  <2> HIDE DEF m
  <2>4. Clusterable(Live, vectors, m)
    BY <2>1, <2>2 DEF Clusterable, Live, Present
  <2>5. RoundsFrom(RoundsOf(Live, vectors, s), s, Live, vectors, m)
    BY <2>3, <2>4, RoundsAre
  <2> QED
    BY <2>3, <2>4, <2>5, RoundsDiffer
<1> QED
  BY <1>1, GraphInvariant, PTL

\* search_for_top_k() over all clusters answers what a brute-force search would,
\* for any number of clusters and any history, unless an id was filed twice since
\* the last rebuild; whether k-means came to rest does not matter.
THEOREM FullProbeIsExact == Spec => []IvfExact
<1>1. GraphInv /\ ClusterInv => IvfExact
  <2> SUFFICES ASSUME GraphInv, ClusterInv, ~Hnsw, ivf.clusters # <<>>, unnoted = {}, refiled = {},
                      NEW q \in Vals, NEW k \in 1 .. Cardinality(Ids),
                      NEW best \in Answered(ivf, vectors, q, k, Len(ivf.clusters))
               PROVE  TopOf({e[1] : e \in best}, q, k)
    BY DEF IvfExact
  <2> DEFINE n == Len(ivf.clusters)
             met == Met(ivf, vectors, q, n)
             d == From(q, vectors)
             found == UNION {{id} \X (1 .. met[id]) : id \in DOMAIN met}
             S == {e[1] : e \in best}
  <2>1. /\ vectors \in Stored /\ ivf \in Clusters /\ Live = Present(vectors) /\ q \in Int
        /\ Once(ivf) /\ Listed(ivf, Present(vectors))
    BY LineAssumption DEF GraphInv, Types, ClusterInv, Live
  <2>2. DOMAIN met = Live
    BY <2>1 DEF Met
  <2>3. \A id \in Live : met[id] = 1
    BY <2>1, MeetsAll
  <2>4. /\ best \in SUBSET found
        /\ Cardinality(best) = IF k < Cardinality(found) THEN k ELSE Cardinality(found)
        /\ \A e \in best, f \in found \ best : d[e[1]] <= d[f[1]]
    BY DEF Answered
  <2> HIDE DEF met, d
  <2>5. found = Live \X {1}
    <3>1. 1 .. 1 = {1}
      OBVIOUS
    <3>2. \A id \in Live : {id} \X (1 .. met[id]) = {id} \X {1}
      BY <2>3, <3>1
    <3> QED
      BY <2>2, <3>2
  <2> HIDE DEF found
  <2>6. IsFiniteSet(Live)
    BY <2>1, LineAssumption, FS_Subset DEF Present
  <2>7. Cardinality(S) = Cardinality(best)
    <3>1. best \in SUBSET (Live \X {1})
      BY <2>4, <2>5
    <3> QED
      BY <2>6, <3>1, FirstsOf
  <2>8. Cardinality(found) = Cardinality(Live)
    <3>1. {e[1] : e \in Live \X {1}} = Live
      <4>1. \A e \in Live \X {1} : e[1] \in Live
        OBVIOUS
      <4>2. \A id \in Live : <<id, 1>> \in Live \X {1} /\ <<id, 1>>[1] = id
        OBVIOUS
      <4> QED
        BY <4>1, <4>2
    <3>2. Cardinality({e[1] : e \in Live \X {1}}) = Cardinality(Live \X {1})
      BY <2>6, FirstsOf
    <3> QED
      BY <2>5, <3>1, <3>2
  <2>9. ASSUME NEW a \in S, NEW b \in Live \ S PROVE d[a] <= d[b]
    <3>1. <<a, 1>> \in best
      BY <2>4, <2>5
    <3>2. <<b, 1>> \in found \ best
      BY <2>5
    <3>3. <<a, 1>>[1] = a /\ <<b, 1>>[1] = b
      OBVIOUS
    <3> QED
      BY <2>4, <3>1, <3>2, <3>3
  <2> QED
    BY <2>4, <2>7, <2>8, <2>9 DEF TopOf, d
<1> QED
  BY <1>1, GraphInvariant, ClustersInvariant, PTL
==============================================================================
