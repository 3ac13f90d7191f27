-------------------------- MODULE TourSolverProofs --------------------------
(***************************************************************************)
(* Proofs about the solver, for any number of stops and any costs.         *)
(***************************************************************************)
EXTENDS TourSolver, FiniteSetTheorems, SequenceTheorems, WellFoundedInduction, TLAPS

----------------------------------------------------------------------------
\* Induction over numbers, from the library's facts about finite sets.

\* Of any family of finite sets, one has no other one of the family inside.
LEMMA LeastSet ==
    ASSUME NEW F, F # {}, \A T \in F : IsFiniteSet(T)
    PROVE  \E T \in F : \A U \in F : U \subseteq T => U = T
<1> DEFINE S == UNION F
<1>1. F \subseteq FiniteSubsetsOf(S)
  BY DEF FiniteSubsetsOf
<1> HIDE DEF S
<1>2. PICK T \in F : \A U \in F : ~(<<U, T>> \in StrictSubsetOrdering(S))
  BY <1>1, FS_StrictSubsetOrderingWellFounded, WFMin
<1> QED
  BY <1>1, <1>2 DEF StrictSubsetOrdering, FiniteSubsetsOf

\* Of a set measured by numbers, one is least.
LEMMA LeastMeasure ==
    ASSUME NEW S, S # {}, NEW r, \A x \in S : r[x] \in Nat
    PROVE  \E x \in S : \A y \in S : r[x] <= r[y]
<1> DEFINE spans == {1..r[x] : x \in S}
<1>1. \A T \in spans : IsFiniteSet(T)
  <2>1. \A x \in S : IsFiniteSet(1..r[x])
    BY FS_Interval
  <2> QED
    BY <2>1
<1>2. spans # {}
  OBVIOUS
<1>3. PICK T \in spans : \A U \in spans : U \subseteq T => U = T
  <2> HIDE DEF spans
  <2> QED
    BY <1>1, <1>2, LeastSet
<1>4. PICK x \in S : T = 1..r[x]
  OBVIOUS
<1>5. ASSUME NEW y \in S, r[y] < r[x] PROVE FALSE
  <2>1. r[x] \in Nat /\ r[y] \in Nat
    OBVIOUS
  <2>2. 1..r[y] \in spans
    OBVIOUS
  <2>3. 1..r[y] \subseteq 1..r[x] /\ r[x] \in 1..r[x] /\ r[x] \notin 1..r[y]
    BY <1>5, <2>1
  <2>4. 1..r[y] = 1..r[x]
    <3> HIDE DEF spans
    <3> QED
      BY <1>3, <1>4, <2>2, <2>3
  <2> QED
    BY <2>3, <2>4
<1>6. \A y \in S : r[x] <= r[y]
  <2> TAKE y \in S
  <2>1. r[x] \in Nat /\ r[y] \in Nat /\ ~(r[y] < r[x])
    BY <1>5
  <2> QED
    BY <2>1
<1> QED
  BY <1>6

\* What holds of x as soon as it holds of all that measure less, holds of all.
Inherited(D, r, T) == \A x \in D : (\A y \in D : r[y] < r[x] => y \in T) => x \in T

LEMMA Descent ==
    ASSUME NEW D, NEW r, \A x \in D : r[x] \in Nat, NEW T, Inherited(D, r, T)
    PROVE  D \subseteq T
<1> SUFFICES ASSUME D \ T # {} PROVE FALSE
  OBVIOUS
<1>1. \A x \in D \ T : r[x] \in Nat
  OBVIOUS
<1>2. PICK x \in D \ T : \A y \in D \ T : r[x] <= r[y]
  BY <1>1, LeastMeasure
<1>3. \A y \in D : r[y] < r[x] => y \in T
  <2> SUFFICES ASSUME NEW y \in D, r[y] < r[x], y \notin T PROVE FALSE
    OBVIOUS
  <2>1. r[x] <= r[y] /\ r[x] \in Nat /\ r[y] \in Nat
    BY <1>2
  <2> QED
    BY <2>1
<1> QED
  BY <1>3 DEF Inherited

\* A function that is given at x by what it is at all that measure less exists.
\* G[x][f] is its value at x, given f.
Solves(f, D, G) == \A x \in D : f[x] = G[x][f]
Below(r, x, f, g, D) == \A y \in D : r[y] < r[x] => f[y] = g[y]
Given(D, V, r, G) ==
    /\ r \in [D -> Nat]
    /\ G \in [D -> [[D -> V] -> V]]
    /\ \A x \in D, f, g \in [D -> V] : Below(r, x, f, g, D) => G[x][f] = G[x][g]

LEMMA Recursion ==
    ASSUME NEW D, NEW V, V # {}, NEW r, NEW G, Given(D, V, r, G)
    PROVE  \E f \in [D -> V] : Solves(f, D, G)
<1> DEFINE Upto(g, k) == g \in [D -> V] /\ \A x \in D : r[x] < k => g[x] = G[x][g]
<1>1. ASSUME NEW k \in Nat, NEW l \in Nat, NEW g, NEW h, Upto(g, k), Upto(h, l)
      PROVE  \A x \in D : r[x] < k /\ r[x] < l => g[x] = h[x]
  <2> DEFINE T == {x \in D : r[x] < k /\ r[x] < l => g[x] = h[x]}
  <2>1. \A x \in D : r[x] \in Nat
    BY DEF Given
  <2>2. ASSUME NEW x \in D, \A y \in D : r[y] < r[x] => y \in T
        PROVE  x \in T
    <3> SUFFICES ASSUME r[x] < k, r[x] < l PROVE g[x] = h[x]
      OBVIOUS
    <3>1. Below(r, x, g, h, D)
      <4> SUFFICES ASSUME NEW y \in D, r[y] < r[x] PROVE g[y] = h[y]
        BY DEF Below
      <4>1. r[y] < k /\ r[y] < l
        BY <2>1
      <4> QED
        BY <2>2, <4>1
    <3>2. g[x] = G[x][g] /\ h[x] = G[x][h] /\ g \in [D -> V] /\ h \in [D -> V]
      BY <1>1
    <3> QED
      BY <3>1, <3>2 DEF Given
  <2>3. Inherited(D, r, T)
    BY <2>2 DEF Inherited
  <2> HIDE DEF T
  <2>4. D \subseteq T
    BY <2>1, <2>3, Descent
  <2> QED
    BY <2>4 DEF T
<1>2. \A k \in Nat : \E g : Upto(g, k)
  <2> DEFINE K == {k \in Nat : \E g : Upto(g, k)}
             id == [k \in Nat |-> k]
  <2>1. 0 \in K
    <3>1. PICK v \in V : TRUE
      OBVIOUS
    <3>2. Upto([x \in D |-> v], 0)
      BY DEF Given
    <3> QED
      BY <3>2
  <2>2. ASSUME NEW k \in Nat, k \in K PROVE k + 1 \in K
    <3>1. PICK g : Upto(g, k)
      BY <2>2
    <3> DEFINE h == [x \in D |-> IF r[x] = k THEN G[x][g] ELSE g[x]]
    <3>2. g \in [D -> V] /\ G \in [D -> [[D -> V] -> V]] /\ \A x \in D : r[x] \in Nat
      BY <3>1 DEF Given
    <3>3. h \in [D -> V]
      BY <3>2
    <3>4. ASSUME NEW x \in D, r[x] < k + 1 PROVE h[x] = G[x][h]
      <4>1. Below(r, x, g, h, D)
        BY <3>2, <3>4 DEF Below
      <4>2. G[x][g] = G[x][h]
        BY <3>2, <3>3, <4>1 DEF Given
      <4>3. r[x] = k \/ r[x] < k
        <5>1. r[x] \in Nat
          BY <3>2
        <5> QED
          BY <3>4, <5>1
      <4>4. CASE r[x] = k
        BY <4>2, <4>4
      <4>5. CASE r[x] # k
        <5>1. h[x] = g[x] /\ r[x] < k
          BY <4>3, <4>5
        <5> HIDE DEF h
        <5> QED
          BY <3>1, <4>2, <5>1
      <4> QED
        BY <4>4, <4>5
    <3>5. Upto(h, k + 1)
      BY <3>3, <3>4
    <3> HIDE DEF h
    <3> QED
      BY <3>5
  <2> HIDE DEF K
  <2>3. ASSUME NEW k \in Nat, \A l \in Nat : id[l] < id[k] => l \in K
        PROVE  k \in K
    <3>1. CASE k = 0
      BY <2>1, <3>1
    <3>2. CASE k # 0
      <4>1. k - 1 \in Nat /\ k - 1 < k /\ (k - 1) + 1 = k
        BY <3>2
      <4>2. k - 1 \in K
        BY <2>3, <4>1
      <4> QED
        BY <2>2, <4>1, <4>2
    <3> QED
      BY <3>1, <3>2
  <2>4. Inherited(Nat, id, K)
    BY <2>3 DEF Inherited
  <2>5. \A k \in Nat : id[k] \in Nat
    OBVIOUS
  <2> HIDE DEF id
  <2>6. Nat \subseteq K
    BY <2>4, <2>5, Descent
  <2> QED
    BY <2>6 DEF K
<1> DEFINE Sol(x) == CHOOSE g : Upto(g, r[x] + 1)
           f == [x \in D |-> Sol(x)[x]]
<1>3. \A x \in D : r[x] \in Nat
  BY DEF Given
<1>4. \A x \in D : Upto(Sol(x), r[x] + 1)
  <2> HIDE DEF Upto
  <2> TAKE x \in D
  <2>1. r[x] + 1 \in Nat
    BY <1>3
  <2>2. \E g : Upto(g, r[x] + 1)
    BY <1>2, <2>1
  <2> QED
    BY <2>2
<1> HIDE DEF Sol
<1>5. f \in [D -> V]
  BY <1>4
<1>6. ASSUME NEW x \in D PROVE f[x] = G[x][f]
  <2>1. Below(r, x, f, Sol(x), D)
    <3> SUFFICES ASSUME NEW y \in D, r[y] < r[x] PROVE Sol(y)[y] = Sol(x)[y]
      BY DEF Below
    <3>1. r[y] + 1 \in Nat /\ r[x] + 1 \in Nat /\ r[y] < r[y] + 1 /\ r[y] < r[x] + 1
      BY <1>3
    <3>2. Upto(Sol(y), r[y] + 1) /\ Upto(Sol(x), r[x] + 1)
      BY <1>4
    <3> HIDE DEF Upto
    <3> QED
      BY <1>1, <3>1, <3>2
  <2>2. Sol(x) \in [D -> V] /\ Sol(x)[x] = G[x][Sol(x)]
    BY <1>3, <1>4
  <2>3. G[x][f] = G[x][Sol(x)]
    BY <1>5, <2>1, <2>2 DEF Given
  <2> QED
    BY <2>2, <2>3
<1> QED
  BY <1>5, <1>6 DEF Solves

\* What holds of a and goes on from a number to the next holds up to n.
LEMMA Upwards ==
    ASSUME NEW a \in Int, NEW n \in Int, NEW T, a \in T,
           \A i \in (a + 1)..n : i - 1 \in T => i \in T
    PROVE  a..n \subseteq T
<1> DEFINE r == [i \in a..n |-> i - a]
<1>1. \A i \in a..n : r[i] \in Nat
  OBVIOUS
<1>2. ASSUME NEW i \in a..n, \A j \in a..n : r[j] < r[i] => j \in T
      PROVE  i \in T
  <2>1. CASE i = a
    BY <2>1
  <2>2. CASE i # a
    <3>1. i \in (a + 1)..n /\ i - 1 \in a..n
      BY <2>2
    <3>2. r[i - 1] < r[i]
      BY <3>1
    <3> QED
      BY <1>2, <3>1, <3>2
  <2> QED
    BY <2>1, <2>2
<1>3. Inherited(a..n, r, T)
  BY <1>2 DEF Inherited
<1> HIDE DEF r
<1> QED
  BY <1>1, <1>3, Descent

\* A function on a..n, with f[i] in V[i], that is given at a, and at i by what it is
\* at i - 1.
Steps(H, a, n, V) == \A i \in (a + 1)..n : \A v \in V[i - 1] : H[i][v] \in V[i]
Iterates(t, a, n, V, base, H) ==
    t[a] = base /\ \A i \in (a + 1)..n : t[i - 1] \in V[i - 1] => t[i] = H[i][t[i - 1]]
Iterated(t, a, n, V, base, H) ==
    /\ t[a] = base /\ \A i \in a..n : t[i] \in V[i]
    /\ \A i \in (a + 1)..n : t[i - 1] \in V[i - 1] /\ t[i] = H[i][t[i - 1]]
IsOn(f, a, n) == f = [i \in a..n |-> f[i]]

LEMMA ByIndexOnly ==
    ASSUME NEW a \in Int, NEW n \in Int, a <= n, NEW V, NEW base \in V[a], NEW H,
           Steps(H, a, n, V), NEW t, Iterates(t, a, n, V, base, H)
    PROVE  Iterated(t, a, n, V, base, H)
<1> DEFINE T == {i \in a..n : t[i] \in V[i]}
<1>1. a \in T
  BY DEF Iterates
<1>2. ASSUME NEW i \in (a + 1)..n, i - 1 \in T PROVE i \in T
  BY <1>2 DEF Iterates, Steps
<1> HIDE DEF T
<1>3. a..n \subseteq T
  BY <1>1, <1>2, Upwards
<1>4. \A i \in a..n : t[i] \in V[i]
  BY <1>3 DEF T
<1>5. \A i \in (a + 1)..n : t[i - 1] \in V[i - 1]
  <2> TAKE i \in (a + 1)..n
  <2>1. i - 1 \in a..n
    OBVIOUS
  <2> QED
    BY <1>4, <2>1
<1> QED
  BY <1>4, <1>5 DEF Iterates, Iterated

LEMMA ByIndex ==
    ASSUME NEW a \in Int, NEW n \in Int, a <= n, NEW V, NEW base \in V[a], NEW H,
           Steps(H, a, n, V)
    PROVE  \E f : IsOn(f, a, n) /\ Iterated(f, a, n, V, base, H)
<1> DEFINE T == {k \in a..n : \E f : IsOn(f, a, k) /\ Iterates(f, a, k, V, base, H)}
<1>1. a \in T
  <2>1. IsOn([i \in a..a |-> base], a, a)
    BY DEF IsOn
  <2>2. Iterates([i \in a..a |-> base], a, a, V, base, H)
    BY DEF Iterates
  <2> QED
    BY <2>1, <2>2
<1>2. ASSUME NEW k \in (a + 1)..n, k - 1 \in T
      PROVE  k \in T
  <2>1. PICK f : IsOn(f, a, k - 1) /\ Iterates(f, a, k - 1, V, base, H)
    BY <1>2
  <2> DEFINE h == [i \in a..k |-> IF i < k THEN f[i] ELSE H[k][f[k - 1]]]
  <2>2. k - 1 \in a..(k - 1) /\ k \in a..n
    OBVIOUS
  <2>3. IsOn(h, a, k)
    BY DEF IsOn
  <2>4. h[a] = base
    BY <2>1, <2>2 DEF Iterates
  <2>5. ASSUME NEW i \in (a + 1)..k, h[i - 1] \in V[i - 1] PROVE h[i] = H[i][h[i - 1]]
    <3>1. i \in a..k /\ i - 1 \in a..k /\ i - 1 < k
      OBVIOUS
    <3>2. h[i - 1] = f[i - 1]
      BY <3>1
    <3>3. CASE i = k
      BY <3>1, <3>2, <3>3
    <3>4. CASE i # k
      <4>1. i < k /\ i \in (a + 1)..(k - 1) /\ i - 1 \in a..(k - 1)
        BY <3>4
      <4>2. h[i] = f[i]
        BY <3>1, <4>1
      <4>3. f[i] = H[i][f[i - 1]]
        BY <2>1, <2>5, <3>2, <4>1 DEF Iterates
      <4> QED
        BY <3>2, <4>2, <4>3
    <3> QED
      BY <3>3, <3>4
  <2> HIDE DEF h
  <2>6. Iterates(h, a, k, V, base, H)
    BY <2>4, <2>5 DEF Iterates
  <2> QED
    BY <2>2, <2>3, <2>6
<1> HIDE DEF T
<1>3. a..n \subseteq T
  BY <1>1, <1>2, Upwards
<1>4. n \in T
  BY <1>3
<1>5. PICK f : IsOn(f, a, n) /\ Iterates(f, a, n, V, base, H)
  BY <1>4 DEF T
<1> QED
  BY <1>5, ByIndexOnly

----------------------------------------------------------------------------
\* Matrices and the cost of an order.

Matrix(m, n) == n \in Nat \ {0} /\ m \in [1..n -> [1..n -> Nat]]
Route(o, k, n) == k \in Nat \ {0} /\ o \in [1..k -> 1..n]

LEMMA Length ==
    ASSUME NEW k \in Nat \ {0}, NEW S, NEW o \in [1..k -> S]
    PROVE  Len(o) = k /\ DOMAIN o = 1..k /\ o \in Seq(S)
<1>1. o \in Seq(S) /\ DOMAIN o = 1..k
  OBVIOUS
<1>2. Len(o) \in Nat /\ DOMAIN o = 1..Len(o)
  BY <1>1
<1>3. k \in 1..Len(o) /\ Len(o) + 1 \notin 1..k
  BY <1>1, <1>2
<1>4. k <= Len(o) /\ Len(o) <= k
  BY <1>2, <1>3
<1> QED
  BY <1>1, <1>2, <1>4

LEMMA MatrixSize ==
    ASSUME NEW m, NEW n, Matrix(m, n)
    PROVE  /\ n \in Nat \ {0} /\ Len(m) = n /\ DOMAIN m = 1..n
           /\ \A i, j \in 1..n : m[i][j] \in Nat
<1>1. \A i, j \in 1..n : m[i][j] \in Nat
  BY DEF Matrix
<1>2. Len(m) = n /\ DOMAIN m = 1..n
  BY Length DEF Matrix
<1> QED
  BY <1>1, <1>2 DEF Matrix

LEMMA RouteSize ==
    ASSUME NEW o, NEW k, NEW n, Route(o, k, n)
    PROVE  /\ k \in Nat \ {0} /\ Len(o) = k /\ DOMAIN o = 1..k /\ o \in Seq(1..n)
           /\ \A i \in 1..k : o[i] \in 1..n
BY Length DEF Route

\* c[i] is the cost up to the i-th stop.
Sums(c, m, o, k) ==
    /\ c[1] = 0 /\ \A i \in 1..k : c[i] \in Nat
    /\ \A i \in 2..k : c[i] = c[i - 1] + m[o[i - 1]][o[i]]

\* The cost of an order is the last of its sums.
LEMMA CostSums ==
    ASSUME NEW m, NEW n, Matrix(m, n), NEW o, NEW k, Route(o, k, n)
    PROVE  \E c : Sums(c, m, o, k) /\ pathCost(m, o) = c[k]
<1> DEFINE H == [i \in 2..k |-> [v \in Nat |-> v + m[o[i - 1]][o[i]]]]
           V == [i \in 1..k |-> Nat]
           Cost(f) == [i \in 1..k |-> IF i = 1 THEN 0 ELSE f[i - 1] + m[o[i - 1]][o[i]]]
<1>1. k \in Int /\ 1 <= k
  BY DEF Route
<1>2. \A i \in 2..k : m[o[i - 1]][o[i]] \in Nat
  <2> TAKE i \in 2..k
  <2>1. i \in 1..k /\ i - 1 \in 1..k
    BY <1>1
  <2>2. o[i] \in 1..n /\ o[i - 1] \in 1..n
    BY <2>1 DEF Route
  <2> QED
    BY <2>2, MatrixSize
<1>3. Steps(H, 1, k, V)
  BY <1>1, <1>2 DEF Steps
<1>0. 1 \in Int /\ 0 \in V[1]
  BY <1>1
<1>4. PICK f : IsOn(f, 1, k) /\ Iterated(f, 1, k, V, 0, H)
  <2> HIDE DEF H, V
  <2> QED
    BY <1>0, <1>1, <1>3, ByIndex
<1>5. f = Cost(f)
  <2>1. ASSUME NEW i \in 1..k
        PROVE  f[i] = IF i = 1 THEN 0 ELSE f[i - 1] + m[o[i - 1]][o[i]]
    <3>1. CASE i = 1
      BY <1>4, <3>1 DEF Iterated
    <3>2. CASE i # 1
      <4>1. i \in (1 + 1)..k /\ i \in 2..k /\ i - 1 \in 1..k
        BY <1>1, <3>2
      <4>2. f[i - 1] \in Nat /\ f[i] = H[i][f[i - 1]]
        BY <1>4, <4>1 DEF Iterated
      <4> QED
        BY <3>2, <4>1, <4>2
    <3> QED
      BY <3>1, <3>2
  <2> QED
    BY <1>4, <2>1 DEF IsOn
<1> DEFINE c == CHOOSE f1 : f1 = Cost(f1)
<1>6. c = Cost(c)
  BY <1>5
<1>7. pathCost(m, o) = c[k]
  BY RouteSize DEF pathCost
<1> HIDE DEF c
<1>8. Iterates(c, 1, k, V, 0, H)
  <2>1. c[1] = 0
    BY <1>1, <1>6
  <2>2. ASSUME NEW i \in 2..k, c[i - 1] \in V[i - 1] PROVE c[i] = H[i][c[i - 1]]
    <3>1. i \in 1..k /\ i # 1 /\ i - 1 \in 1..k
      BY <1>1
    <3>2. c[i] = c[i - 1] + m[o[i - 1]][o[i]]
      BY <1>6, <3>1
    <3> QED
      BY <2>2, <3>1, <3>2
  <2> HIDE DEF H, V
  <2> QED
    BY <2>1, <2>2 DEF Iterates
<1>9. Iterated(c, 1, k, V, 0, H)
  <2> HIDE DEF H, V
  <2> QED
    BY <1>0, <1>1, <1>3, <1>8, ByIndexOnly
<1>10. Sums(c, m, o, k)
  <2>1. c[1] = 0 /\ \A i \in 1..k : c[i] \in Nat
    BY <1>9 DEF Iterated
  <2>2. ASSUME NEW i \in 2..k PROVE c[i] = c[i - 1] + m[o[i - 1]][o[i]]
    <3>1. i \in (1 + 1)..k
      OBVIOUS
    <3>2. i - 1 \in 1..k
      BY <1>1
    <3>3. c[i - 1] \in V[i - 1] /\ c[i] = H[i][c[i - 1]]
      <4> HIDE DEF H, V
      <4> QED
        BY <1>9, <3>1 DEF Iterated
    <3> QED
      BY <3>2, <3>3
  <2> QED
    BY <2>1, <2>2 DEF Sums
<1> QED
  BY <1>7, <1>10

\* Two orders that agree up to a place cost the same up to it.
LEMMA SameSums ==
    ASSUME NEW m, NEW n, Matrix(m, n), NEW k \in Nat \ {0}, NEW o, NEW p, NEW c, NEW d,
           Sums(c, m, o, k), Sums(d, m, p, k), \A i \in 1..k : o[i] = p[i]
    PROVE  c[k] = d[k]
<1> DEFINE T == {i \in 1..k : c[i] = d[i]}
<1>1. 1 \in T
  BY DEF Sums
<1>2. ASSUME NEW i \in 2..k, i - 1 \in T PROVE i \in T
  <2>1. i \in 1..k /\ i - 1 \in 1..k
    OBVIOUS
  <2> QED
    BY <1>2, <2>1 DEF Sums
<1> HIDE DEF T
<1>3. 1..k \subseteq T
  BY <1>1, <1>2, Upwards
<1> QED
  BY <1>3 DEF T

LEMMA CostIsNatural ==
    ASSUME NEW m, NEW n, Matrix(m, n), NEW o, NEW k, Route(o, k, n)
    PROVE  pathCost(m, o) \in Nat
<1>1. PICK c : Sums(c, m, o, k) /\ pathCost(m, o) = c[k]
  BY CostSums
<1>2. k \in 1..k
  BY DEF Route
<1> QED
  BY <1>1, <1>2 DEF Sums

\* One stop more costs one step more.
LEMMA CostOfAppend ==
    ASSUME NEW m, NEW n, Matrix(m, n), NEW o, NEW k, Route(o, k, n), NEW e \in 1..n
    PROVE  /\ Route(Append(o, e), k + 1, n)
           /\ pathCost(m, Append(o, e)) = pathCost(m, o) + m[o[k]][e]
<1> DEFINE p == Append(o, e)
<1>1. Len(o) = k /\ o \in Seq(1..n) /\ k \in Nat \ {0}
  BY RouteSize DEF Route
<1>2. p \in [1..(k + 1) -> 1..n] /\ p[k + 1] = e /\ \A i \in 1..k : p[i] = o[i]
  <2>1. p \in Seq(1..n) /\ Len(p) = k + 1 /\ p[Len(o) + 1] = e
    BY <1>1, AppendProperties
  <2>2. \A i \in 1..Len(o) : p[i] = o[i]
    BY <1>1, AppendProperties
  <2>3. p \in [1..Len(p) -> 1..n]
    <3> HIDE DEF p
    <3> QED
      BY <2>1, LenProperties
  <2> QED
    BY <1>1, <2>1, <2>2, <2>3
<1> HIDE DEF p
<1>3. Route(p, k + 1, n)
  BY <1>1, <1>2 DEF Route
<1>4. PICK c : Sums(c, m, o, k) /\ pathCost(m, o) = c[k]
  BY CostSums
<1>5. PICK d : Sums(d, m, p, k + 1) /\ pathCost(m, p) = d[k + 1]
  BY <1>3, CostSums
<1>6. Sums(d, m, p, k)
  BY <1>1, <1>5 DEF Sums
<1>7. c[k] = d[k]
  BY <1>1, <1>2, <1>4, <1>6, SameSums
<1>8. d[k + 1] = d[k] + m[o[k]][e]
  <2>1. k + 1 \in 2..(k + 1) /\ (k + 1) - 1 = k /\ k \in 1..k
    BY <1>1
  <2>2. d[k + 1] = d[k] + m[p[k]][p[k + 1]]
    BY <1>5, <2>1 DEF Sums
  <2> QED
    BY <1>2, <2>1, <2>2
<1> QED
  BY <1>3, <1>4, <1>5, <1>7, <1>8 DEF p

\* A loop with a strict comparison finds a least one.
LEMMA FirstBestIsLeast ==
    ASSUME NEW S, S \subseteq Nat, S # {}, NEW cost, \A x \in S : cost[x] \in Nat
    PROVE  FirstBest(S, cost) \in S /\ \A y \in S : cost[FirstBest(S, cost)] <= cost[y]
<1>1. PICK a \in S : \A y \in S : cost[a] <= cost[y]
  BY LeastMeasure
<1> DEFINE B == {x \in S : cost[x] = cost[a]}
           id == [x \in Nat |-> x]
<1>2. PICK x \in B : \A y \in B : id[x] <= id[y]
  <2>1. B # {} /\ \A y \in B : id[y] \in Nat
    OBVIOUS
  <2> HIDE DEF B, id
  <2> QED
    BY <2>1, LeastMeasure
<1>3. x \in S /\ \A y \in S : cost[x] < cost[y] \/ (cost[x] = cost[y] /\ x <= y)
  <2> SUFFICES ASSUME NEW y \in S
               PROVE  cost[x] < cost[y] \/ (cost[x] = cost[y] /\ x <= y)
    OBVIOUS
  <2>1. cost[x] = cost[a] /\ cost[a] <= cost[y] /\ cost[a] \in Nat /\ cost[y] \in Nat
    BY <1>1
  <2>2. CASE cost[y] = cost[a]
    BY <1>2, <2>1, <2>2
  <2>3. CASE cost[y] # cost[a]
    BY <2>1, <2>3
  <2> QED
    BY <2>2, <2>3
<1> DEFINE First(z) == \A y \in S : cost[z] < cost[y] \/ (cost[z] = cost[y] /\ z <= y)
<1>4. FirstBest(S, cost) \in S /\ First(FirstBest(S, cost))
  BY <1>3 DEF FirstBest
<1>5. \A y \in S : cost[FirstBest(S, cost)] <= cost[y]
  <2> TAKE y \in S
  <2>1. PICK z \in S : z = FirstBest(S, cost) /\ First(z)
    BY <1>4
  <2>2. cost[z] \in Nat /\ cost[y] \in Nat
    OBVIOUS
  <2> QED
    BY <2>1, <2>2
<1> QED
  BY <1>4, <1>5

----------------------------------------------------------------------------
\* heldKarp: its table is a function that exists.

PathType(n) == [cost : Nat, order : Seq(1..n)]

LEMMA NoPathType == \A n : NoPath \in PathType(n)
BY EmptySeq DEF NoPath, PathType

\* The step from b is a best one.
BestStep(m, n, before, end, b) ==
    /\ before[b] # NoPath
    /\ Extended(m, before, end) =
         [cost |-> before[b].cost + m[b][end], order |-> Append(before[b].order, end)]
    /\ \A p \in 1..n : before[p] # NoPath =>
          before[b].cost + m[b][end] <= before[p].cost + m[p][end]

NoneBefore(n, before) == \A p \in 1..n : before[p] = NoPath

LEMMA ExtendedIs ==
    ASSUME NEW m, NEW n, Matrix(m, n), NEW before \in [1..n -> PathType(n)], NEW end \in 1..n
    PROVE  IF NoneBefore(n, before) THEN Extended(m, before, end) = NoPath
           ELSE \E b \in 1..n : BestStep(m, n, before, end, b)
<1> DEFINE sources == {p \in DOMAIN m : before[p] # NoPath /\ m[p][end] >= 0}
           total == [p \in sources |-> before[p].cost + m[p][end]]
           best == FirstBest(sources, total)
<1>1. DOMAIN m = 1..n /\ \A p \in 1..n : m[p][end] \in Nat
  BY MatrixSize
<1>2. sources = {p \in 1..n : before[p] # NoPath}
  BY <1>1
<1>3. \A p \in 1..n : before[p].cost \in Nat
  BY DEF PathType
<1>4. \A p \in sources : total[p] \in Nat /\ total[p] = before[p].cost + m[p][end]
  BY <1>1, <1>2, <1>3
<1>5. Extended(m, before, end) =
        IF sources = {} THEN NoPath
        ELSE [cost |-> total[best], order |-> Append(before[best].order, end)]
  BY DEF Extended
<1>6. sources # {} => best \in sources /\ \A p \in sources : total[best] <= total[p]
  <2> HIDE DEF total, sources
  <2>1. sources \subseteq Nat
    BY <1>2
  <2> QED
    BY <1>4, <2>1, FirstBestIsLeast
<1> HIDE DEF sources, total, best
<1>7. ASSUME NoneBefore(n, before) PROVE Extended(m, before, end) = NoPath
  BY <1>2, <1>5, <1>7 DEF NoneBefore
<1>8. ASSUME ~NoneBefore(n, before) PROVE \E b \in 1..n : BestStep(m, n, before, end, b)
  <2>1. sources # {}
    BY <1>2, <1>8 DEF NoneBefore
  <2>2. best \in 1..n /\ before[best] # NoPath /\ total[best] = before[best].cost + m[best][end]
    BY <1>2, <1>4, <1>6, <2>1
  <2>3. \A p \in 1..n : before[p] # NoPath =>
           before[best].cost + m[best][end] <= before[p].cost + m[p][end]
    BY <1>2, <1>4, <1>6, <2>1, <2>2
  <2>4. Extended(m, before, end) =
          [cost |-> before[best].cost + m[best][end], order |-> Append(before[best].order, end)]
    BY <1>5, <2>1, <2>2
  <2> QED
    BY <2>2, <2>3, <2>4 DEF BestStep
<1> QED
  BY <1>7, <1>8

LEMMA ExtendedType ==
    ASSUME NEW m, NEW n, Matrix(m, n), NEW before \in [1..n -> PathType(n)], NEW end \in 1..n
    PROVE  Extended(m, before, end) \in PathType(n)
<1>1. CASE NoneBefore(n, before)
  <2>1. Extended(m, before, end) = NoPath
    BY <1>1, ExtendedIs
  <2> QED
    BY <2>1, NoPathType
<1>2. CASE ~NoneBefore(n, before)
  <2>1. PICK b \in 1..n : BestStep(m, n, before, end, b)
    BY <1>2, ExtendedIs
  <2>2. before[b].cost \in Nat /\ before[b].order \in Seq(1..n) /\ m[b][end] \in Nat
    BY MatrixSize DEF PathType
  <2>3. Append(before[b].order, end) \in Seq(1..n)
    BY <2>2, AppendProperties
  <2> QED
    BY <2>1, <2>2, <2>3 DEF PathType, BestStep
<1> QED
  BY <1>1, <1>2

\* What a path over the stops S to end is made from the paths over fewer stops.
PathOver(m, start, paths, S, end) ==
    IF start \notin S \/ end \notin S THEN NoPath
    ELSE IF S = {start} THEN [cost |-> 0, order |-> <<start>>]
    ELSE IF end = start THEN NoPath
    ELSE Extended(m, paths[S \ {end}], end)

PathsType(n) == [SUBSET (1..n) -> [1..n -> PathType(n)]]

LEMMA PathOverType ==
    ASSUME NEW m, NEW n, Matrix(m, n), NEW start \in 1..n, NEW paths,
           NEW S \in SUBSET (1..n), NEW end \in 1..n,
           end \in S => paths[S \ {end}] \in [1..n -> PathType(n)]
    PROVE  PathOver(m, start, paths, S, end) \in PathType(n)
<1>1. NoPath \in PathType(n)
  BY NoPathType
<1>2. [cost |-> 0, order |-> <<start>>] \in PathType(n)
  BY DEF PathType
<1>4. end \in S => Extended(m, paths[S \ {end}], end) \in PathType(n)
  BY ExtendedType
<1> QED
  BY <1>1, <1>2, <1>4 DEF PathOver

\* Its size measures a set of stops.
Size(n) == [S \in SUBSET (1..n) |-> Cardinality(S)]

LEMMA Sizes ==
    ASSUME NEW n \in Nat
    PROVE  /\ Size(n) \in [SUBSET (1..n) -> Nat]
           /\ \A S \in SUBSET (1..n) : \A x \in S : Size(n)[S \ {x}] < Size(n)[S]
<1>1. \A S \in SUBSET (1..n) : IsFiniteSet(S) /\ Cardinality(S) \in Nat
  <2> TAKE S \in SUBSET (1..n)
  <2>1. IsFiniteSet(1..n)
    BY FS_Interval
  <2>2. IsFiniteSet(S)
    BY <2>1, FS_Subset
  <2> QED
    BY <2>2, FS_CardinalityType
<1>2. ASSUME NEW S \in SUBSET (1..n), NEW x \in S PROVE Size(n)[S \ {x}] < Size(n)[S]
  <2>1. Cardinality(S \ {x}) = Cardinality(S) - 1
    BY <1>1, FS_RemoveElement
  <2>2. S \ {x} \in SUBSET (1..n)
    OBVIOUS
  <2>3. Cardinality(S) \in Nat
    BY <1>1
  <2> QED
    BY <2>1, <2>2, <2>3 DEF Size
<1> QED
  BY <1>1, <1>2 DEF Size

LEMMA PathsAre ==
    ASSUME NEW m, NEW n, Matrix(m, n), NEW start \in 1..n
    PROVE  /\ Paths(m, start) \in PathsType(n)
           /\ \A S \in SUBSET (1..n), end \in 1..n :
                Paths(m, start)[S][end] = PathOver(m, start, Paths(m, start), S, end)
<1> DEFINE D == SUBSET (1..n)
           V == [1..n -> PathType(n)]
           Row(S, f) == [end \in 1..n |-> PathOver(m, start, f, S, end)]
           G == [S \in D |-> [f \in [D -> V] |-> Row(S, f)]]
           Body(f) == [S \in D |-> Row(S, f)]
           P == Paths(m, start)
<1>0. n \in Nat /\ DOMAIN m = 1..n
  BY MatrixSize
<1>1. \A S \in D, f \in [D -> V] : Row(S, f) \in V
  <2> TAKE S \in D, f \in [D -> V]
  <2>1. \A end \in 1..n : PathOver(m, start, f, S, end) \in PathType(n)
    BY PathOverType
  <2> QED
    BY <2>1
<1>2. Given(D, V, Size(n), G)
  <2>1. Size(n) \in [D -> Nat]
    BY <1>0, Sizes
  <2>2. G \in [D -> [[D -> V] -> V]]
    <3> HIDE DEF V, Row
    <3> QED
      BY <1>1
  <2>3. ASSUME NEW S \in D, NEW f \in [D -> V], NEW g \in [D -> V], Below(Size(n), S, f, g, D)
        PROVE  Row(S, f) = Row(S, g)
    <3> SUFFICES ASSUME NEW end \in 1..n
                 PROVE  PathOver(m, start, f, S, end) = PathOver(m, start, g, S, end)
      OBVIOUS
    <3>1. end \in S => f[S \ {end}] = g[S \ {end}]
      BY <1>0, <2>3, Sizes DEF Below
    <3> QED
      BY <3>1 DEF PathOver
  <2> HIDE DEF D, V, Row
  <2> QED
    BY <2>1, <2>2, <2>3 DEF Given
<1>3. V # {}
  <2>1. [end \in 1..n |-> NoPath] \in V
    BY NoPathType
  <2> QED
    BY <2>1
<1>4. PICK f \in [D -> V] : Solves(f, D, G)
  <2> HIDE DEF D, V, G
  <2> QED
    BY <1>2, <1>3, Recursion
<1>5. f = Body(f)
  <2>1. \A S \in D : f[S] = G[S][f] /\ G[S][f] = Row(S, f)
    BY <1>4 DEF Solves
  <2> HIDE DEF G, Row, D, V
  <2> QED
    BY <2>1
<1>6. P = CHOOSE h : h = Body(h)
  BY <1>0 DEF Paths, PathOver
<1>7. P = Body(P)
  <2> HIDE DEF Body, P
  <2> QED
    BY <1>5, <1>6
<1>8. ASSUME NEW S \in D, NEW end \in 1..n
      PROVE  P[S][end] = PathOver(m, start, P, S, end)
  <2>1. P[S] = Row(S, P)
    <3> HIDE DEF P, Row
    <3> QED
      BY <1>7
  <2>2. Row(S, P)[end] = PathOver(m, start, P, S, end)
    <3> HIDE DEF P
    <3> QED
      OBVIOUS
  <2> QED
    BY <2>1, <2>2
<1>9. DOMAIN P = D /\ P = [S \in D |-> P[S]]
  <2> HIDE DEF P
  <2> QED
    BY <1>7
<1>10. D \subseteq {S \in D : P[S] \in V}
  <2> DEFINE T == {S \in D : P[S] \in V}
  <2>1. ASSUME NEW S \in D, \A U \in D : Size(n)[U] < Size(n)[S] => U \in T
        PROVE  S \in T
    <3>1. ASSUME NEW end \in 1..n, end \in S PROVE P[S \ {end}] \in V
      <4>1. S \ {end} \in D /\ Size(n)[S \ {end}] < Size(n)[S]
        BY <1>0, <3>1, Sizes
      <4> QED
        BY <2>1, <4>1
    <3>2. \A end \in 1..n : PathOver(m, start, P, S, end) \in PathType(n)
      <4> HIDE DEF P
      <4> QED
        BY <3>1, PathOverType
    <3>3. P[S] = Row(S, P)
      <4> HIDE DEF P, Row
      <4> QED
        BY <1>7
    <3>4. P[S] \in V
      <4> HIDE DEF P
      <4> QED
        BY <3>2, <3>3
    <3> QED
      BY <3>4
  <2>2. Inherited(D, Size(n), T)
    <3> HIDE DEF T
    <3> QED
      BY <2>1 DEF Inherited
  <2>3. \A S \in D : Size(n)[S] \in Nat
    BY <1>0, Sizes
  <2> HIDE DEF T, D
  <2>4. D \subseteq T
    BY <2>2, <2>3, Descent
  <2> QED
    BY <2>4 DEF T
<1>11. P \in [D -> V]
  <2> HIDE DEF P, V, D
  <2> QED
    BY <1>9, <1>10
<1> QED
  BY <1>8, <1>11 DEF PathsType

\* A tour: each of the stops S once, from start to end.
Tour(o, k, S, start, end) ==
    /\ k \in Nat \ {0} /\ o \in [1..k -> S]
    /\ \A i, j \in 1..k : o[i] = o[j] => i = j
    /\ \A x \in S : \E i \in 1..k : o[i] = x
    /\ o[1] = start /\ o[k] = end

LEMMA TourIsRoute ==
    ASSUME NEW n, NEW S \in SUBSET (1..n), NEW o, NEW k, NEW start, NEW end,
           Tour(o, k, S, start, end)
    PROVE  /\ Route(o, k, n) /\ start \in S /\ end \in S
           /\ Len(o) = k /\ DOMAIN o = 1..k /\ o \in Seq(S)
<1>1. 1 \in 1..k /\ k \in 1..k
  BY DEF Tour
<1>2. Len(o) = k /\ DOMAIN o = 1..k /\ o \in Seq(S)
  BY Length DEF Tour
<1> QED
  BY <1>1, <1>2 DEF Tour, Route

Shortened(o, k) == [i \in 1..(k - 1) |-> o[i]]

OneStepMore(o, q, k, S, start, end) ==
    /\ Tour(q, k - 1, S \ {end}, start, o[k - 1])
    /\ o = Append(q, end)
    /\ end \in S /\ end # start /\ S # {start}
    /\ k - 1 \in 1..k

LEMMA TourShortened ==
    ASSUME NEW S, NEW o, NEW k, k # 1, NEW start, NEW end, Tour(o, k, S, start, end)
    PROVE  OneStepMore(o, Shortened(o, k), k, S, start, end)
<1> DEFINE q == Shortened(o, k)
<1>1. k \in Nat /\ k > 1 /\ 1 \in 1..k /\ k \in 1..k /\ k - 1 \in 1..k /\ k - 1 \in Nat \ {0}
  BY DEF Tour
<1>2. \A i \in 1..(k - 1) : i \in 1..k /\ i # k /\ q[i] = o[i]
  BY <1>1 DEF Shortened
<1>3. q \in [1..(k - 1) -> S \ {end}]
  <2>1. \A i \in 1..(k - 1) : o[i] \in S \ {end}
    BY <1>1, <1>2 DEF Tour
  <2> QED
    BY <2>1 DEF Shortened
<1> HIDE DEF q
<1>4. \A i, j \in 1..(k - 1) : q[i] = q[j] => i = j
  BY <1>2 DEF Tour
<1>5. ASSUME NEW x \in S \ {end} PROVE \E i \in 1..(k - 1) : q[i] = x
  <2>1. PICK i \in 1..k : o[i] = x
    BY DEF Tour
  <2>2. i # k
    BY <2>1 DEF Tour
  <2>3. i \in 1..(k - 1)
    BY <1>1, <2>2
  <2> QED
    BY <1>2, <2>1, <2>3
<1>6. q[1] = start /\ q[k - 1] = o[k - 1]
  <2>1. 1 \in 1..(k - 1) /\ k - 1 \in 1..(k - 1)
    BY <1>1
  <2> QED
    BY <1>2, <2>1 DEF Tour
<1>7. Tour(q, k - 1, S \ {end}, start, o[k - 1])
  BY <1>1, <1>3, <1>4, <1>5, <1>6 DEF Tour
<1>8. end \in S /\ end # start
  BY <1>1 DEF Tour
<1>9. o = Append(q, end)
  <2>1. Len(q) = k - 1 /\ q \in Seq(S \ {end})
    BY <1>1, <1>3, Length
  <2>2. q \in Seq(S)
    BY <2>1
  <2> DEFINE r == Append(q, end)
  <2>3. r \in Seq(S) /\ Len(r) = k /\ r[k] = end
    BY <1>1, <1>8, <2>1, <2>2, AppendProperties
  <2>4. \A i \in 1..(k - 1) : r[i] = q[i]
    BY <1>8, <2>1, <2>2, AppendProperties
  <2>5. r \in [1..k -> S]
    <3> HIDE DEF r
    <3> QED
      BY <2>3, LenProperties
  <2> HIDE DEF r
  <2>6. \A i \in 1..k : o[i] = r[i]
    <3> TAKE i \in 1..k
    <3>1. i = k \/ i \in 1..(k - 1)
      BY <1>1
    <3>2. o[k] = end
      BY DEF Tour
    <3> QED
      BY <1>2, <2>3, <2>4, <3>1, <3>2
  <2>7. o = r
    BY <2>5, <2>6 DEF Tour
  <2> QED
    BY <2>7 DEF r
<1> QED
  BY <1>1, <1>7, <1>8, <1>9 DEF q, OneStepMore

LEMMA TourAppended ==
    ASSUME NEW S, NEW q, NEW k, NEW start, NEW p, NEW end \in S, Tour(q, k, S \ {end}, start, p)
    PROVE  Tour(Append(q, end), k + 1, S, start, end)
<1> DEFINE o == Append(q, end)
<1>1. k \in Nat \ {0} /\ Len(q) = k /\ q \in Seq(S \ {end})
  BY Length DEF Tour
<1>2. o \in [1..(k + 1) -> S] /\ o[k + 1] = end /\ \A i \in 1..k : o[i] = q[i]
  <2>1. q \in Seq(S)
    BY <1>1
  <2>2. o \in Seq(S) /\ Len(o) = k + 1 /\ o[Len(q) + 1] = end
    BY <1>1, <2>1, AppendProperties
  <2>3. \A i \in 1..Len(q) : o[i] = q[i]
    BY <2>1, AppendProperties
  <2>4. o \in [1..Len(o) -> S]
    <3> HIDE DEF o
    <3> QED
      BY <2>2, LenProperties
  <2> QED
    BY <1>1, <2>2, <2>3, <2>4
<1> HIDE DEF o
<1>3. \A i \in 1..k : q[i] \in S /\ q[i] # end
  BY DEF Tour
<1>4. \A i \in 1..(k + 1) : i \in 1..k \/ i = k + 1
  BY <1>1
<1>5. \A i, j \in 1..(k + 1) : o[i] = o[j] => i = j
  BY <1>2, <1>3, <1>4 DEF Tour
<1>6. ASSUME NEW x \in S PROVE \E i \in 1..(k + 1) : o[i] = x
  <2>1. CASE x = end
    BY <1>1, <1>2, <2>1
  <2>2. CASE x # end
    <3>1. PICK i \in 1..k : q[i] = x
      BY <2>2 DEF Tour
    <3> QED
      BY <1>1, <1>2, <3>1
  <2> QED
    BY <2>1, <2>2
<1>7. o[1] = start
  BY <1>1, <1>2 DEF Tour
<1>8. k + 1 \in Nat \ {0}
  BY <1>1
<1>9. Tour(o, k + 1, S, start, end)
  BY <1>2, <1>5, <1>6, <1>7, <1>8 DEF Tour
<1> QED
  BY <1>9 DEF o

LEMMA CostOfOne ==
    ASSUME NEW m, NEW n, Matrix(m, n), NEW o, Route(o, 1, n)
    PROVE  pathCost(m, o) = 0
BY CostSums DEF Sums

\* What heldKarp's table has is a tour with its cost...
Found(m, p, S, start, end) ==
    \E k \in Nat \ {0} : Tour(p.order, k, S, start, end) /\ p.cost = pathCost(m, p.order)

LEMMA PathsFindTours ==
    ASSUME NEW m, NEW n, Matrix(m, n), NEW start \in 1..n
    PROVE  \A S \in SUBSET (1..n), end \in 1..n :
             Paths(m, start)[S][end] # NoPath => Found(m, Paths(m, start)[S][end], S, start, end)
<1> DEFINE P == Paths(m, start)
           D == SUBSET (1..n)
           T == {S \in D : \A end \in 1..n :
                             P[S][end] # NoPath => Found(m, P[S][end], S, start, end)}
<1>0. n \in Nat /\ P \in [D -> [1..n -> PathType(n)]]
  BY MatrixSize, PathsAre DEF PathsType
<1>1. ASSUME NEW S \in D, \A U \in D : Size(n)[U] < Size(n)[S] => U \in T,
             NEW end \in 1..n, P[S][end] # NoPath
      PROVE  Found(m, P[S][end], S, start, end)
  <2>1. P[S][end] = PathOver(m, start, P, S, end)
    BY PathsAre
  <2>2. start \in S /\ end \in S
    BY <1>1, <2>1 DEF PathOver
  <2>3. CASE S = {start}
    <3>1. P[S][end] = [cost |-> 0, order |-> <<start>>] /\ end = start
      BY <2>1, <2>2, <2>3 DEF PathOver
    <3>2. Tour(<<start>>, 1, S, start, end)
      BY <2>3, <3>1 DEF Tour
    <3>3. pathCost(m, <<start>>) = 0
      BY <3>2, TourIsRoute, CostOfOne
    <3> QED
      BY <3>1, <3>2, <3>3 DEF Found
  <2>4. CASE S # {start}
    <3>1. P[S][end] = Extended(m, P[S \ {end}], end)
      BY <1>1, <2>1, <2>2, <2>4 DEF PathOver
    <3>2. S \ {end} \in D /\ S \ {end} \in T
      BY <1>0, <1>1, <2>2, Sizes
    <3> HIDE DEF P
    <3>3. P[S \ {end}] \in [1..n -> PathType(n)]
      BY <1>0, <3>2
    <3>4. ~NoneBefore(n, P[S \ {end}])
      BY <1>1, <3>1, <3>3, ExtendedIs
    <3>5. PICK b \in 1..n : BestStep(m, n, P[S \ {end}], end, b)
      BY <3>3, <3>4, ExtendedIs
    <3>6. Found(m, P[S \ {end}][b], S \ {end}, start, b)
      BY <3>2, <3>5 DEF BestStep
    <3> DEFINE q == P[S \ {end}][b]
    <3>7. PICK k \in Nat \ {0} : Tour(q.order, k, S \ {end}, start, b) /\ q.cost = pathCost(m, q.order)
      BY <3>6 DEF Found
    <3>8. Tour(Append(q.order, end), k + 1, S, start, end)
      BY <2>2, <3>7, TourAppended
    <3>9. pathCost(m, Append(q.order, end)) = q.cost + m[b][end]
      <4>1. Route(q.order, k, n)
        <5>1. S \ {end} \in SUBSET (1..n)
          OBVIOUS
        <5> HIDE DEF q
        <5> QED
          BY <3>7, <5>1, TourIsRoute
      <4>2. q.order[k] = b
        BY <3>7 DEF Tour
      <4> HIDE DEF q
      <4> QED
        BY <3>7, <4>1, <4>2, CostOfAppend
    <3>10. P[S][end] = [cost |-> q.cost + m[b][end], order |-> Append(q.order, end)]
      BY <3>1, <3>5 DEF BestStep
    <3> HIDE DEF q
    <3>11. k + 1 \in Nat \ {0}
      BY <3>7
    <3> QED
      BY <3>8, <3>9, <3>10, <3>11 DEF Found
  <2> QED
    BY <2>3, <2>4
<1>2. Inherited(D, Size(n), T)
  BY <1>1 DEF Inherited
<1>3. \A S \in D : Size(n)[S] \in Nat
  BY <1>0, Sizes
<1>4. D \subseteq T
  <2> HIDE DEF D, T
  <2> QED
    BY <1>2, <1>3, Descent
<1> QED
  BY <1>4

\* ... and none costs less.
LEMMA PathsAreLeast ==
    ASSUME NEW m, NEW n, Matrix(m, n), NEW start \in 1..n
    PROVE  \A S \in SUBSET (1..n) : \A end \in 1..n : \A o, k :
             Tour(o, k, S, start, end) =>
               /\ Paths(m, start)[S][end] # NoPath
               /\ Paths(m, start)[S][end].cost <= pathCost(m, o)
<1> DEFINE P == Paths(m, start)
           D == SUBSET (1..n)
           Least(S, end, o) == P[S][end] # NoPath /\ P[S][end].cost <= pathCost(m, o)
           T == {S \in D : \A end \in 1..n : \A o, k :
                             Tour(o, k, S, start, end) => Least(S, end, o)}
<1>0. n \in Nat /\ P \in [D -> [1..n -> PathType(n)]]
  BY MatrixSize, PathsAre DEF PathsType
<1>1. ASSUME NEW S \in D, \A U \in D : Size(n)[U] < Size(n)[S] => U \in T,
             NEW end \in 1..n, NEW o, NEW k, Tour(o, k, S, start, end)
      PROVE  Least(S, end, o)
  <2>1. P[S][end] = PathOver(m, start, P, S, end)
    BY PathsAre
  <2>2. start \in S /\ end \in S /\ Route(o, k, n)
    BY <1>1, TourIsRoute
  <2>3. CASE k = 1
    <3>0. o[1] = start /\ end = start /\ \A x \in S : \E i \in 1..1 : o[i] = x
      BY <1>1, <2>3 DEF Tour
    <3>1. S = {start} /\ end = start
      <4>1. \A x \in S : x = start
        <5> TAKE x \in S
        <5>1. PICK i \in 1..1 : o[i] = x
          BY <3>0
        <5>2. i = 1
          OBVIOUS
        <5> QED
          BY <3>0, <5>1, <5>2
      <4> QED
        BY <2>2, <3>0, <4>1
    <3>2. P[S][end] = [cost |-> 0, order |-> <<start>>]
      BY <2>1, <3>1 DEF PathOver
    <3>3. P[S][end] # NoPath
      <4>1. <<start>> # <<>>
        OBVIOUS
      <4> QED
        BY <3>2, <4>1 DEF NoPath
    <3>4. pathCost(m, o) = 0
      BY <2>2, <2>3, CostOfOne
    <3> QED
      BY <3>2, <3>3, <3>4
  <2>4. CASE k # 1
    <3> DEFINE q == Shortened(o, k)
               b == o[k - 1]
    <3>1. /\ Tour(q, k - 1, S \ {end}, start, b) /\ o = Append(q, end)
          /\ end # start /\ S # {start} /\ k - 1 \in 1..k
      <4>1. Tour(o, k, S, start, end)
        BY <1>1
      <4> HIDE DEF P, D, T, Least
      <4>2. OneStepMore(o, Shortened(o, k), k, S, start, end)
        BY <2>4, <4>1, TourShortened
      <4> QED
        BY <4>2 DEF OneStepMore
    <3>2. P[S][end] = Extended(m, P[S \ {end}], end)
      BY <2>1, <2>2, <3>1 DEF PathOver
    <3>3. S \ {end} \in D /\ S \ {end} \in T
      BY <1>0, <1>1, <2>2, Sizes
    <3> HIDE DEF P, q, b
    <3>4. P[S \ {end}] \in [1..n -> PathType(n)]
      BY <1>0, <3>3
    <3>5. b \in 1..n
      BY <2>2, <3>1 DEF Route, b
    <3>6. P[S \ {end}][b] # NoPath /\ P[S \ {end}][b].cost <= pathCost(m, q)
      BY <3>1, <3>3, <3>5
    <3>7. ~NoneBefore(n, P[S \ {end}])
      BY <3>5, <3>6 DEF NoneBefore
    <3>8. PICK a \in 1..n : BestStep(m, n, P[S \ {end}], end, a)
      BY <3>4, <3>7, ExtendedIs
    <3>9. Route(q, k - 1, n) /\ q[k - 1] = b
      <4>1. S \ {end} \in SUBSET (1..n)
        OBVIOUS
      <4>2. q[k - 1] = b
        BY <3>1 DEF Tour
      <4> QED
        BY <3>1, <4>1, <4>2, TourIsRoute
    <3>10. pathCost(m, o) = pathCost(m, q) + m[b][end]
      BY <3>1, <3>9, CostOfAppend
    <3> DEFINE x == P[S \ {end}][a]
               y == P[S \ {end}][b]
    <3>11. /\ P[S][end] = [cost |-> x.cost + m[a][end], order |-> Append(x.order, end)]
           /\ x.cost + m[a][end] <= y.cost + m[b][end]
      BY <3>2, <3>5, <3>6, <3>8 DEF BestStep
    <3>12. P[S][end] # NoPath
      <4>1. x.order \in Seq(1..n)
        BY <3>4 DEF PathType
      <4>2. Append(x.order, end) # <<>>
        <5> HIDE DEF x
        <5> QED
          BY <4>1, AppendProperties
      <4> HIDE DEF x, y
      <4> QED
        BY <3>11, <4>2 DEF NoPath
    <3>13. x.cost \in Nat /\ y.cost \in Nat /\ m[a][end] \in Nat /\ m[b][end] \in Nat
      BY <3>4, <3>5, MatrixSize DEF PathType
    <3>14. pathCost(m, q) \in Nat
      BY <3>9, CostIsNatural
    <3>15. P[S][end].cost = x.cost + m[a][end] /\ y.cost <= pathCost(m, q)
      BY <3>6, <3>11
    <3> HIDE DEF x, y
    <3>16. x.cost + m[a][end] <= pathCost(m, q) + m[b][end]
      <4>1. \A i, j, g, h, c \in Nat : i + j <= g + h /\ g <= c => i + j <= c + h
        OBVIOUS
      <4> QED
        BY <3>11, <3>13, <3>14, <3>15, <4>1
    <3>17. P[S][end].cost <= pathCost(m, o)
      BY <3>10, <3>15, <3>16
    <3> QED
      BY <3>12, <3>17
  <2> QED
    BY <2>3, <2>4
<1>2. Inherited(D, Size(n), T)
  <2> HIDE DEF Least
  <2> QED
    BY <1>1 DEF Inherited
<1>3. \A S \in D : Size(n)[S] \in Nat
  BY <1>0, Sizes
<1>4. D \subseteq T
  <2> HIDE DEF D, T
  <2> QED
    BY <1>2, <1>3, Descent
<1> QED
  BY <1>4


----------------------------------------------------------------------------
\* Tours of all stops.

Perm(o, n) == o \in [1..n -> 1..n] /\ \A i, j \in 1..n : o[i] = o[j] => i = j

LEMMA NoInjectionDown ==
    ASSUME NEW a \in Nat, NEW b \in Nat, NEW f \in [1..a -> 1..b],
           \A i, j \in 1..a : f[i] = f[j] => i = j
    PROVE  a <= b
<1> SUFFICES ASSUME b < a PROVE FALSE
  OBVIOUS
<1>1. IsFiniteSet(1..a) /\ IsFiniteSet(1..b) /\ Cardinality(1..a) = a /\ Cardinality(1..b) = b
  BY FS_Interval
<1>2. \E x, y \in 1..a : x # y /\ f[x] = f[y]
  BY <1>1, FS_PigeonHole
<1> QED
  BY <1>2

LEMMA PermIsOnto ==
    ASSUME NEW n \in Nat, NEW o, Perm(o, n), NEW x \in 1..n
    PROVE  \E i \in 1..n : o[i] = x
<1> SUFFICES ASSUME \A i \in 1..n : o[i] # x PROVE FALSE
  OBVIOUS
<1>1. IsFiniteSet(1..n) /\ Cardinality(1..n) = n
  BY FS_Interval
<1>2. IsFiniteSet((1..n) \ {x}) /\ Cardinality((1..n) \ {x}) = n - 1
  BY <1>1, FS_RemoveElement
<1>3. o \in [1..n -> (1..n) \ {x}]
  BY DEF Perm
<1>4. Cardinality((1..n) \ {x}) < Cardinality(1..n)
  BY <1>1, <1>2
<1>5. \E i, j \in 1..n : i # j /\ o[i] = o[j]
  BY <1>1, <1>2, <1>3, <1>4, FS_PigeonHole
<1> QED
  BY <1>5 DEF Perm

LEMMA PermIsTour ==
    ASSUME NEW n \in Nat \ {0}, NEW o, Perm(o, n)
    PROVE  Tour(o, n, 1..n, o[1], o[n])
<1>1. \A x \in 1..n : \E i \in 1..n : o[i] = x
  BY PermIsOnto
<1> QED
  BY <1>1 DEF Perm, Tour

LEMMA TourOfAll ==
    ASSUME NEW n \in Nat, NEW o, NEW k, NEW start, NEW end, Tour(o, k, 1..n, start, end)
    PROVE  k = n /\ Perm(o, n)
<1>1. k \in Nat /\ o \in [1..k -> 1..n]
  BY DEF Tour
<1>2. k <= n
  BY <1>1, NoInjectionDown DEF Tour
<1> DEFINE place == [x \in 1..n |-> CHOOSE i \in 1..k : o[i] = x]
<1>3. \A x \in 1..n : place[x] \in 1..k /\ o[place[x]] = x
  BY DEF Tour
<1>4. place \in [1..n -> 1..k] /\ \A x, y \in 1..n : place[x] = place[y] => x = y
  <2>1. place = [x \in 1..n |-> place[x]]
    OBVIOUS
  <2> HIDE DEF place
  <2> QED
    BY <1>3, <2>1
<1> HIDE DEF place
<1>5. n <= k
  BY <1>1, <1>4, NoInjectionDown
<1>6. k = n
  BY <1>1, <1>2, <1>5
<1> QED
  BY <1>6 DEF Tour, Perm

Swapped(o, n, i, j) ==
    [k \in 1..n |-> IF k = i THEN o[j] ELSE IF k = j THEN o[i] ELSE o[k]]

LEMMA PermSwapped ==
    ASSUME NEW n \in Nat, NEW o, Perm(o, n), NEW i \in 1..n, NEW j \in 1..n
    PROVE  Perm(Swapped(o, n, i, j), n)
<1> DEFINE p == Swapped(o, n, i, j)
<1>1. p \in [1..n -> 1..n]
  BY DEF Swapped, Perm
<1>2. ASSUME NEW a \in 1..n, NEW b \in 1..n, p[a] = p[b] PROVE a = b
  BY <1>2 DEF Swapped, Perm
<1> QED
  BY <1>1, <1>2 DEF Perm

\* From any stop there is a tour of all to any other.
LEMMA SomePerm ==
    ASSUME NEW n \in Nat, NEW start \in 1..n, NEW end \in 1..n, start # end
    PROVE  \E o : Perm(o, n) /\ o[1] = start /\ o[n] = end
<1> DEFINE id == [i \in 1..n |-> i]
           p == Swapped(id, n, 1, start)
<1>1. 1 \in 1..n /\ n \in 1..n
  OBVIOUS
<1>2. Perm(id, n)
  BY DEF Perm
<1>3. Perm(p, n)
  <2> HIDE DEF id
  <2> QED
    BY <1>1, <1>2, PermSwapped
<1>4. p[1] = start
  BY <1>1 DEF Swapped
<1> HIDE DEF p
<1>5. PICK j \in 1..n : p[j] = end
  BY <1>3, PermIsOnto
<1> DEFINE o == Swapped(p, n, j, n)
<1>6. Perm(o, n)
  BY <1>1, <1>3, PermSwapped
<1>7. j # 1 /\ n # 1
  BY <1>4, <1>5
<1>8. o[1] = start /\ o[n] = end
  BY <1>1, <1>4, <1>5, <1>7 DEF Swapped
<1> QED
  BY <1>6, <1>8

----------------------------------------------------------------------------
\* heldKarp answers with a shortest tour.

KeepsTo(o, n, start, fixedEnd) ==
    Perm(o, n) /\ o[1] = start /\ (fixedEnd # None => o[n] = fixedEnd)

ShortestTour(m, n, o, start, fixedEnd) ==
    /\ KeepsTo(o, n, start, fixedEnd)
    /\ \A p : KeepsTo(p, n, start, fixedEnd) => pathCost(m, o) <= pathCost(m, p)

LEMMA heldKarpIsExact ==
    ASSUME NEW m, NEW n, Matrix(m, n), n \notin {1, 2}, NEW start \in 1..n,
           NEW fixedEnd \in {None} \cup ((1..n) \ {start})
    PROVE  /\ ShortestTour(m, n, heldKarp(m, start, fixedEnd).order, start, fixedEnd)
           /\ heldKarp(m, start, fixedEnd).cost =
                pathCost(m, heldKarp(m, start, fixedEnd).order)
<1> DEFINE best == Paths(m, start)[1..n]
           ends == IF fixedEnd # None THEN {fixedEnd} ELSE (1..n) \ {start}
           reached == {e \in ends : best[e] # NoPath}
           cost == [e \in reached |-> best[e].cost]
           first == FirstBest(reached, cost)
<1>1. n \in Nat /\ Len(m) = n
  BY MatrixSize
<1>2. heldKarp(m, start, fixedEnd) = IF reached = {} THEN [cost |-> m[1][n], order |-> Identity(n)]
                                     ELSE best[first]
  BY <1>1 DEF heldKarp
<1>3. best \in [1..n -> PathType(n)]
  <2>1. 1..n \in SUBSET (1..n)
    OBVIOUS
  <2>2. Paths(m, start) \in [SUBSET (1..n) -> [1..n -> PathType(n)]]
    BY PathsAre DEF PathsType
  <2> QED
    BY <2>1, <2>2
<1>4. \A e \in 1..n : best[e] # NoPath => Found(m, best[e], 1..n, start, e)
  BY PathsFindTours
<1>5. ASSUME NEW e \in 1..n, NEW o, Perm(o, n), o[1] = start, o[n] = e
      PROVE  best[e] # NoPath /\ best[e].cost <= pathCost(m, o)
  <2>1. Tour(o, n, 1..n, start, e)
    BY <1>5, PermIsTour, MatrixSize
  <2>2. 1..n \in SUBSET (1..n)
    OBVIOUS
  <2> QED
    BY <2>1, <2>2, PathsAreLeast
<1>6. ends \subseteq (1..n) \ {start} /\ ends # {}
  <2>1. CASE fixedEnd = None
    <3>1. \E e \in 1..n : e # start
      <4>1. 1 \in 1..n /\ 2 \in 1..n
        BY <1>1
      <4> QED
        BY <4>1
    <3> QED
      BY <2>1, <3>1
  <2>2. CASE fixedEnd # None
    BY <2>2
  <2> QED
    BY <2>1, <2>2
<1>7. ASSUME NEW o, KeepsTo(o, n, start, fixedEnd) PROVE o[n] \in ends
  <2>1. o[n] \in 1..n /\ o[n] # start
    <3>1. 1 \in 1..n /\ n \in 1..n /\ n # 1
      BY <1>1
    <3> QED
      BY <1>7, <3>1 DEF KeepsTo, Perm
  <2> QED
    BY <1>7, <2>1 DEF KeepsTo
<1> HIDE DEF best, ends
<1>8. reached # {}
  <2>1. PICK e \in ends : TRUE
    BY <1>6
  <2>2. e \in 1..n /\ e # start
    BY <1>6
  <2>3. PICK o : Perm(o, n) /\ o[1] = start /\ o[n] = e
    BY <1>1, <2>2, SomePerm
  <2>4. best[e] # NoPath
    BY <1>5, <2>2, <2>3
  <2> QED
    BY <2>4
<1>9. \A e \in reached : cost[e] \in Nat /\ cost[e] = best[e].cost
  BY <1>3, <1>6 DEF PathType
<1>10. first \in reached /\ \A e \in reached : cost[first] <= cost[e]
  <2>1. reached \subseteq Nat
    <3>1. \A e \in (1..n) \ {start} : e \in Nat
      BY <1>1
    <3> QED
      BY <1>6, <3>1
  <2> HIDE DEF reached, cost
  <2> QED
    BY <1>8, <1>9, <2>1, FirstBestIsLeast
<1> HIDE DEF first
<1>11. first \in 1..n /\ first \in ends /\ best[first] # NoPath
  BY <1>6, <1>10
<1> DEFINE h == best[first]
<1>12. PICK k \in Nat \ {0} : Tour(h.order, k, 1..n, start, first) /\ h.cost = pathCost(m, h.order)
  BY <1>4, <1>11 DEF Found
<1>13. Perm(h.order, n) /\ h.order[1] = start /\ h.order[n] = first
  <2>1. k = n /\ Perm(h.order, n)
    <3> HIDE DEF h
    <3> QED
      BY <1>1, <1>12, TourOfAll
  <2> QED
    BY <1>12, <2>1 DEF Tour
<1>14. KeepsTo(h.order, n, start, fixedEnd)
  <2>1. fixedEnd # None => first = fixedEnd
    BY <1>11 DEF ends
  <2> HIDE DEF h
  <2> QED
    BY <1>13, <2>1 DEF KeepsTo
<1>15. ASSUME NEW p, KeepsTo(p, n, start, fixedEnd) PROVE pathCost(m, h.order) <= pathCost(m, p)
  <2> DEFINE e == p[n]
  <2>1. e \in ends /\ e \in 1..n
    BY <1>6, <1>7, <1>15
  <2>2. best[e] # NoPath /\ best[e].cost <= pathCost(m, p)
    BY <1>5, <1>15, <2>1 DEF KeepsTo
  <2> HIDE DEF e
  <2>3. e \in reached
    BY <2>1, <2>2
  <2>4. h.cost <= best[e].cost /\ h.cost \in Nat /\ best[e].cost \in Nat
    BY <1>9, <1>10, <2>3
  <2>5. pathCost(m, p) \in Nat
    <3>1. Route(p, n, n)
      BY <1>15, MatrixSize DEF KeepsTo, Perm, Route
    <3> QED
      BY <3>1, CostIsNatural
  <2> HIDE DEF h
  <2> QED
    BY <1>12, <2>2, <2>4, <2>5
<1>16. heldKarp(m, start, fixedEnd) = h
  BY <1>2, <1>8
<1> HIDE DEF h
<1> QED
  BY <1>12, <1>14, <1>15, <1>16 DEF ShortestTour


----------------------------------------------------------------------------
\* The turned tour.

LEMMA ReverseMatrixIs ==
    ASSUME NEW m, NEW n, Matrix(m, n)
    PROVE  Matrix(reverseMatrix(m), n) /\ \A i, j \in 1..n : reverseMatrix(m)[i][j] = m[j][i]
<1>1. DOMAIN m = 1..n /\ n \in Nat \ {0} /\ \A i, j \in 1..n : m[i][j] \in Nat
  BY MatrixSize
<1>2. reverseMatrix(m) = [i \in 1..n |-> [j \in 1..n |-> m[j][i]]]
  BY <1>1 DEF reverseMatrix
<1> QED
  BY <1>1, <1>2 DEF Matrix

Turned(o, k) == [i \in 1..k |-> o[k + 1 - i]]

LEMMA ReverseIsTurned ==
    ASSUME NEW o, NEW k \in Nat, Len(o) = k
    PROVE  Reverse(o) = Turned(o, k)
<1>1. \A i \in 1..k : (k - i) + 1 = k + 1 - i
  OBVIOUS
<1> QED
  BY <1>1 DEF Reverse, Turned

LEMMA TurnedRoute ==
    ASSUME NEW o, NEW k, NEW n, Route(o, k, n)
    PROVE  Route(Turned(o, k), k, n) /\ Turned(Turned(o, k), k) = o
<1>1. k \in Nat \ {0} /\ \A i \in 1..k : k + 1 - i \in 1..k /\ k + 1 - (k + 1 - i) = i
  BY DEF Route
<1>2. Route(Turned(o, k), k, n)
  BY <1>1 DEF Turned, Route
<1> DEFINE p == Turned(o, k)
<1>3. \A i \in 1..k : p[i] = o[k + 1 - i]
  BY DEF Turned
<1>4. \A i \in 1..k : p[k + 1 - i] = o[i]
  <2> HIDE DEF p
  <2> TAKE i \in 1..k
  <2>1. k + 1 - i \in 1..k
    BY <1>1
  <2>2. p[k + 1 - i] = o[k + 1 - (k + 1 - i)]
    BY <1>3, <2>1
  <2> QED
    BY <1>1, <2>2
<1>5. o = [i \in 1..k |-> o[i]]
  BY DEF Route
<1>6. Turned(p, k) = [i \in 1..k |-> p[k + 1 - i]]
  BY DEF Turned
<1> HIDE DEF p
<1>7. Turned(p, k) = o
  BY <1>4, <1>5, <1>6
<1> QED
  BY <1>2, <1>7 DEF p

LEMMA CostTurned ==
    ASSUME NEW m, NEW n, Matrix(m, n), NEW o, NEW k, Route(o, k, n)
    PROVE  pathCost(reverseMatrix(m), Turned(o, k)) = pathCost(m, o)
<1> DEFINE w == reverseMatrix(m)
           p == Turned(o, k)
<1>1. k \in Nat \ {0} /\ Route(p, k, n) /\ Matrix(w, n)
  BY TurnedRoute, ReverseMatrixIs DEF Route
<1>2. \A i, j \in 1..n : w[i][j] = m[j][i]
  BY ReverseMatrixIs
<1>3. \A i \in 1..k : p[i] = o[k + 1 - i] /\ o[i] \in 1..n
  BY DEF Turned, Route
<1> HIDE DEF w, p
<1>4. PICK c : Sums(c, m, o, k) /\ pathCost(m, o) = c[k]
  BY CostSums
<1>5. PICK d : Sums(d, w, p, k) /\ pathCost(w, p) = d[k]
  BY <1>1, CostSums
<1> DEFINE T == {i \in 1..k : d[i] = c[k] - c[k + 1 - i]}
<1>6. 1 \in T
  <2>1. k + 1 - 1 = k /\ 1 \in 1..k /\ k \in 1..k
    BY <1>1
  <2>2. c[k] \in Nat /\ d[1] = 0
    BY <1>4, <1>5, <2>1 DEF Sums
  <2> QED
    BY <2>1, <2>2
<1>7. ASSUME NEW i \in 2..k, i - 1 \in T PROVE i \in T
  <2>1. i \in 1..k /\ i - 1 \in 1..k
    BY <1>1
  <2>2. PICK j \in 2..k : j = k + 2 - i
    BY <1>1
  <2>3. j \in 1..k /\ j - 1 \in 1..k /\ k + 1 - (i - 1) = j /\ k + 1 - i = j - 1 /\ k \in 1..k
    BY <1>1, <2>2
  <2>4. c[j] = c[j - 1] + m[o[j - 1]][o[j]] /\ c[j] \in Nat /\ c[j - 1] \in Nat /\ c[k] \in Nat
    BY <1>4, <2>3 DEF Sums
  <2>5. d[i] = d[i - 1] + w[p[i - 1]][p[i]] /\ d[i - 1] \in Nat
    BY <1>5, <2>1 DEF Sums
  <2>6. p[i - 1] = o[j] /\ p[i] = o[j - 1] /\ o[j] \in 1..n /\ o[j - 1] \in 1..n
    BY <1>3, <2>1, <2>3
  <2>7. w[p[i - 1]][p[i]] = m[o[j - 1]][o[j]] /\ m[o[j - 1]][o[j]] \in Nat
    BY <1>2, <2>6, MatrixSize
  <2>8. d[i - 1] = c[k] - c[j]
    BY <1>7, <2>3
  <2> DEFINE x == m[o[j - 1]][o[j]]
  <2>9. d[i] = d[i - 1] + x /\ c[j] = c[j - 1] + x /\ x \in Nat
    BY <2>4, <2>5, <2>7
  <2> HIDE DEF x
  <2>10. d[i] = c[k] - c[j - 1]
    BY <2>4, <2>5, <2>8, <2>9
  <2> QED
    BY <2>1, <2>3, <2>10
<1> HIDE DEF T
<1>8. 1..k \subseteq T
  <2>1. 1 \in Int /\ k \in Int /\ \A i \in (1 + 1)..k : i \in 2..k
    BY <1>1
  <2> QED
    BY <1>6, <1>7, <2>1, Upwards
<1>9. d[k] = c[k] - c[1] /\ c[1] = 0 /\ c[k] \in Nat
  <2>1. k \in T /\ k \in 1..k /\ k + 1 - k = 1
    BY <1>1, <1>8
  <2> QED
    BY <1>4, <2>1 DEF Sums, T
<1>10. d[k] = c[k]
  BY <1>9
<1> QED
  BY <1>4, <1>5, <1>10 DEF w, p

LEMMA TurnedPerm ==
    ASSUME NEW n \in Nat \ {0}, NEW o, Perm(o, n)
    PROVE  /\ Perm(Turned(o, n), n)
           /\ Turned(o, n)[1] = o[n] /\ Turned(o, n)[n] = o[1]
<1>1. \A i \in 1..n : n + 1 - i \in 1..n /\ Turned(o, n)[i] = o[n + 1 - i]
  BY DEF Turned
<1>2. Turned(o, n) \in [1..n -> 1..n]
  BY <1>1 DEF Turned, Perm
<1>3. ASSUME NEW i \in 1..n, NEW j \in 1..n, Turned(o, n)[i] = Turned(o, n)[j] PROVE i = j
  <2>1. o[n + 1 - i] = o[n + 1 - j]
    BY <1>1, <1>3
  <2>2. n + 1 - i = n + 1 - j
    BY <1>1, <2>1 DEF Perm
  <2> QED
    BY <2>2
<1>4. 1 \in 1..n /\ n \in 1..n /\ n + 1 - 1 = n /\ n + 1 - n = 1
  OBVIOUS
<1> QED
  BY <1>1, <1>2, <1>3, <1>4 DEF Perm

----------------------------------------------------------------------------
\* solveOrder up to the limit: a shortest of the tours that are wanted.

Wanted(o, n, fixedStart, fixedEnd) ==
    /\ Perm(o, n)
    /\ fixedStart \/ ~fixedEnd => o[1] = 1
    /\ fixedEnd => o[n] = n

LEMMA solveOrderIsExact ==
    ASSUME NEW m, NEW n, Matrix(m, n), n \notin {1, 2}, NEW limit \in Int, n <= limit,
           NEW fixedStart \in BOOLEAN, NEW fixedEnd \in BOOLEAN
    PROVE  LET o == solveOrder(m, fixedStart, fixedEnd, limit)
           IN  /\ Wanted(o, n, fixedStart, fixedEnd)
               /\ \A p : Wanted(p, n, fixedStart, fixedEnd) => pathCost(m, o) <= pathCost(m, p)
<1> DEFINE end == IF fixedEnd THEN n ELSE None
           o == solveOrder(m, fixedStart, fixedEnd, limit)
<1>1. n \in Nat \ {0} /\ Len(m) = n /\ ~(n > limit) /\ 1 \in 1..n /\ n \in 1..n /\ n # 1
  BY MatrixSize
<1>2. n # None
  BY <1>1 DEF None
<1>3. CASE fixedEnd /\ ~fixedStart
  <2> DEFINE w == reverseMatrix(m)
             h == heldKarp(w, n, None).order
  <2>1. o = Reverse(h)
    BY <1>1, <1>3 DEF solveOrder, reverseOrder
  <2>2. Matrix(w, n)
    BY ReverseMatrixIs
  <2>3. ShortestTour(w, n, h, n, None)
    <3> HIDE DEF w
    <3> QED
      BY <1>1, <2>2, heldKarpIsExact
  <2> HIDE DEF w, h
  <2>4. Perm(h, n) /\ h[1] = n
    BY <2>3 DEF ShortestTour, KeepsTo
  <2>5. Route(h, n, n) /\ Len(h) = n
    BY <1>1, <2>4, RouteSize DEF Route, Perm
  <2>6. o = Turned(h, n)
    BY <1>1, <2>1, <2>5, ReverseIsTurned
  <2>7. Perm(o, n) /\ o[n] = n
    <3> HIDE DEF o
    <3> QED
      BY <1>1, <2>4, <2>6, TurnedPerm
  <2>8. ASSUME NEW p, Perm(p, n), p[n] = n PROVE pathCost(m, o) <= pathCost(m, p)
    <3>1. KeepsTo(Turned(p, n), n, n, None)
      BY <1>1, <2>8, TurnedPerm DEF KeepsTo
    <3>2. pathCost(w, h) <= pathCost(w, Turned(p, n))
      BY <2>3, <3>1 DEF ShortestTour
    <3>3. Route(p, n, n)
      BY <1>1, <2>8 DEF Route, Perm
    <3>4. pathCost(w, Turned(p, n)) = pathCost(m, p)
      BY <3>3, CostTurned DEF w
    <3>5. Route(o, n, n) /\ h = Turned(o, n)
      <4> HIDE DEF o
      <4> QED
        BY <2>5, <2>6, TurnedRoute
    <3>6. pathCost(w, h) = pathCost(m, o)
      <4> HIDE DEF o
      <4> QED
        BY <3>5, CostTurned DEF w
    <3> HIDE DEF o
    <3> QED
      BY <3>2, <3>4, <3>6
  <2> HIDE DEF o
  <2>9. Wanted(o, n, fixedStart, fixedEnd)
    BY <1>3, <2>7 DEF Wanted
  <2>10. \A p : Wanted(p, n, fixedStart, fixedEnd) => pathCost(m, o) <= pathCost(m, p)
    BY <1>3, <2>8 DEF Wanted
  <2> QED
    BY <2>9, <2>10 DEF o
<1>4. CASE ~(fixedEnd /\ ~fixedStart)
  <2>1. o = heldKarp(m, 1, end).order
    BY <1>1, <1>4 DEF solveOrder
  <2>2. end \in {None} \cup ((1..n) \ {1})
    BY <1>1
  <2>3. ShortestTour(m, n, o, 1, end)
    <3> HIDE DEF end
    <3> QED
      BY <1>1, <2>1, <2>2, heldKarpIsExact
  <2>4. ASSUME NEW p PROVE Wanted(p, n, fixedStart, fixedEnd) <=> KeepsTo(p, n, 1, end)
    BY <1>2, <1>4 DEF Wanted, KeepsTo
  <2> HIDE DEF o, end
  <2>5. Wanted(o, n, fixedStart, fixedEnd)
    BY <2>3, <2>4 DEF ShortestTour
  <2>6. \A p : Wanted(p, n, fixedStart, fixedEnd) => pathCost(m, o) <= pathCost(m, p)
    BY <2>3, <2>4 DEF ShortestTour
  <2> QED
    BY <2>5, <2>6 DEF o
<1> QED
  BY <1>3, <1>4


----------------------------------------------------------------------------
\* nearestNeighbor: there is a stop left for every place.

OneMore(o, p, x, k, S) ==
    /\ o \in [1..(k + 1) -> S] /\ o[k + 1] = x
    /\ \A i \in 1..k : o[i] = p[i]

LEMMA Appended ==
    ASSUME NEW S, NEW k \in Nat \ {0}, NEW p \in [1..k -> S], NEW x \in S
    PROVE  OneMore(Append(p, x), p, x, k, S)
<1> DEFINE o == Append(p, x)
<1>1. Len(p) = k /\ p \in Seq(S)
  BY Length
<1>2. o \in Seq(S) /\ Len(o) = k + 1 /\ o[k + 1] = x
  BY <1>1, AppendProperties
<1>3. \A i \in 1..k : o[i] = p[i]
  BY <1>1, AppendProperties
<1>4. o \in [1..(k + 1) -> S]
  <2> HIDE DEF o
  <2> QED
    BY <1>2, LenProperties
<1> QED
  BY <1>2, <1>3, <1>4 DEF OneMore

\* The first i places of a tour from start, without the stops in reserved.
Begun(n, reserved, start, i) ==
    {p \in [1..i -> (1..n) \ reserved] :
        p[1] = start /\ \A a, b \in 1..i : p[a] = p[b] => a = b}

LEMMA BegunAppended ==
    ASSUME NEW n, NEW reserved, NEW start, NEW i \in Nat \ {0},
           NEW p \in Begun(n, reserved, start, i),
           NEW x \in (1..n) \ reserved, \A a \in 1..i : p[a] # x
    PROVE  Append(p, x) \in Begun(n, reserved, start, i + 1)
<1> DEFINE o == Append(p, x)
           S == (1..n) \ reserved
<1>1. o \in [1..(i + 1) -> S] /\ o[i + 1] = x /\ \A a \in 1..i : o[a] = p[a]
  <2>1. p \in [1..i -> S]
    BY DEF Begun
  <2> HIDE DEF S
  <2>2. x \in S
    BY DEF S
  <2>3. OneMore(o, p, x, i, S)
    BY <2>1, <2>2, Appended
  <2> QED
    BY <2>3 DEF OneMore
<1> HIDE DEF o, S
<1>2. \A a \in 1..(i + 1) : a \in 1..i \/ a = i + 1
  OBVIOUS
<1>3. \A a, b \in 1..(i + 1) : o[a] = o[b] => a = b
  BY <1>1, <1>2 DEF Begun
<1>4. o[1] = start
  BY <1>1 DEF Begun
<1> QED
  BY <1>1, <1>3, <1>4 DEF Begun, o, S

Left(n, reserved, p, i) == {x \in (1..n) \ reserved : \A a \in 1..i : p[a] # x}

LEMMA SomeStopIsLeft ==
    ASSUME NEW n, NEW reserved, NEW start, NEW i \in Nat, NEW p \in Begun(n, reserved, start, i),
           IsFiniteSet((1..n) \ reserved), i < Cardinality((1..n) \ reserved)
    PROVE  Left(n, reserved, p, i) # {}
<1> DEFINE S == (1..n) \ reserved
           place == [x \in S |-> CHOOSE a \in 1..i : p[a] = x]
<1> HIDE DEF S
<1> SUFFICES ASSUME \A x \in S : \E a \in 1..i : p[a] = x PROVE FALSE
  BY DEF S, Left
<1>1. \A x \in S : place[x] \in 1..i /\ p[place[x]] = x
  OBVIOUS
<1>2. place = [x \in S |-> place[x]]
  OBVIOUS
<1> HIDE DEF place
<1>3. place \in [S -> 1..i]
  BY <1>1, <1>2
<1>4. IsFiniteSet(1..i) /\ Cardinality(1..i) = i
  BY FS_Interval
<1>5. IsFiniteSet(S) /\ Cardinality(1..i) < Cardinality(S)
  BY <1>4 DEF S
<1>6. \E x, y \in S : x # y /\ place[x] = place[y]
  BY <1>3, <1>4, <1>5, FS_PigeonHole
<1> QED
  BY <1>1, <1>6

LEMMA nearestNeighborIsPerm ==
    ASSUME NEW m, NEW n, Matrix(m, n), NEW start \in 1..n,
           NEW fixedEnd \in {None} \cup ((1..n) \ {start})
    PROVE  KeepsTo(nearestNeighbor(m, start, fixedEnd), n, start, fixedEnd)
<1> DEFINE reserved == {fixedEnd} \ {None}
           free == n - Cardinality(reserved)
           Nearest(p) == FirstBest((1..n) \ (ToSet(p) \cup reserved), m[Last(p)])
           V == [i \in 1..free |-> Begun(n, reserved, start, i)]
           H == [i \in 2..free |-> [p \in V[i - 1] |-> Append(p, Nearest(p))]]
           Body(f) == [i \in 1..free |->
                         IF i = 1 THEN <<start>> ELSE Append(f[i - 1], Nearest(f[i - 1]))]
           path == CHOOSE f : f = Body(f)
<1>1. n \in Nat \ {0} /\ Len(m) = n /\ \A i, j \in 1..n : m[i][j] \in Nat
  BY MatrixSize
<1>2. nearestNeighbor(m, start, fixedEnd) =
        IF fixedEnd = None THEN path[free] ELSE Append(path[free], fixedEnd)
  BY <1>1 DEF nearestNeighbor
<1>3. /\ IsFiniteSet((1..n) \ reserved) /\ Cardinality((1..n) \ reserved) = free
      /\ free = (IF fixedEnd = None THEN n ELSE n - 1)
      /\ free \in Nat \ {0} /\ start \in (1..n) \ reserved
  <2>1. IsFiniteSet(1..n) /\ Cardinality(1..n) = n
    BY <1>1, FS_Interval
  <2>2. CASE fixedEnd = None
    <3>1. reserved = {} /\ (1..n) \ reserved = 1..n
      BY <2>2
    <3>2. Cardinality(reserved) = 0
      BY <3>1, FS_EmptySet
    <3> HIDE DEF reserved
    <3> QED
      BY <1>1, <2>1, <2>2, <3>1, <3>2
  <2>3. CASE fixedEnd # None
    <3>1. reserved = {fixedEnd} /\ fixedEnd \in 1..n /\ fixedEnd # start
      BY <2>3
    <3>2. Cardinality(reserved) = 1
      BY <3>1, FS_Singleton
    <3>3. IsFiniteSet((1..n) \ {fixedEnd}) /\ Cardinality((1..n) \ {fixedEnd}) = n - 1
      BY <2>1, <3>1, FS_RemoveElement
    <3>4. n # 1
      BY <3>1
    <3> HIDE DEF reserved
    <3> QED
      BY <1>1, <2>3, <3>1, <3>2, <3>3, <3>4
  <2> QED
    BY <2>2, <2>3
<1> HIDE DEF reserved, free
<1>4. ASSUME NEW i \in 1..free, i # free, NEW p \in Begun(n, reserved, start, i)
      PROVE  Append(p, Nearest(p)) \in Begun(n, reserved, start, i + 1)
  <2>1. i \in Nat \ {0} /\ i < free
    BY <1>3, <1>4
  <2>2. p \in [1..i -> 1..n]
    BY <1>4 DEF Begun
  <2>3. Len(p) = i /\ DOMAIN p = 1..i
    BY <2>1, <2>2, Length
  <2>4. ToSet(p) = {p[a] : a \in 1..i}
    BY <2>3 DEF ToSet
  <2> DEFINE left == (1..n) \ (ToSet(p) \cup reserved)
             cost == m[Last(p)]
  <2>5. left # {}
    <3>1. i \in Nat /\ i < Cardinality((1..n) \ reserved)
      BY <1>3, <2>1
    <3>2. Left(n, reserved, p, i) # {}
      BY <1>3, <1>4, <3>1, SomeStopIsLeft
    <3> QED
      BY <2>4, <3>2 DEF Left
  <2>6. left \subseteq Nat /\ \A x \in left : cost[x] \in Nat
    <3>1. p[i] \in 1..n /\ Last(p) = p[i]
      BY <2>1, <2>2, <2>3 DEF Last
    <3> QED
      BY <1>1, <3>1
  <2>7. Nearest(p) \in left
    <3> HIDE DEF left, cost
    <3>1. FirstBest(left, cost) \in left
      BY <2>5, <2>6, FirstBestIsLeast
    <3> QED
      BY <3>1 DEF left, cost
  <2>8. Nearest(p) \in (1..n) \ reserved /\ \A a \in 1..i : p[a] # Nearest(p)
    <3> HIDE DEF Nearest
    <3> QED
      BY <2>4, <2>7
  <2> HIDE DEF Nearest
  <2> QED
    BY <1>4, <2>1, <2>8, BegunAppended
<1>5. Steps(H, 1, free, V)
  <2>1. ASSUME NEW i \in 2..free, NEW p \in V[i - 1] PROVE H[i][p] \in V[i]
    <3>1. i - 1 \in 1..free /\ i - 1 # free /\ (i - 1) + 1 = i /\ i \in 1..free
      BY <1>3
    <3>2. p \in Begun(n, reserved, start, i - 1)
      BY <2>1, <3>1
    <3>3. Append(p, Nearest(p)) \in Begun(n, reserved, start, i)
      <4> HIDE DEF Nearest
      <4> QED
        BY <1>4, <3>1, <3>2
    <3>4. H[i][p] = Append(p, Nearest(p))
      <4> HIDE DEF Nearest, V
      <4> QED
        BY <2>1
    <3> HIDE DEF Nearest, H
    <3> QED
      BY <3>1, <3>3, <3>4
  <2> HIDE DEF H, V
  <2> QED
    BY <2>1 DEF Steps
<1>6. <<start>> \in V[1] /\ 1 \in Int /\ free \in Int /\ 1 <= free
  <2>1. <<start>> \in [1..1 -> (1..n) \ reserved]
    BY <1>3
  <2>2. <<start>> \in Begun(n, reserved, start, 1)
    BY <2>1 DEF Begun
  <2> QED
    BY <1>3, <2>2
<1>7. PICK f : IsOn(f, 1, free) /\ Iterated(f, 1, free, V, <<start>>, H)
  <2> HIDE DEF V, H
  <2> QED
    BY <1>5, <1>6, ByIndex
<1>8. f = Body(f)
  <2>1. ASSUME NEW i \in 1..free
        PROVE  f[i] = IF i = 1 THEN <<start>> ELSE Append(f[i - 1], Nearest(f[i - 1]))
    <3>1. CASE i = 1
      BY <1>7, <3>1 DEF Iterated
    <3>2. CASE i # 1
      <4>1. i \in 2..free /\ i \in (1 + 1)..free
        BY <1>3, <3>2
      <4>2. f[i - 1] \in V[i - 1] /\ f[i] = H[i][f[i - 1]]
        <5> HIDE DEF H, V
        <5> QED
          BY <1>7, <4>1 DEF Iterated
      <4> HIDE DEF Nearest, V
      <4> QED
        BY <3>2, <4>1, <4>2
    <3> QED
      BY <3>1, <3>2
  <2> HIDE DEF Nearest
  <2> QED
    BY <1>7, <2>1 DEF IsOn
<1>9. path = Body(path)
  <2> HIDE DEF Body
  <2> QED
    BY <1>8
<1> HIDE DEF path
<1>10. Iterates(path, 1, free, V, <<start>>, H)
  <2>1. path[1] = <<start>>
    BY <1>6, <1>9
  <2>2. ASSUME NEW i \in 2..free, path[i - 1] \in V[i - 1] PROVE path[i] = H[i][path[i - 1]]
    <3>1. i \in 1..free /\ i # 1
      BY <1>6
    <3>2. path[i] = Append(path[i - 1], Nearest(path[i - 1]))
      <4> HIDE DEF Nearest
      <4> QED
        BY <1>9, <3>1
    <3> HIDE DEF Nearest, V
    <3> QED
      BY <2>2, <3>2
  <2> HIDE DEF H, V
  <2> QED
    BY <2>1, <2>2 DEF Iterates
<1>11. Iterated(path, 1, free, V, <<start>>, H)
  <2> HIDE DEF V, H
  <2> QED
    BY <1>5, <1>6, <1>10, ByIndexOnly
<1> DEFINE p == path[free]
<1>12. p \in Begun(n, reserved, start, free)
  <2>1. free \in 1..free
    BY <1>6
  <2>2. p \in V[free]
    <3> HIDE DEF V
    <3> QED
      BY <1>11, <2>1 DEF Iterated
  <2> QED
    BY <2>1, <2>2
<1> HIDE DEF p
<1>13. CASE fixedEnd = None
  <2>1. nearestNeighbor(m, start, fixedEnd) = p /\ free = n
    BY <1>2, <1>3, <1>13 DEF p
  <2> QED
    BY <1>12, <1>13, <2>1 DEF Begun, KeepsTo, Perm
<1>14. CASE fixedEnd # None
  <2> DEFINE o == Append(p, fixedEnd)
  <2>1. nearestNeighbor(m, start, fixedEnd) = o /\ free = n - 1 /\ fixedEnd \in 1..n
    BY <1>2, <1>3, <1>14 DEF p
  <2>2. p \in [1..free -> 1..n] /\ \A a \in 1..free : p[a] # fixedEnd
    BY <1>12, <1>14 DEF Begun, reserved
  <2>3. o \in [1..(free + 1) -> 1..n] /\ o[free + 1] = fixedEnd /\ \A a \in 1..free : o[a] = p[a]
    <3>1. OneMore(o, p, fixedEnd, free, 1..n)
      BY <1>3, <2>1, <2>2, Appended
    <3> QED
      BY <3>1 DEF OneMore
  <2> HIDE DEF o
  <2>4. free + 1 = n /\ \A a \in 1..n : a \in 1..free \/ a = free + 1
    BY <1>1, <2>1
  <2>5. \A a, b \in 1..n : o[a] = o[b] => a = b
    BY <1>12, <2>2, <2>3, <2>4 DEF Begun
  <2>6. o[1] = start
    BY <1>6, <1>12, <2>3 DEF Begun
  <2> QED
    BY <2>1, <2>3, <2>4, <2>5, <2>6 DEF KeepsTo, Perm
<1> QED
  BY <1>13, <1>14


----------------------------------------------------------------------------
\* twoOpt: the same stops between the same ends, never longer, and in the end no
\* reversal helps.

Shorter(m, before, after) == pathCost(m, after) < pathCost(m, before)
KeptOrShorter(m, before, after) == after = before \/ Shorter(m, before, after)

Maps(n) == [1..n -> 1..n]

Rearranged(m, n, last, before, after) ==
    /\ after \in Maps(n)
    /\ KeptOrShorter(m, before, after)
    /\ after[1] = before[1]
    /\ last < n => after[n] = before[n]
    /\ Perm(before, n) => Perm(after, n)

LEMMA CostsAreNatural ==
    ASSUME NEW m, NEW n, Matrix(m, n), NEW o \in Maps(n)
    PROVE  pathCost(m, o) \in Nat
<1>1. Route(o, n, n)
  BY MatrixSize DEF Maps, Route
<1> QED
  BY <1>1, CostIsNatural

LEMMA KeptOrShorterChains ==
    ASSUME NEW m, NEW n, Matrix(m, n),
           NEW a \in Maps(n), NEW b \in Maps(n), NEW c \in Maps(n),
           KeptOrShorter(m, a, b), KeptOrShorter(m, b, c)
    PROVE  KeptOrShorter(m, a, c) /\ (a = c => b = a)
<1>1. pathCost(m, a) \in Nat /\ pathCost(m, b) \in Nat /\ pathCost(m, c) \in Nat
  BY CostsAreNatural
<1> QED
  BY <1>1 DEF KeptOrShorter, Shorter

LEMMA RearrangedChains ==
    ASSUME NEW m, NEW n, Matrix(m, n), NEW last,
           NEW a \in Maps(n), NEW b, NEW c,
           Rearranged(m, n, last, a, b), Rearranged(m, n, last, b, c)
    PROVE  Rearranged(m, n, last, a, c)
<1>1. b \in Maps(n) /\ c \in Maps(n)
  BY DEF Rearranged
<1>2. KeptOrShorter(m, a, c)
  BY <1>1, KeptOrShorterChains DEF Rearranged
<1> QED
  BY <1>2 DEF Rearranged

LEMMA ReversedIs ==
    ASSUME NEW n \in Nat, NEW last \in 1..n, NEW o \in Maps(n),
           NEW i \in 2..last, NEW j \in i..last
    PROVE  /\ Reversed(o, i, j) \in Maps(n)
           /\ Reversed(o, i, j)[1] = o[1]
           /\ last < n => Reversed(o, i, j)[n] = o[n]
           /\ Perm(o, n) => Perm(Reversed(o, i, j), n)
<1> DEFINE p == Reversed(o, i, j)
           at == [k \in 1..n |-> IF k \in i..j THEN i + j - k ELSE k]
<1>1. p = [k \in 1..n |-> IF k \in i..j THEN o[i + j - k] ELSE o[k]]
  BY DEF Reversed, Maps
<1>2. \A k \in 1..n : at[k] \in 1..n
  OBVIOUS
<1>3. \A k \in 1..n : p[k] = o[at[k]]
  BY <1>1
<1>4. \A k, l \in 1..n : at[k] = at[l] => k = l
  OBVIOUS
<1>5. p = [k \in 1..n |-> p[k]]
  BY <1>1
<1>6. 1 \in 1..n /\ at[1] = 1 /\ n \in 1..n /\ (last < n => at[n] = n)
  OBVIOUS
<1> HIDE DEF at, p
<1>7. p \in Maps(n)
  <2>1. \A k \in 1..n : p[k] \in 1..n
    BY <1>2, <1>3 DEF Maps
  <2> QED
    BY <1>5, <2>1 DEF Maps
<1>8. p[1] = o[1] /\ (last < n => p[n] = o[n])
  BY <1>3, <1>6
<1>9. Perm(o, n) => Perm(p, n)
  <2> SUFFICES ASSUME Perm(o, n), NEW k \in 1..n, NEW l \in 1..n, p[k] = p[l]
               PROVE  k = l
    BY <1>7 DEF Perm, Maps
  <2>1. at[k] = at[l]
    <3>1. at[k] \in 1..n /\ at[l] \in 1..n /\ o[at[k]] = o[at[l]]
      BY <1>2, <1>3
    <3> QED
      BY <3>1 DEF Perm
  <2> QED
    BY <1>4, <2>1
<1> QED
  BY <1>7, <1>8, <1>9 DEF p

LEMMA TriedIs ==
    ASSUME NEW m, NEW n \in Nat, NEW last \in 1..n, NEW o \in Maps(n),
           NEW i \in 2..last, NEW j \in i..last
    PROVE  Rearranged(m, n, last, o, Tried(m, o, i, j))
<1> DEFINE p == Reversed(o, i, j)
<1>1. /\ p \in Maps(n) /\ p[1] = o[1] /\ (last < n => p[n] = o[n])
      /\ Perm(o, n) => Perm(p, n)
  BY ReversedIs
<1> HIDE DEF p
<1>2. Tried(m, o, i, j) = IF Improves(m, p, o) THEN p ELSE o
  BY DEF Tried, p
<1>3. CASE Improves(m, p, o)
  BY <1>1, <1>2, <1>3 DEF Rearranged, KeptOrShorter, Shorter, Improves
<1>4. CASE ~Improves(m, p, o)
  BY <1>2, <1>4 DEF Rearranged, KeptOrShorter
<1> QED
  BY <1>3, <1>4

\* A loop that goes from base by steps that rearrange.
Rearrangings(m, n, last, t, a, b, base) ==
    /\ t[a] = base
    /\ \A j \in a..b : Rearranged(m, n, last, base, t[j])
    /\ \A j \in (a + 1)..b : Rearranged(m, n, last, t[j - 1], t[j])

LEMMA ItselfRearranged ==
    \A m, n, last : \A o \in Maps(n) : Rearranged(m, n, last, o, o)
BY DEF Rearranged, KeptOrShorter

StaysAt(t, a, b, base) == \A j \in a..b : t[j] = base

\* One that ends where it began has stayed there.
LEMMA StaysIfItEndsThere ==
    ASSUME NEW m, NEW n, Matrix(m, n), NEW last, NEW t, NEW a \in Int, NEW b \in Int, a <= b,
           NEW base \in Maps(n), Rearrangings(m, n, last, t, a, b, base), t[b] = base
    PROVE  StaysAt(t, a, b, base)
<1> SUFFICES ASSUME NEW j \in a..b PROVE t[j] = base
  BY DEF StaysAt
<1>1. \A l \in a..b : t[l] \in Maps(n)
  BY DEF Rearrangings, Rearranged
<1> DEFINE T == {l \in j..b : KeptOrShorter(m, t[j], t[l])}
<1>2. j \in T
  BY DEF KeptOrShorter
<1>3. ASSUME NEW l \in (j + 1)..b, l - 1 \in T PROVE l \in T
  <2>1. l \in (a + 1)..b /\ l \in a..b /\ l - 1 \in a..b
    OBVIOUS
  <2>2. KeptOrShorter(m, t[l - 1], t[l]) /\ KeptOrShorter(m, t[j], t[l - 1])
    BY <1>3, <2>1 DEF Rearrangings, Rearranged
  <2>3. KeptOrShorter(m, t[j], t[l])
    BY <1>1, <2>1, <2>2, KeptOrShorterChains
  <2> QED
    BY <2>3
<1> HIDE DEF T
<1>4. j..b \subseteq T
  BY <1>2, <1>3, Upwards
<1>5. KeptOrShorter(m, t[j], t[b])
  BY <1>4 DEF T
<1>6. KeptOrShorter(m, base, t[j])
  BY DEF Rearrangings, Rearranged
<1> QED
  BY <1>1, <1>5, <1>6, KeptOrShorterChains

\* H gives the steps of such a loop.
LoopSteps(m, n, last, a, b, H) ==
    \A j \in (a + 1)..b : \A o \in Maps(n) : Rearranged(m, n, last, o, H[j][o])
LoopOf(t, a, b, base, H, n) ==
    t[a] = base /\ \A j \in (a + 1)..b : t[j - 1] \in Maps(n) => t[j] = H[j][t[j - 1]]

LEMMA LoopIs ==
    ASSUME NEW m, NEW n, Matrix(m, n), NEW last, NEW a \in Int, NEW b \in Int, a <= b,
           NEW base \in Maps(n), NEW H, LoopSteps(m, n, last, a, b, H),
           NEW t, LoopOf(t, a, b, base, H, n)
    PROVE  Rearrangings(m, n, last, t, a, b, base)
<1> DEFINE T == {j \in a..b : Rearranged(m, n, last, base, t[j])}
<1>1. a \in T
  BY ItselfRearranged DEF LoopOf
<1>2. ASSUME NEW j \in (a + 1)..b, t[j - 1] \in Maps(n)
      PROVE  Rearranged(m, n, last, t[j - 1], t[j])
  BY <1>2 DEF LoopOf, LoopSteps
<1>3. ASSUME NEW j \in (a + 1)..b, j - 1 \in T PROVE j \in T
  <2>1. Rearranged(m, n, last, base, t[j - 1]) /\ t[j - 1] \in Maps(n)
    BY <1>3 DEF Rearranged
  <2>2. Rearranged(m, n, last, base, t[j])
    BY <1>2, <2>1, RearrangedChains
  <2> QED
    BY <2>2
<1> HIDE DEF T
<1>4. a..b \subseteq T
  BY <1>1, <1>3, Upwards
<1>5. \A j \in a..b : Rearranged(m, n, last, base, t[j])
  BY <1>4 DEF T
<1>6. ASSUME NEW j \in (a + 1)..b PROVE Rearranged(m, n, last, t[j - 1], t[j])
  <2>1. j - 1 \in a..b
    OBVIOUS
  <2> QED
    BY <1>2, <1>5, <2>1 DEF Rearranged
<1> QED
  BY <1>5, <1>6 DEF Rearrangings, LoopOf

LEMMA LoopExists ==
    ASSUME NEW m, NEW n, Matrix(m, n), NEW last, NEW a \in Int, NEW b \in Int, a <= b,
           NEW base \in Maps(n), NEW H, LoopSteps(m, n, last, a, b, H)
    PROVE  \E f : IsOn(f, a, b) /\ LoopOf(f, a, b, base, H, n)
<1> DEFINE V == [j \in a..b |-> Maps(n)]
<1>1. Steps(H, a, b, V)
  <2>1. ASSUME NEW j \in (a + 1)..b, NEW o \in Maps(n) PROVE H[j][o] \in Maps(n)
    BY DEF LoopSteps, Rearranged
  <2> QED
    BY <2>1 DEF Steps
<1>2. base \in V[a]
  OBVIOUS
<1> HIDE DEF V
<1>3. PICK f : IsOn(f, a, b) /\ Iterated(f, a, b, V, base, H)
  BY <1>1, <1>2, ByIndex
<1> QED
  BY <1>3 DEF LoopOf, Iterated

LEMMA FromPlaceIs ==
    ASSUME NEW m, NEW n, Matrix(m, n), NEW last \in 1..n, NEW i \in 2..last, NEW o \in Maps(n)
    PROVE  /\ Rearranged(m, n, last, o, FromPlace(m, o, i, last))
           /\ FromPlace(m, o, i, last) = o => \A j \in (i + 1)..last : Tried(m, o, i, j) = o
<1> DEFINE H == [j \in (i + 1)..last |-> [p \in Maps(n) |-> Tried(m, p, i, j)]]
           Body(f) == [j \in i..last |-> IF j = i THEN o ELSE Tried(m, f[j - 1], i, j)]
           t == CHOOSE f : f = Body(f)
<1>1. n \in Nat /\ last \in Int /\ i \in Int /\ i <= last
  BY MatrixSize
<1>2. LoopSteps(m, n, last, i, last, H)
  <2>1. ASSUME NEW j \in (i + 1)..last, NEW p \in Maps(n)
        PROVE  Rearranged(m, n, last, p, Tried(m, p, i, j))
    <3>1. j \in i..last
      OBVIOUS
    <3> QED
      BY <1>1, <3>1, TriedIs
  <2> QED
    BY <2>1 DEF LoopSteps
<1>3. \A j \in (i + 1)..last : \A p \in Maps(n) : H[j][p] = Tried(m, p, i, j)
  OBVIOUS
<1> HIDE DEF H
<1>4. PICK f : IsOn(f, i, last) /\ LoopOf(f, i, last, o, H, n)
  BY <1>1, <1>2, LoopExists
<1>5. Rearrangings(m, n, last, f, i, last, o)
  BY <1>1, <1>2, <1>4, LoopIs
<1>6. f = Body(f)
  <2>1. ASSUME NEW j \in i..last PROVE f[j] = IF j = i THEN o ELSE Tried(m, f[j - 1], i, j)
    <3>1. CASE j = i
      BY <1>4, <3>1 DEF LoopOf
    <3>2. CASE j # i
      <4>1. j \in (i + 1)..last /\ j - 1 \in i..last
        BY <3>2
      <4>2. f[j - 1] \in Maps(n)
        BY <1>5, <4>1 DEF Rearrangings, Rearranged
      <4> QED
        BY <1>3, <1>4, <3>2, <4>1, <4>2 DEF LoopOf
    <3> QED
      BY <3>1, <3>2
  <2> QED
    BY <1>4, <2>1 DEF IsOn
<1>7. t = Body(t)
  <2> HIDE DEF Body
  <2> QED
    BY <1>6
<1>8. FromPlace(m, o, i, last) = t[last]
  BY DEF FromPlace
<1> HIDE DEF t
<1>9. t[i] = o /\ \A j \in (i + 1)..last : t[j] = Tried(m, t[j - 1], i, j)
  <2>1. i \in i..last /\ \A j \in (i + 1)..last : j \in i..last /\ j # i
    OBVIOUS
  <2> QED
    BY <1>7, <2>1
<1>10. Rearrangings(m, n, last, t, i, last, o)
  <2>1. LoopOf(t, i, last, o, H, n)
    BY <1>3, <1>9 DEF LoopOf
  <2> QED
    BY <1>1, <1>2, <2>1, LoopIs
<1>11. last \in i..last
  OBVIOUS
<1>12. Rearranged(m, n, last, o, t[last])
  BY <1>10, <1>11 DEF Rearrangings
<1>13. ASSUME t[last] = o, NEW j \in (i + 1)..last PROVE Tried(m, o, i, j) = o
  <2>1. StaysAt(t, i, last, o)
    BY <1>1, <1>10, <1>13, StaysIfItEndsThere
  <2>2. j \in i..last /\ j - 1 \in i..last
    OBVIOUS
  <2>3. t[j] = o /\ t[j - 1] = o
    BY <2>1, <2>2 DEF StaysAt
  <2> QED
    BY <1>9, <2>3
<1> QED
  BY <1>8, <1>12, <1>13

LEMMA PassIs ==
    ASSUME NEW m, NEW n, Matrix(m, n), NEW last \in 1..n, NEW o \in Maps(n)
    PROVE  /\ Rearranged(m, n, last, o, Pass(m, o, last))
           /\ Pass(m, o, last) = o =>
                \A i \in 2..last : \A j \in (i + 1)..last : Tried(m, o, i, j) = o
<1> DEFINE H == [i \in 2..last |-> [p \in Maps(n) |-> FromPlace(m, p, i, last)]]
           Body(f) == [i \in 1..last |-> IF i = 1 THEN o ELSE FromPlace(m, f[i - 1], i, last)]
           t == CHOOSE f : f = Body(f)
<1>1. n \in Nat /\ last \in Int /\ 1 \in Int /\ 1 <= last /\ (1 + 1)..last = 2..last
  BY MatrixSize
<1>2. LoopSteps(m, n, last, 1, last, H)
  <2>1. ASSUME NEW i \in 2..last, NEW p \in Maps(n)
        PROVE  Rearranged(m, n, last, p, FromPlace(m, p, i, last))
    BY FromPlaceIs
  <2> QED
    BY <1>1, <2>1 DEF LoopSteps
<1>3. \A i \in 2..last : \A p \in Maps(n) : H[i][p] = FromPlace(m, p, i, last)
  OBVIOUS
<1> HIDE DEF H
<1>4. PICK f : IsOn(f, 1, last) /\ LoopOf(f, 1, last, o, H, n)
  BY <1>1, <1>2, LoopExists
<1>5. Rearrangings(m, n, last, f, 1, last, o)
  BY <1>1, <1>2, <1>4, LoopIs
<1>6. f = Body(f)
  <2>1. ASSUME NEW i \in 1..last
        PROVE  f[i] = IF i = 1 THEN o ELSE FromPlace(m, f[i - 1], i, last)
    <3>1. CASE i = 1
      BY <1>4, <3>1 DEF LoopOf
    <3>2. CASE i # 1
      <4>1. i \in 2..last /\ i - 1 \in 1..last
        BY <3>2
      <4>2. f[i - 1] \in Maps(n)
        BY <1>5, <4>1 DEF Rearrangings, Rearranged
      <4> QED
        BY <1>1, <1>3, <1>4, <3>2, <4>1, <4>2 DEF LoopOf
    <3> QED
      BY <3>1, <3>2
  <2> QED
    BY <1>4, <2>1 DEF IsOn
<1>7. t = Body(t)
  <2> HIDE DEF Body
  <2> QED
    BY <1>6
<1>8. Pass(m, o, last) = t[last]
  BY DEF Pass
<1> HIDE DEF t
<1>9. t[1] = o /\ \A i \in 2..last : t[i] = FromPlace(m, t[i - 1], i, last)
  <2>1. 1 \in 1..last /\ \A i \in 2..last : i \in 1..last /\ i # 1
    BY <1>1
  <2> QED
    BY <1>7, <2>1
<1>10. Rearrangings(m, n, last, t, 1, last, o)
  <2>1. LoopOf(t, 1, last, o, H, n)
    BY <1>1, <1>3, <1>9 DEF LoopOf
  <2> QED
    BY <1>1, <1>2, <2>1, LoopIs
<1>11. last \in 1..last
  BY <1>1
<1>12. Rearranged(m, n, last, o, t[last])
  BY <1>10, <1>11 DEF Rearrangings
<1>13. ASSUME t[last] = o, NEW i \in 2..last PROVE \A j \in (i + 1)..last : Tried(m, o, i, j) = o
  <2>1. StaysAt(t, 1, last, o)
    BY <1>1, <1>10, <1>13, StaysIfItEndsThere
  <2>2. i \in 1..last /\ i - 1 \in 1..last
    BY <1>1
  <2>3. FromPlace(m, o, i, last) = o
    BY <1>9, <2>1, <2>2 DEF StaysAt
  <2> QED
    BY <2>3, FromPlaceIs
<1> QED
  BY <1>8, <1>12, <1>13

\* Passes are made until one changes nothing: there is a last one, as each of the
\* others makes the tour shorter.
LEMMA twoOptIs ==
    ASSUME NEW m, NEW n, Matrix(m, n), NEW o \in Maps(n), NEW hasFixedEnd \in BOOLEAN,
           NEW last, last = (IF hasFixedEnd THEN n - 1 ELSE n), last \in 1..n
    PROVE  /\ Rearranged(m, n, last, o, twoOpt(m, o, hasFixedEnd))
           /\ \A i \in 2..last : \A j \in (i + 1)..last :
                Tried(m, twoOpt(m, o, hasFixedEnd), i, j) = twoOpt(m, o, hasFixedEnd)
<1> DEFINE D == Maps(n)
           r == [p \in D |-> pathCost(m, p)]
           Value(p, f) == IF Pass(m, p, last) = p THEN p ELSE f[Pass(m, p, last)]
           G == [p \in D |-> [f \in [D -> D] |-> Value(p, f)]]
           Body(f) == [p \in D |-> Value(p, f)]
           t == CHOOSE f : f = Body(f)
<1>1. \A p \in D : r[p] \in Nat /\ r[p] = pathCost(m, p)
  BY CostsAreNatural
<1>2. ASSUME NEW p \in D
      PROVE  /\ Pass(m, p, last) \in D
             /\ Pass(m, p, last) # p => r[Pass(m, p, last)] < r[p]
  <2>1. Rearranged(m, n, last, p, Pass(m, p, last))
    BY PassIs
  <2>2. Pass(m, p, last) \in D
    BY <2>1 DEF Rearranged
  <2> HIDE DEF r
  <2> QED
    BY <1>1, <2>1, <2>2 DEF Rearranged, KeptOrShorter, Shorter
<1>3. Given(D, D, r, G)
  <2>1. r \in [D -> Nat]
    BY <1>1
  <2>2. \A p \in D, f \in [D -> D] : Value(p, f) \in D
    BY <1>2
  <2>3. G \in [D -> [[D -> D] -> D]]
    <3> HIDE DEF Value, D
    <3> QED
      BY <2>2
  <2>4. ASSUME NEW p \in D, NEW f \in [D -> D], NEW g \in [D -> D], Below(r, p, f, g, D)
        PROVE  Value(p, f) = Value(p, g)
    <3> HIDE DEF D, r
    <3> QED
      BY <1>2, <2>4 DEF Below
  <2>5. ASSUME NEW p \in D, NEW f \in [D -> D], NEW g \in [D -> D], Below(r, p, f, g, D)
        PROVE  G[p][f] = G[p][g]
    <3>1. Value(p, f) = Value(p, g)
      BY <2>4, <2>5
    <3> HIDE DEF Value, r, D
    <3> QED
      BY <3>1
  <2> HIDE DEF G, Value, r, D
  <2> QED
    BY <2>1, <2>3, <2>5 DEF Given
<1>4. PICK f \in [D -> D] : Solves(f, D, G)
  <2>1. D # {}
    OBVIOUS
  <2> HIDE DEF D, G, r
  <2> QED
    BY <1>3, <2>1, Recursion
<1>5. f = Body(f)
  <2>1. \A p \in D : f[p] = Value(p, f)
    BY <1>4 DEF Solves
  <2> HIDE DEF Value, D
  <2> QED
    BY <2>1
<1>6. t = Body(t)
  <2> HIDE DEF Body
  <2> QED
    BY <1>5
<1>7. twoOpt(m, o, hasFixedEnd) = t[o]
  <2>1. n \in Nat \ {0}
    BY MatrixSize
  <2>2. Len(o) = n /\ DOMAIN o = 1..n
    BY <2>1, Length DEF Maps
  <2> QED
    BY <2>2 DEF twoOpt, Maps
<1>8. \A p \in D : t[p] = Value(p, t)
  <2> HIDE DEF t, Value, D
  <2> QED
    BY <1>6
<1> DEFINE Ended(p, q) == Rearranged(m, n, last, p, q) /\ Pass(m, q, last) = q
           T == {p \in D : Ended(p, t[p])}
<1> HIDE DEF t
<1>9. ASSUME NEW p \in D, \A q \in D : r[q] < r[p] => q \in T PROVE p \in T
  <2>1. CASE Pass(m, p, last) = p
    <3>1. t[p] = p
      BY <1>8, <2>1
    <3>2. Rearranged(m, n, last, p, p)
      BY ItselfRearranged
    <3> QED
      BY <2>1, <3>1, <3>2
  <2>2. CASE Pass(m, p, last) # p
    <3> DEFINE q == Pass(m, p, last)
    <3>1. t[p] = t[q] /\ q \in D /\ q \in T
      <4> HIDE DEF T, r
      <4> QED
        BY <1>2, <1>8, <1>9, <2>2
    <3>2. Ended(q, t[q])
      BY <3>1
    <3>3. Rearranged(m, n, last, p, q)
      BY PassIs
    <3> HIDE DEF q
    <3>4. Rearranged(m, n, last, p, t[q])
      BY <3>2, <3>3, RearrangedChains
    <3> QED
      BY <3>1, <3>2, <3>4
  <2> QED
    BY <2>1, <2>2
<1>10. D \subseteq T
  <2>1. Inherited(D, r, T)
    <3> HIDE DEF T, D, r
    <3> QED
      BY <1>9 DEF Inherited
  <2> HIDE DEF T, D, r
  <2> QED
    BY <1>1, <2>1, Descent
<1>11. Ended(o, t[o])
  BY <1>10
<1>12. t[o] \in D
  BY <1>11 DEF Rearranged
<1> QED
  BY <1>7, <1>11, <1>12, PassIs

----------------------------------------------------------------------------
\* solveOrder otherwise: beyond the limit, and for two stops.

FixedEnd(fixedEnd, n) == IF fixedEnd THEN n ELSE None
LastMoved(fixedEnd, n) == IF fixedEnd THEN n - 1 ELSE n

\* o comes from the nearest neighbours a, and no reversal makes it shorter.
Improved(m, n, a, o, fixedEnd) ==
    /\ KeepsTo(a, n, 1, FixedEnd(fixedEnd, n)) /\ KeepsTo(o, n, 1, FixedEnd(fixedEnd, n))
    /\ pathCost(m, o) <= pathCost(m, a)
    /\ \A i, j \in 2..LastMoved(fixedEnd, n) :
         i < j => Reversed(o, i, j) \in Maps(n) /\ pathCost(m, o) <= pathCost(m, Reversed(o, i, j))

LEMMA solveOrderImproves ==
    ASSUME NEW m, NEW n, Matrix(m, n), n # 1, NEW limit \in Int, n > limit,
           NEW fixedStart \in BOOLEAN, NEW fixedEnd \in BOOLEAN
    PROVE  Improved(m, n, nearestNeighbor(m, 1, FixedEnd(fixedEnd, n)),
                    solveOrder(m, fixedStart, fixedEnd, limit), fixedEnd)
<1> DEFINE end == FixedEnd(fixedEnd, n)
           last == LastMoved(fixedEnd, n)
           a == nearestNeighbor(m, 1, end)
           o == solveOrder(m, fixedStart, fixedEnd, limit)
<1>1. n \in Nat \ {0} /\ Len(m) = n /\ 1 \in 1..n /\ n \in 1..n
  BY MatrixSize
<1>2. o = twoOpt(m, a, fixedEnd)
  BY <1>1 DEF solveOrder, FixedEnd
<1>3. end \in {None} \cup ((1..n) \ {1}) /\ (end # None <=> fixedEnd)
  BY <1>1 DEF FixedEnd, None
<1>4. last \in 1..n /\ last = (IF fixedEnd THEN n - 1 ELSE n) /\ (last < n <=> fixedEnd)
  BY <1>1 DEF LastMoved
<1> HIDE DEF end, last
<1>5. KeepsTo(a, n, 1, end)
  BY <1>1, <1>3, nearestNeighborIsPerm
<1> HIDE DEF a, o
<1>6. a \in Maps(n)
  BY <1>5 DEF KeepsTo, Perm, Maps
<1>7. /\ Rearranged(m, n, last, a, o)
      /\ \A i \in 2..last : \A j \in (i + 1)..last : Tried(m, o, i, j) = o
  BY <1>2, <1>4, <1>6, twoOptIs
<1>8. o \in Maps(n)
  BY <1>7 DEF Rearranged
<1>9. KeepsTo(o, n, 1, end)
  BY <1>3, <1>4, <1>5, <1>7 DEF Rearranged, KeepsTo
<1>10. pathCost(m, o) \in Nat /\ pathCost(m, a) \in Nat
  BY <1>6, <1>8, CostsAreNatural
<1>11. pathCost(m, o) <= pathCost(m, a)
  BY <1>7, <1>10 DEF Rearranged, KeptOrShorter, Shorter
<1>12. ASSUME NEW i \in 2..last, NEW j \in 2..last, i < j
       PROVE  Reversed(o, i, j) \in Maps(n) /\ pathCost(m, o) <= pathCost(m, Reversed(o, i, j))
  <2> DEFINE p == Reversed(o, i, j)
  <2>1. j \in i..last /\ j \in (i + 1)..last
    BY <1>4, <1>12
  <2>2. p \in Maps(n)
    <3>1. n \in Nat
      BY <1>1
    <3> QED
      BY <1>4, <1>8, <2>1, <3>1, ReversedIs
  <2> HIDE DEF p
  <2>3. pathCost(m, p) \in Nat
    BY <2>2, CostsAreNatural
  <2>4. Tried(m, o, i, j) = o
    BY <1>7, <2>1
  <2>5. ~(pathCost(m, p) < pathCost(m, o))
    <3> SUFFICES ASSUME pathCost(m, p) < pathCost(m, o) PROVE FALSE
      OBVIOUS
    <3>1. p = o
      BY <2>4 DEF Tried, Improves, p
    <3> QED
      BY <2>3, <3>1
  <2>6. pathCost(m, o) <= pathCost(m, p)
    BY <1>10, <2>3, <2>5
  <2> QED
    BY <2>2, <2>6 DEF p
<1>13. Improved(m, n, a, o, fixedEnd)
  BY <1>5, <1>9, <1>11, <1>12 DEF Improved, end, last
<1> QED
  BY <1>13 DEF a, o, end

LEMMA PairsAnswered ==
    ASSUME NEW m, Matrix(m, 2), NEW limit \in Int, 2 <= limit,
           NEW fixedStart \in BOOLEAN, NEW fixedEnd \in BOOLEAN
    PROVE  solveOrder(m, fixedStart, fixedEnd, limit) =
             IF fixedEnd /\ ~fixedStart THEN <<2, 1>> ELSE <<1, 2>>
<1>1. Len(m) = 2
  BY MatrixSize
<1>2. CASE fixedEnd /\ ~fixedStart
  <2> DEFINE w == reverseMatrix(m)
  <2>0. Matrix(w, 2)
    BY ReverseMatrixIs
  <2>1. Len(w) = 2
    <3> HIDE DEF w
    <3> QED
      BY <2>0, MatrixSize
  <2>2. heldKarp(w, 2, None) = [cost |-> w[1][2], order |-> <<1, 2>>]
    <3> HIDE DEF w
    <3> QED
      BY <2>1 DEF heldKarp
  <2>3. heldKarp(w, 2, None).order = <<1, 2>>
    <3> HIDE DEF w
    <3> QED
      BY <2>2
  <2>4. ~(2 > limit)
    OBVIOUS
  <2>5. fixedEnd = TRUE /\ fixedStart = FALSE
    BY <1>2
  <2>6. solveOrder(m, fixedStart, fixedEnd, limit) = reverseOrder(heldKarp(w, 2, None).order)
    BY <1>1, <2>4, <2>5 DEF solveOrder
  <2>7. reverseOrder(<<1, 2>>) = <<2, 1>>
    BY DEF reverseOrder, Reverse
  <2> HIDE DEF w
  <2>8. solveOrder(m, fixedStart, fixedEnd, limit) = <<2, 1>>
    BY <2>3, <2>6, <2>7
  <2> QED
    BY <1>2, <2>8
<1>3. CASE ~(fixedEnd /\ ~fixedStart)
  <2>1. heldKarp(m, 1, IF fixedEnd THEN 2 ELSE None) = [cost |-> m[1][2], order |-> <<1, 2>>]
    BY <1>1 DEF heldKarp
  <2> QED
    BY <1>1, <1>3, <2>1 DEF solveOrder
<1> QED
  BY <1>2, <1>3

----------------------------------------------------------------------------
\* The segments.

\* Stops 1..off[k + 1] cut into k segments of these sizes, off[i] of them in
\* front of segment i.
Counts(off, sizes, k) ==
    /\ k \in Nat \ {0}
    /\ off[1] = 0
    /\ \A i \in 1..(k + 1) : off[i] \in Nat
    /\ \A i \in 1..k : sizes[i] \in Nat \ {0} /\ off[i + 1] = off[i] + sizes[i]

Block(off, i) == (off[i] + 1)..off[i + 1]

LEMMA OffsetsAre ==
    ASSUME NEW k \in Nat \ {0}, NEW sizes \in [1..k -> Nat \ {0}]
    PROVE  Counts(Offsets(sizes), sizes, k)
<1> DEFINE last == k + 1
           V == [i \in 1..last |-> Nat]
           H == [i \in 2..last |-> [v \in Nat |-> v + sizes[i - 1]]]
           Body(f) == [i \in 1..last |-> IF i = 1 THEN 0 ELSE f[i - 1] + sizes[i - 1]]
           t == CHOOSE f : f = Body(f)
<1>1. last \in Int /\ 1 \in Int /\ 1 <= last /\ (1 + 1)..last = 2..last
  OBVIOUS
<1>2. \A i \in 2..last : i \in 1..last /\ i # 1 /\ i - 1 \in 1..last /\ i - 1 \in 1..k
  OBVIOUS
<1>3. Steps(H, 1, last, V)
  BY <1>1, <1>2 DEF Steps
<1>4. 0 \in V[1] /\ \A i \in 1..last : V[i] = Nat
  OBVIOUS
<1>5. \A i \in 2..last : \A v \in Nat : H[i][v] = v + sizes[i - 1]
  OBVIOUS
<1> HIDE DEF V, H
<1>6. PICK f : IsOn(f, 1, last) /\ Iterated(f, 1, last, V, 0, H)
  BY <1>1, <1>3, <1>4, ByIndex
<1>7. f = Body(f)
  <2>1. ASSUME NEW i \in 1..last PROVE f[i] = IF i = 1 THEN 0 ELSE f[i - 1] + sizes[i - 1]
    <3>1. CASE i = 1
      BY <1>6, <3>1 DEF Iterated
    <3>2. CASE i # 1
      <4>1. i \in 2..last /\ i - 1 \in 1..last
        BY <3>2
      <4>2. i \in (1 + 1)..last
        BY <1>1, <4>1
      <4>3. f[i - 1] \in V[i - 1] /\ f[i] = H[i][f[i - 1]]
        BY <1>6, <4>2 DEF Iterated
      <4>4. f[i - 1] \in Nat
        BY <1>4, <4>1, <4>3
      <4> QED
        BY <1>5, <3>2, <4>1, <4>3, <4>4
    <3> QED
      BY <3>1, <3>2
  <2> QED
    BY <1>6, <2>1 DEF IsOn
<1>8. t = Body(t)
  <2> HIDE DEF Body
  <2> QED
    BY <1>7
<1>9. Offsets(sizes) = t
  <2>1. Len(sizes) = k
    BY Length
  <2> QED
    BY <2>1 DEF Offsets
<1> HIDE DEF t
<1>10. t[1] = 0 /\ \A i \in 2..last : t[i] = t[i - 1] + sizes[i - 1]
  BY <1>1, <1>2, <1>8
<1>11. Iterates(t, 1, last, V, 0, H)
  <2>1. ASSUME NEW i \in 2..last, t[i - 1] \in V[i - 1] PROVE t[i] = H[i][t[i - 1]]
    <3>1. i - 1 \in 1..last
      BY <1>2
    <3>2. V[i - 1] = Nat
      BY <1>4, <3>1
    <3>3. t[i - 1] \in Nat
      BY <2>1, <3>2
    <3>4. H[i][t[i - 1]] = t[i - 1] + sizes[i - 1]
      BY <1>5, <3>3
    <3> QED
      BY <1>10, <3>4
  <2> QED
    BY <1>1, <1>10, <2>1 DEF Iterates
<1>12. Iterated(t, 1, last, V, 0, H)
  BY <1>1, <1>3, <1>4, <1>11, ByIndexOnly
<1>13. \A i \in 1..last : t[i] \in Nat
  BY <1>4, <1>12 DEF Iterated
<1>14. ASSUME NEW i \in 1..k PROVE sizes[i] \in Nat \ {0} /\ t[i + 1] = t[i] + sizes[i]
  <2>1. i + 1 \in 2..last /\ (i + 1) - 1 = i
    OBVIOUS
  <2> QED
    BY <1>10, <2>1
<1> QED
  BY <1>9, <1>10, <1>13, <1>14 DEF Counts

LEMMA CountsAscend ==
    ASSUME NEW off, NEW sizes, NEW k, Counts(off, sizes, k),
           NEW i \in 1..(k + 1), NEW j \in i..(k + 1)
    PROVE  off[i] \in Nat /\ off[j] \in Nat /\ off[i] <= off[j]
<1> DEFINE T == {h \in i..(k + 1) : off[i] <= off[h]}
<1>1. k \in Nat /\ i \in Int /\ k + 1 \in Int
  BY DEF Counts
<1>2. \A h \in i..(k + 1) : h \in 1..(k + 1) /\ off[h] \in Nat
  BY <1>1 DEF Counts
<1>3. i \in T
  BY <1>1, <1>2
<1>4. ASSUME NEW h \in (i + 1)..(k + 1), h - 1 \in T PROVE h \in T
  <2>1. h - 1 \in 1..k /\ (h - 1) + 1 = h /\ h \in i..(k + 1) /\ h - 1 \in i..(k + 1)
    BY <1>1
  <2>2. sizes[h - 1] \in Nat /\ off[h] = off[h - 1] + sizes[h - 1]
    BY <2>1 DEF Counts
  <2>3. off[i] <= off[h - 1]
    BY <1>4
  <2>4. off[i] <= off[h]
    BY <1>2, <1>3, <2>1, <2>2, <2>3
  <2> QED
    BY <2>1, <2>4
<1> HIDE DEF T
<1>5. i..(k + 1) \subseteq T
  BY <1>1, <1>3, <1>4, Upwards
<1> QED
  BY <1>2, <1>5 DEF T

\* The blocks are numbers one after another.
LEMMA BlockNumbers ==
    ASSUME NEW off, NEW sizes, NEW k, Counts(off, sizes, k), NEW i \in 1..k
    PROVE  /\ off[i] \in Nat /\ off[i + 1] \in Nat /\ off[k + 1] \in Nat \ {0}
           /\ sizes[i] \in Nat \ {0} /\ off[i + 1] = off[i] + sizes[i]
           /\ off[i + 1] <= off[k + 1]
           /\ Block(off, i) \subseteq 1..off[i + 1]
           /\ Block(off, i) \subseteq 1..off[k + 1]
<1>1. k \in Nat /\ i \in 1..(k + 1) /\ i + 1 \in 1..(k + 1) /\ k + 1 \in (i + 1)..(k + 1)
  BY DEF Counts
<1>2. sizes[i] \in Nat \ {0} /\ off[i + 1] = off[i] + sizes[i] /\ off[i] \in Nat
  BY <1>1 DEF Counts
<1>3. off[i + 1] \in Nat /\ off[k + 1] \in Nat /\ off[i + 1] <= off[k + 1]
  BY <1>1, CountsAscend
<1> QED
  BY <1>2, <1>3 DEF Block

LEMMA BlocksApart ==
    ASSUME NEW off, NEW sizes, NEW k, Counts(off, sizes, k), NEW h \in 1..k, NEW i \in 1..k,
           h < i, NEW x \in Block(off, h), NEW y \in Block(off, i)
    PROVE  x \in Nat /\ y \in Nat /\ x <= off[i] /\ off[h + 1] < y /\ x < y
<1>1. h + 1 \in 1..(k + 1) /\ i \in (h + 1)..(k + 1)
  BY DEF Counts
<1>2. off[h + 1] \in Nat /\ off[i] \in Nat /\ off[h + 1] <= off[i]
  BY <1>1, CountsAscend
<1>3. off[h] \in Nat /\ off[i + 1] \in Nat
  BY BlockNumbers
<1> QED
  BY <1>2, <1>3 DEF Block

LEMMA BlockIsOne ==
    ASSUME NEW off, NEW sizes, NEW k, Counts(off, sizes, k), NEW h \in 1..k, NEW i \in 1..k,
           NEW x, x \in Block(off, h), x \in Block(off, i)
    PROVE  h = i
<1>1. h \in Int /\ i \in Int
  OBVIOUS
<1>2. CASE h < i
  <2>1. x \in Nat /\ x < x
    BY <1>2, BlocksApart
  <2> QED
    BY <2>1
<1>3. CASE i < h
  <2>1. x \in Nat /\ x < x
    BY <1>3, BlocksApart
  <2> QED
    BY <2>1
<1> QED
  BY <1>1, <1>2, <1>3

LEMMA BlockExists ==
    ASSUME NEW off, NEW sizes, NEW k, Counts(off, sizes, k), NEW x \in 1..off[k + 1]
    PROVE  \E i \in 1..k : x \in Block(off, i)
<1> DEFINE T == {i \in 1..(k + 1) : x \notin 1..off[i] \/ \E h \in 1..k : x \in Block(off, h)}
<1>1. k \in Nat /\ 1 \in Int /\ k + 1 \in Int /\ k + 1 \in 1..(k + 1)
  BY DEF Counts
<1>2. 1 \in T
  BY <1>1 DEF Counts
<1>3. ASSUME NEW i \in (1 + 1)..(k + 1), i - 1 \in T PROVE i \in T
  <2>1. i - 1 \in 1..k /\ (i - 1) + 1 = i /\ i \in 1..(k + 1)
    BY <1>1
  <2>2. off[i - 1] \in Nat /\ off[i] \in Nat
    BY <2>1, BlockNumbers
  <2>3. x \in 1..off[i] => x \in 1..off[i - 1] \/ x \in Block(off, i - 1)
    BY <2>1, <2>2 DEF Block
  <2> QED
    BY <1>3, <2>1, <2>3
<1> HIDE DEF T
<1>4. 1..(k + 1) \subseteq T
  BY <1>1, <1>2, <1>3, Upwards
<1>5. k + 1 \in T
  BY <1>1, <1>4
<1> QED
  BY <1>5 DEF T

\* An order of the first i segments that keeps each of them together and in its
\* place.
Blocked(o, off, i) ==
    /\ Perm(o, off[i + 1])
    /\ \A h \in 1..i : \A p \in Block(off, h) : o[p] \in Block(off, h)

\* An order of all stops that never goes back to an earlier segment.
GoesOn(o, off, k) ==
    \A p \in 1..(off[k + 1] - 1) : \A h, i \in 1..k :
        o[p] \in Block(off, h) /\ o[p + 1] \in Block(off, i) => h <= i

LEMMA BlockedAscends ==
    ASSUME NEW off, NEW sizes, NEW k, Counts(off, sizes, k), NEW o, Blocked(o, off, k)
    PROVE  GoesOn(o, off, k)
<1> SUFFICES ASSUME NEW p \in 1..(off[k + 1] - 1), NEW h \in 1..k, NEW i \in 1..k,
                    o[p] \in Block(off, h), o[p + 1] \in Block(off, i)
             PROVE  h <= i
  BY DEF GoesOn
<1>1. k \in Nat \ {0} /\ k \in 1..k
  BY DEF Counts
<1>2. off[k + 1] \in Nat
  BY <1>1, BlockNumbers
<1>3. p \in 1..off[k + 1] /\ p + 1 \in 1..off[k + 1]
  BY <1>2
<1>4. PICK a \in 1..k : p \in Block(off, a)
  BY <1>3, BlockExists
<1>5. PICK b \in 1..k : p + 1 \in Block(off, b)
  BY <1>3, BlockExists
<1>6. o[p] \in Block(off, a) /\ o[p + 1] \in Block(off, b)
  BY <1>4, <1>5 DEF Blocked
<1>7. h = a
  BY <1>6, BlockIsOne
<1>8. i = b
  BY <1>6, BlockIsOne
<1>9. ~(b < a)
  <2> SUFFICES ASSUME b < a PROVE FALSE
    OBVIOUS
  <2>1. p + 1 < p
    BY <1>4, <1>5, BlocksApart
  <2> QED
    BY <1>3, <2>1
<1> QED
  BY <1>7, <1>8, <1>9

\* As the segment numbers ascend from each stop to the next, they ascend.
LEMMA AscendingFar ==
    ASSUME NEW off, NEW sizes, NEW k, Counts(off, sizes, k),
           NEW o, Perm(o, off[k + 1]), GoesOn(o, off, k),
           NEW p \in 1..off[k + 1], NEW q \in p..off[k + 1], NEW h \in 1..k, NEW i \in 1..k,
           o[p] \in Block(off, h), o[q] \in Block(off, i)
    PROVE  h <= i
<1> DEFINE n == off[k + 1]
           T == {x \in p..n : \A j \in 1..k : o[x] \in Block(off, j) => h <= j}
<1>1. k \in Nat \ {0} /\ k \in 1..k
  BY DEF Counts
<1>2. n \in Nat
  BY <1>1, BlockNumbers
<1>3. p \in T
  <2>1. ASSUME NEW j \in 1..k, o[p] \in Block(off, j) PROVE h <= j
    <3>1. h = j
      BY <2>1, BlockIsOne
    <3> QED
      BY <3>1
  <2> QED
    BY <1>2, <2>1
<1>4. ASSUME NEW x \in (p + 1)..n, x - 1 \in T PROVE x \in T
  <2>1. x - 1 \in 1..(n - 1) /\ x - 1 \in 1..n /\ (x - 1) + 1 = x /\ x \in p..n
    BY <1>2
  <2>2. o[x - 1] \in 1..n
    BY <2>1 DEF Perm
  <2>3. PICK g \in 1..k : o[x - 1] \in Block(off, g)
    BY <2>2, BlockExists
  <2>4. h <= g
    BY <1>4, <2>3
  <2>5. ASSUME NEW j \in 1..k, o[x] \in Block(off, j) PROVE h <= j
    <3>1. g <= j
      BY <2>1, <2>3, <2>5 DEF GoesOn
    <3> QED
      BY <2>4, <3>1
  <2> QED
    BY <2>1, <2>5
<1> HIDE DEF T
<1>5. p \in Int /\ n \in Int
  BY <1>2
<1>6. p..n \subseteq T
  BY <1>3, <1>4, <1>5, Upwards
<1> QED
  BY <1>6 DEF T

\* A number of first places cannot hold more stops, nor fewer.
LEMMA FirstPlaces ==
    ASSUME NEW n \in Nat, NEW o, Perm(o, n), NEW a \in 0..n, NEW b \in 0..n,
           \A p \in 1..a : o[p] \in 1..b
    PROVE  a <= b
<1> DEFINE f == [p \in 1..a |-> o[p]]
<1>1. a \in Nat /\ b \in Nat /\ 1..a \subseteq 1..n
  OBVIOUS
<1>2. f \in [1..a -> 1..b]
  OBVIOUS
<1>3. \A i, j \in 1..a : f[i] = f[j] => i = j
  BY <1>1 DEF Perm
<1> HIDE DEF f
<1> QED
  BY <1>1, <1>2, <1>3, NoInjectionDown

LEMMA FirstStops ==
    ASSUME NEW n \in Nat, NEW o, Perm(o, n), NEW a \in 0..n, NEW b \in 0..n,
           \A p \in 1..n : o[p] \in 1..a => p \in 1..b
    PROVE  a <= b
<1> DEFINE place == [x \in 1..a |-> CHOOSE i \in 1..n : o[i] = x]
<1>1. a \in Nat /\ b \in Nat
  OBVIOUS
<1>2. \A x \in 1..a : place[x] \in 1..n /\ o[place[x]] = x
  <2> TAKE x \in 1..a
  <2>1. x \in 1..n
    OBVIOUS
  <2>2. \E i \in 1..n : o[i] = x
    BY <2>1, PermIsOnto
  <2> QED
    BY <2>2
<1>3. place \in [1..a -> 1..b] /\ \A x, y \in 1..a : place[x] = place[y] => x = y
  <2>1. place = [x \in 1..a |-> place[x]]
    OBVIOUS
  <2> HIDE DEF place
  <2>2. \A x \in 1..a : place[x] \in 1..b
    BY <1>2
  <2> QED
    BY <1>2, <2>1, <2>2
<1> HIDE DEF place
<1> QED
  BY <1>1, <1>3, NoInjectionDown

\* So every stop is at a place of its segment: there are as many.
LEMMA AscendingIsBlocked ==
    ASSUME NEW off, NEW sizes, NEW k, Counts(off, sizes, k),
           NEW o, Perm(o, off[k + 1]), GoesOn(o, off, k)
    PROVE  Blocked(o, off, k)
<1> DEFINE n == off[k + 1]
<1>1. k \in Nat \ {0} /\ k \in 1..k
  BY DEF Counts
<1>2. n \in Nat
  BY <1>1, BlockNumbers
<1> SUFFICES ASSUME NEW h \in 1..k, NEW p \in Block(off, h)
             PROVE  o[p] \in Block(off, h)
  BY DEF Blocked
<1>3. /\ off[h] \in 0..n /\ off[h + 1] \in 0..n
      /\ p \in 1..n /\ p > off[h] /\ p <= off[h + 1]
  BY <1>2, BlockNumbers DEF Block
<1>4. o[p] \in 1..n
  BY <1>3 DEF Perm
<1>5. PICK i \in 1..k : o[p] \in Block(off, i)
  BY <1>4, BlockExists
<1>6. ~(i < h)
  <2> SUFFICES ASSUME i < h PROVE FALSE
    OBVIOUS
  <2>1. ASSUME NEW q \in 1..p PROVE o[q] \in 1..off[h]
    <3>1. q \in 1..n /\ p \in q..n
      BY <1>2, <1>3
    <3>2. o[q] \in 1..n
      BY <3>1 DEF Perm
    <3>3. PICK j \in 1..k : o[q] \in Block(off, j)
      BY <3>2, BlockExists
    <3>4. j <= i
      BY <1>5, <3>1, <3>3, AscendingFar
    <3>5. j < h
      BY <3>4
    <3>6. p \in Block(off, h)
      OBVIOUS
    <3>7. o[q] <= off[h]
      BY <3>3, <3>5, <3>6, BlocksApart
    <3> QED
      BY <1>3, <3>2, <3>7
  <2>2. p \in 0..n
    BY <1>3
  <2>3. p <= off[h]
    BY <1>2, <1>3, <2>1, <2>2, FirstPlaces
  <2> QED
    BY <1>3, <2>3
<1>7. ~(h < i)
  <2> SUFFICES ASSUME h < i PROVE FALSE
    OBVIOUS
  <2>1. ASSUME NEW q \in 1..n, o[q] \in 1..off[h + 1] PROVE q \in 1..(p - 1)
    <3> SUFFICES ASSUME q \in p..n PROVE FALSE
      BY <1>2, <1>3
    <3>1. o[q] \in 1..n
      BY DEF Perm
    <3>2. PICK j \in 1..k : o[q] \in Block(off, j)
      BY <3>1, BlockExists
    <3>3. i <= j
      BY <1>3, <1>5, <3>2, AscendingFar
    <3>4. h < j
      BY <3>3
    <3>5. off[h + 1] < o[q]
      BY <3>2, <3>4, BlocksApart
    <3> QED
      BY <1>3, <2>1, <3>5
  <2>2. p - 1 \in 0..n
    BY <1>2, <1>3
  <2>3. off[h + 1] <= p - 1
    BY <1>2, <1>3, <2>1, <2>2, FirstStops
  <2> QED
    BY <1>3, <2>3
<1>8. i = h
  BY <1>6, <1>7
<1> QED
  BY <1>5, <1>8

\* A segment with s of the n stops.
Segment(m, n, seg, s) ==
    Matrix(m, n) /\ s \in Nat \ {0} /\ seg \in [1..s -> 1..n]

LEMMA SubmatrixIs ==
    ASSUME NEW m, NEW n, NEW seg, NEW s, Segment(m, n, seg, s)
    PROVE  /\ Matrix(Submatrix(m, seg), s) /\ Len(seg) = s
           /\ \A i, j \in 1..s : Submatrix(m, seg)[i][j] = m[seg[i]][seg[j]]
<1>1. Matrix(m, n) /\ s \in Nat \ {0} /\ seg \in [1..s -> 1..n]
  BY DEF Segment
<1>2. \A i, j \in 1..s : m[seg[i]][seg[j]] \in Nat
  <2> TAKE i, j \in 1..s
  <2>1. seg[i] \in 1..n /\ seg[j] \in 1..n
    BY <1>1
  <2> QED
    BY <1>1, <2>1, MatrixSize
<1>3. Len(seg) = s /\ DOMAIN seg = 1..s
  BY <1>1, Length
<1>4. Submatrix(m, seg) = [i \in 1..s |-> [j \in 1..s |-> m[seg[i]][seg[j]]]]
  BY <1>3 DEF Submatrix
<1>5. Matrix(Submatrix(m, seg), s)
  <2>1. \A i \in 1..s : [j \in 1..s |-> m[seg[i]][seg[j]]] \in [1..s -> Nat]
    BY <1>2
  <2>2. Submatrix(m, seg) \in [1..s -> [1..s -> Nat]]
    BY <1>4, <2>1
  <2> QED
    BY <1>1, <2>2 DEF Matrix
<1> QED
  BY <1>3, <1>4, <1>5

LEMMA OnSegmentIs ==
    ASSUME NEW m, NEW n, NEW seg, NEW s, Segment(m, n, seg, s), NEW o \in Maps(s)
    PROVE  /\ Route(OnSegment(o, seg), s, n)
           /\ \A i \in 1..s : OnSegment(o, seg)[i] = seg[o[i]]
<1>1. s \in Nat \ {0} /\ seg \in [1..s -> 1..n] /\ DOMAIN o = 1..s
  BY DEF Segment, Maps
<1>2. \A i \in 1..s : o[i] \in 1..s
  BY DEF Maps
<1>3. OnSegment(o, seg) = [i \in 1..s |-> seg[o[i]]]
  BY <1>1 DEF OnSegment
<1> QED
  BY <1>1, <1>2, <1>3 DEF Route

LEMMA CostOnSegment ==
    ASSUME NEW m, NEW n, NEW seg, NEW s, Segment(m, n, seg, s), NEW o \in Maps(s)
    PROVE  pathCost(Submatrix(m, seg), o) = pathCost(m, OnSegment(o, seg))
<1> DEFINE sub == Submatrix(m, seg)
           q == OnSegment(o, seg)
<1>1. Matrix(m, n) /\ s \in Nat \ {0}
  BY DEF Segment
<1>2. Matrix(sub, s) /\ \A i, j \in 1..s : sub[i][j] = m[seg[i]][seg[j]]
  BY SubmatrixIs
<1>3. Route(q, s, n) /\ \A i \in 1..s : q[i] = seg[o[i]]
  BY OnSegmentIs
<1>4. Route(o, s, s)
  BY <1>1 DEF Maps, Route
<1> HIDE DEF sub, q
<1>5. PICK c : Sums(c, sub, o, s) /\ pathCost(sub, o) = c[s]
  BY <1>2, <1>4, CostSums
<1>6. PICK d : Sums(d, m, q, s) /\ pathCost(m, q) = d[s]
  BY <1>1, <1>3, CostSums
<1> DEFINE T == {i \in 1..s : c[i] = d[i]}
<1>7. 1 \in T
  BY <1>1, <1>5, <1>6 DEF Sums
<1>8. ASSUME NEW i \in (1 + 1)..s, i - 1 \in T PROVE i \in T
  <2>1. i \in 2..s /\ i \in 1..s /\ i - 1 \in 1..s
    BY <1>1
  <2>2. c[i] = c[i - 1] + sub[o[i - 1]][o[i]] /\ d[i] = d[i - 1] + m[q[i - 1]][q[i]]
    BY <1>5, <1>6, <2>1 DEF Sums
  <2>3. o[i - 1] \in 1..s /\ o[i] \in 1..s
    BY <2>1 DEF Maps
  <2>4. sub[o[i - 1]][o[i]] = m[q[i - 1]][q[i]]
    BY <1>2, <1>3, <2>1, <2>3
  <2>5. c[i] = d[i]
    BY <1>8, <2>2, <2>4
  <2> QED
    BY <2>1, <2>5
<1> HIDE DEF T
<1>9. 1 \in Int /\ s \in Int /\ s \in 1..s
  BY <1>1
<1>10. 1..s \subseteq T
  BY <1>7, <1>8, <1>9, Upwards
<1>11. c[s] = d[s]
  BY <1>9, <1>10 DEF T
<1> QED
  BY <1>5, <1>6, <1>11 DEF sub, q

\* The order of a segment is one of all its stops.
OrderOf(q, seg, s) == \E o : Perm(o, s) /\ q = OnSegment(o, seg)

SolutionOf(x, n, seg, s) ==
    /\ x.entry \in 1..n /\ x.exit \in 1..n /\ x.cost \in Nat
    /\ OrderOf(x.order, seg, s)

\* Entry and exit are the ends and the cost is that of the order.
TrueSolution(x, m, s) ==
    /\ x.entry = x.order[1] /\ x.exit = x.order[s]
    /\ x.cost = pathCost(m, x.order)

\* No order of the segment costs less than a solution with its ends.
Covered(S, m, seg, s) ==
    \A q : OrderOf(q, seg, s) =>
        \E x \in S : x.entry = q[1] /\ x.exit = q[s] /\ x.cost <= pathCost(m, q)

LEMMA SolutionIs ==
    ASSUME NEW m, NEW n, NEW seg, NEW s, Segment(m, n, seg, s), NEW entry \in 1..s,
           NEW exit \in 1..s, NEW path, path.cost \in Nat, Perm(path.order, s)
    PROVE  /\ SolutionOf(Solution(entry, exit, path, seg), n, seg, s)
           /\ path.order[1] = entry /\ path.order[s] = exit
              /\ path.cost = pathCost(Submatrix(m, seg), path.order)
              => TrueSolution(Solution(entry, exit, path, seg), m, s)
<1> DEFINE x == Solution(entry, exit, path, seg)
<1>1. /\ x.entry = seg[entry] /\ x.exit = seg[exit] /\ x.cost = path.cost
      /\ x.order = OnSegment(path.order, seg)
  BY DEF Solution
<1>2. seg[entry] \in 1..n /\ seg[exit] \in 1..n /\ 1 \in 1..s /\ s \in 1..s
  BY DEF Segment
<1>3. path.order \in Maps(s)
  BY DEF Perm, Maps
<1>4. /\ x.order[1] = seg[path.order[1]] /\ x.order[s] = seg[path.order[s]]
      /\ pathCost(m, x.order) = pathCost(Submatrix(m, seg), path.order)
  BY <1>1, <1>2, <1>3, OnSegmentIs, CostOnSegment
<1> HIDE DEF x
<1>5. SolutionOf(x, n, seg, s)
  BY <1>1, <1>2 DEF SolutionOf, OrderOf
<1>6. ASSUME path.order[1] = entry, path.order[s] = exit,
             path.cost = pathCost(Submatrix(m, seg), path.order)
      PROVE  TrueSolution(x, m, s)
  BY <1>1, <1>4, <1>6 DEF TrueSolution
<1> QED
  BY <1>5, <1>6 DEF x

\* One stop.
LEMMA SolutionOfOne ==
    ASSUME NEW m, NEW n, NEW seg, Segment(m, n, seg, 1), NEW limits
    PROVE  LET S == computeSegmentSolutions(m, seg, limits)
           IN  /\ \A x \in S : SolutionOf(x, n, seg, 1) /\ TrueSolution(x, m, 1)
               /\ Covered(S, m, seg, 1)
<1> DEFINE path == [cost |-> 0, order |-> <<1>>]
           x == Solution(1, 1, path, seg)
           S == computeSegmentSolutions(m, seg, limits)
<1>1. S = {x}
  <2>1. seg \in [1..1 -> 1..n] /\ 1 \in Nat \ {0}
    BY DEF Segment
  <2>2. Len(seg) = 1
    BY <2>1, Length
  <2> QED
    BY <2>2 DEF computeSegmentSolutions
<1>2. Perm(<<1>>, 1) /\ <<1>> \in Maps(1) /\ 1 \in 1..1 /\ path.cost = 0 /\ path.order = <<1>>
  BY DEF Perm, Maps
<1>3. pathCost(Submatrix(m, seg), <<1>>) = 0
  <2>1. Matrix(Submatrix(m, seg), 1)
    BY SubmatrixIs
  <2>2. Route(<<1>>, 1, 1)
    BY DEF Route
  <2> QED
    BY <2>1, <2>2, CostOfOne
<1>4. path.cost \in Nat /\ Perm(path.order, 1)
  BY <1>2
<1>5. /\ path.order[1] = 1
      /\ path.cost = pathCost(Submatrix(m, seg), path.order)
  BY <1>2, <1>3
<1> HIDE DEF path
<1>6. SolutionOf(x, n, seg, 1) /\ TrueSolution(x, m, 1)
  BY <1>2, <1>4, <1>5, SolutionIs
<1>7. x.order = OnSegment(<<1>>, seg) /\ x.cost = 0
  BY <1>2 DEF Solution
<1> HIDE DEF x, S
<1>8. ASSUME NEW q, OrderOf(q, seg, 1)
      PROVE  x.entry = q[1] /\ x.exit = q[1] /\ x.cost <= pathCost(m, q)
  <2>1. PICK o : Perm(o, 1) /\ q = OnSegment(o, seg)
    BY <1>8 DEF OrderOf
  <2>2. o \in Maps(1) /\ o = <<1>>
    BY <2>1 DEF Perm, Maps
  <2>3. q = x.order
    BY <1>7, <2>1, <2>2
  <2>4. Matrix(m, n) /\ Route(q, 1, n)
    BY <2>1, <2>2, OnSegmentIs DEF Segment
  <2>5. pathCost(m, q) \in Nat
    BY <2>4, CostIsNatural
  <2> QED
    BY <1>6, <1>7, <2>3, <2>5 DEF TrueSolution
<1> QED
  BY <1>1, <1>6, <1>8 DEF Covered, S

\* Entry and exit are chosen: as many solutions as pairs of them.
LEMMA SolutionsOfPairs ==
    ASSUME NEW m, NEW n, NEW seg, NEW s, Segment(m, n, seg, s), s # 1, NEW limits,
           limits.tour \in Int, limits.segment \in Int,
           s <= limits.segment
    PROVE  LET S == computeSegmentSolutions(m, seg, limits)
           IN  /\ \A x \in S : SolutionOf(x, n, seg, s)
               /\ s # 2 => (\A x \in S : TrueSolution(x, m, s)) /\ Covered(S, m, seg, s)
<1> DEFINE sub == Submatrix(m, seg)
           S == computeSegmentSolutions(m, seg, limits)
           path(a, b) == heldKarp(sub, a, b)
           x(a, b) == Solution(a, b, path(a, b), seg)
<1>1. s \in Nat \ {0} /\ Matrix(sub, s) /\ Len(seg) = s /\ 1 \in 1..s /\ s \in 1..s
  BY SubmatrixIs DEF Segment
<1>2. S = {x(p[1], p[2]) : p \in {q \in (1..s) \X (1..s) : q[1] # q[2]}}
  BY <1>1 DEF computeSegmentSolutions
<1>3. /\ \A y \in S : \E a, b \in 1..s : a # b /\ y = x(a, b)
      /\ \A a, b \in 1..s : a # b => x(a, b) \in S
  <2>1. ASSUME NEW y \in S PROVE \E a, b \in 1..s : a # b /\ y = x(a, b)
    <3>1. PICK p \in {q \in (1..s) \X (1..s) : q[1] # q[2]} : y = x(p[1], p[2])
      BY <1>2
    <3>2. p[1] \in 1..s /\ p[2] \in 1..s /\ p[1] # p[2]
      BY <3>1
    <3> QED
      BY <3>1, <3>2
  <2>2. ASSUME NEW a \in 1..s, NEW b \in 1..s, a # b PROVE x(a, b) \in S
    <3>1. <<a, b>> \in {q \in (1..s) \X (1..s) : q[1] # q[2]} /\ <<a, b>>[1] = a /\ <<a, b>>[2] = b
      BY <2>2
    <3> QED
      BY <1>2, <3>1
  <2> QED
    BY <2>1, <2>2
<1>4. CASE s = 2
  <2>1. ASSUME NEW a \in 1..2, NEW b \in 1..2, a # b PROVE SolutionOf(x(a, b), n, seg, 2)
    <3>1. path(a, b) = [cost |-> sub[1][2], order |-> <<1, 2>>]
      <4> HIDE DEF sub
      <4>1. Len(sub) = 2
        BY <1>1, <1>4, MatrixSize
      <4> QED
        BY <4>1 DEF heldKarp
    <3>2. Perm(<<1, 2>>, 2)
      BY DEF Perm
    <3>3. sub[1][2] \in Nat
      <4> HIDE DEF sub
      <4>1. 1 \in 1..s /\ 2 \in 1..s
        BY <1>4
      <4> QED
        BY <1>1, <4>1, MatrixSize
    <3> HIDE DEF sub
    <3>4. path(a, b).cost \in Nat /\ Perm(path(a, b).order, 2)
      BY <3>1, <3>2, <3>3
    <3> HIDE DEF path
    <3> QED
      BY <1>4, <3>4, SolutionIs
  <2> HIDE DEF x, S
  <2> QED
    BY <1>3, <1>4, <2>1 DEF S
<1>5. CASE s # 2
  <2>1. ASSUME NEW a \in 1..s, NEW b \in 1..s, a # b
        PROVE  /\ ShortestTour(sub, s, path(a, b).order, a, b)
               /\ path(a, b).cost = pathCost(sub, path(a, b).order)
    <3>1. b \in {None} \cup ((1..s) \ {a})
      BY <2>1
    <3>2. s \notin {1, 2}
      BY <1>5
    <3> HIDE DEF sub
    <3> QED
      BY <1>1, <3>1, <3>2, heldKarpIsExact
  <2>2. ASSUME NEW a \in 1..s, NEW b \in 1..s, a # b
        PROVE  SolutionOf(x(a, b), n, seg, s) /\ TrueSolution(x(a, b), m, s)
    <3> DEFINE o == path(a, b).order
    <3>1. /\ Perm(o, s) /\ o[1] = a /\ (b # None => o[s] = b)
          /\ path(a, b).cost = pathCost(sub, o)
      BY <2>1, <2>2 DEF ShortestTour, KeepsTo
    <3>2. o[s] = b
      BY <3>1 DEF None
    <3>3. Route(o, s, s)
      BY <1>1, <3>1 DEF Perm, Route
    <3>4. path(a, b).cost \in Nat
      <4> HIDE DEF sub, o
      <4> QED
        BY <1>1, <3>1, <3>3, CostIsNatural
    <3> HIDE DEF path
    <3> QED
      BY <3>1, <3>2, <3>4, SolutionIs
  <2>3. ASSUME NEW q, OrderOf(q, seg, s)
        PROVE  \E y \in S : y.entry = q[1] /\ y.exit = q[s] /\ y.cost <= pathCost(m, q)
    <3>1. PICK o : Perm(o, s) /\ q = OnSegment(o, seg)
      BY <2>3 DEF OrderOf
    <3>2. o \in Maps(s) /\ o[1] \in 1..s /\ o[s] \in 1..s /\ o[1] # o[s]
      BY <1>1, <3>1 DEF Perm, Maps
    <3> DEFINE y == x(o[1], o[s])
    <3>3. y \in S
      BY <1>3, <3>2
    <3>4. y.entry = seg[o[1]] /\ y.exit = seg[o[s]] /\ y.cost = path(o[1], o[s]).cost
      BY DEF Solution
    <3>5. q[1] = seg[o[1]] /\ q[s] = seg[o[s]] /\ pathCost(m, q) = pathCost(sub, o)
      BY <1>1, <3>1, <3>2, OnSegmentIs, CostOnSegment
    <3>6. KeepsTo(o, s, o[1], o[s])
      BY <3>1 DEF KeepsTo
    <3>7. path(o[1], o[s]).cost <= pathCost(sub, o)
      <4> HIDE DEF path, sub
      <4> QED
        BY <2>1, <3>2, <3>6 DEF ShortestTour
    <3> HIDE DEF y, S, path, sub, x
    <3> QED
      BY <3>3, <3>4, <3>5, <3>7
  <2> HIDE DEF x, S
  <2> QED
    BY <1>3, <2>2, <2>3 DEF S, Covered
<1> QED
  BY <1>4, <1>5

\* Beyond the limit of a segment there is one tour and the way back, whether that
\* tour is exact or not.
LEMMA SolutionsBeyond ==
    ASSUME NEW m, NEW n, NEW seg, NEW s, Segment(m, n, seg, s), s # 1, NEW limits,
           limits.tour \in Int, limits.segment \in Int,
           s > limits.segment
    PROVE  \A x \in computeSegmentSolutions(m, seg, limits) : SolutionOf(x, n, seg, s)
<1> DEFINE sub == Submatrix(m, seg)
           one == solveOrder(sub, FALSE, FALSE, limits.tour)
           there == [cost |-> pathCost(sub, one), order |-> one]
           back == [cost |-> pathCost(sub, Reverse(one)), order |-> Reverse(one)]
<1>1. s \in Nat \ {0} /\ Matrix(sub, s) /\ Len(seg) = s /\ 1 \in 1..s /\ s \in 1..s
  BY SubmatrixIs DEF Segment
<1>2. ~(s <= limits.segment)
  BY <1>1
<1>3. computeSegmentSolutions(m, seg, limits) =
        {Solution(Head(one), Last(one), there, seg), Solution(Last(one), Head(one), back, seg)}
  BY <1>1, <1>2 DEF computeSegmentSolutions
<1>4. Perm(one, s)
  <2> HIDE DEF sub
  <2> DEFINE limit == limits.tour
  <2>0. limit \in Int /\ one = solveOrder(sub, FALSE, FALSE, limit)
    OBVIOUS
  <2> HIDE DEF limit, one
  <2>1. CASE s > limit
    <3>1. Improved(sub, s, nearestNeighbor(sub, 1, FixedEnd(FALSE, s)), one, FALSE)
      BY <1>1, <2>0, <2>1, solveOrderImproves
    <3> QED
      BY <3>1 DEF Improved, KeepsTo
  <2>2. CASE s <= limit /\ s # 2
    <3>1. s \notin {1, 2}
      BY <2>2
    <3>2. Wanted(one, s, FALSE, FALSE)
      BY <1>1, <2>0, <2>2, <3>1, solveOrderIsExact
    <3> QED
      BY <3>2 DEF Wanted
  <2>3. CASE s <= limit /\ s = 2
    <3>1. Matrix(sub, 2) /\ 2 <= limit
      BY <1>1, <2>3
    <3>2. one = <<1, 2>>
      BY <2>0, <3>1, PairsAnswered
    <3>3. Perm(<<1, 2>>, 2)
      BY DEF Perm
    <3> QED
      BY <2>3, <3>2, <3>3
  <2>4. s > limit \/ s <= limit
    BY <1>1, <2>0
  <2> QED
    BY <2>1, <2>2, <2>3, <2>4
<1> HIDE DEF sub, one
<1>5. one \in Seq(1..s) /\ Len(one) = s /\ one[1] \in 1..s /\ one[s] \in 1..s
  <2>1. one \in [1..s -> 1..s]
    BY <1>4 DEF Perm
  <2> QED
    BY <1>1, <2>1, Length
<1>6. Head(one) \in 1..s /\ Last(one) \in 1..s
  <2>1. Head(one) = one[1]
    BY <1>1, <1>5
  <2>2. Last(one) = one[s]
    BY <1>5 DEF Last
  <2> QED
    BY <1>5, <2>1, <2>2
<1>7. Perm(Reverse(one), s)
  <2>1. Reverse(one) = Turned(one, s)
    BY <1>1, <1>5, ReverseIsTurned
  <2> QED
    BY <1>1, <1>4, <2>1, TurnedPerm
<1>8. \A o : Perm(o, s) => pathCost(sub, o) \in Nat
  BY <1>1, CostIsNatural DEF Perm, Route
<1>9. there.cost \in Nat /\ there.order = one /\ back.cost \in Nat /\ back.order = Reverse(one)
  BY <1>4, <1>7, <1>8
<1> HIDE DEF there, back
<1>10. SolutionOf(Solution(Head(one), Last(one), there, seg), n, seg, s)
  <2>1. Perm(there.order, s)
    BY <1>4, <1>9
  <2> QED
    BY <1>6, <1>9, <2>1, SolutionIs
<1>11. SolutionOf(Solution(Last(one), Head(one), back, seg), n, seg, s)
  <2>1. Perm(back.order, s)
    BY <1>7, <1>9
  <2> QED
    BY <1>6, <1>9, <2>1, SolutionIs
<1> QED
  BY <1>3, <1>10, <1>11

\* Every solution is an order of the segment, and up to the limit of a segment, but for two
\* stops, there is a best one between any two ends.
LEMMA SolutionsAre ==
    ASSUME NEW m, NEW n, NEW seg, NEW s, Segment(m, n, seg, s), NEW limits,
           limits.tour \in Int, limits.segment \in Int
    PROVE  LET S == computeSegmentSolutions(m, seg, limits)
           IN  /\ \A x \in S : SolutionOf(x, n, seg, s)
               /\ s # 2 /\ s <= limits.segment =>
                    (\A x \in S : TrueSolution(x, m, s)) /\ Covered(S, m, seg, s)
<1>1. CASE s = 1
  BY <1>1, SolutionOfOne
<1>2. CASE s # 1 /\ s <= limits.segment
  BY <1>2, SolutionsOfPairs
<1>3. CASE s # 1 /\ s > limits.segment
  <2>1. ~(s <= limits.segment)
    BY <1>3 DEF Segment
  <2> QED
    BY <1>3, <2>1, SolutionsBeyond
<1> QED
  BY <1>1, <1>2, <1>3 DEF Segment

\* What a loop over the paths keeps of them: a best one for each last stop.
LEMMA CheapestPerExitIs ==
    ASSUME NEW S, \A x \in S : x.cost \in Nat
    PROVE  /\ CheapestPerExit(S) \subseteq S
           /\ \A x \in S : \E y \in CheapestPerExit(S) : y.exit = x.exit /\ y.cost <= x.cost
<1> DEFINE With(e) == {x \in S : x.exit = e}
<1>1. \A y : y \in CheapestPerExit(S) <=> \E x \in S : y \in Cheapest(With(x.exit))
  BY DEF CheapestPerExit
<1>2. \A e, y : y \in Cheapest(With(e)) <=>
        y \in S /\ y.exit = e /\ \A z \in S : z.exit = e => y.cost <= z.cost
  BY DEF Cheapest
<1>3. ASSUME NEW x \in S
      PROVE  \E y \in S : y.exit = x.exit /\ \A z \in S : z.exit = x.exit => y.cost <= z.cost
  <2> DEFINE D == With(x.exit)
             r == [y \in D |-> y.cost]
  <2>1. D # {} /\ \A y \in D : r[y] \in Nat /\ r[y] = y.cost
    OBVIOUS
  <2> HIDE DEF r
  <2>2. \E y \in D : \A z \in D : r[y] <= r[z]
    <3> HIDE DEF D
    <3> QED
      BY <2>1, LeastMeasure
  <2> QED
    BY <2>1, <2>2
<1> HIDE DEF With
<1>4. CheapestPerExit(S) \subseteq S
  BY <1>1, <1>2
<1>5. ASSUME NEW x \in S PROVE \E y \in CheapestPerExit(S) : y.exit = x.exit /\ y.cost <= x.cost
  <2>1. PICK y \in S : y.exit = x.exit /\ \A z \in S : z.exit = x.exit => y.cost <= z.cost
    BY <1>3
  <2>2. y \in Cheapest(With(x.exit))
    BY <1>2, <2>1
  <2>3. y \in CheapestPerExit(S)
    BY <1>1, <2>2
  <2>4. y.cost <= x.cost
    BY <2>1
  <2> QED
    BY <2>1, <2>3, <2>4
<1> QED
  BY <1>4, <1>5

\* q is a, then b.
JoinOf(q, a, k, b, l) ==
    /\ \A i \in 1..k : q[i] = a[i]
    /\ \A j \in 1..l : q[k + j] = b[j]

LEMMA ConcatIs ==
    ASSUME NEW n, NEW k, NEW l, NEW a, NEW b, Route(a, k, n), Route(b, l, n)
    PROVE  Route(a \o b, k + l, n) /\ JoinOf(a \o b, a, k, b, l)
<1>1. /\ k \in Nat \ {0} /\ Len(a) = k /\ a \in Seq(1..n)
      /\ l \in Nat \ {0} /\ Len(b) = l /\ b \in Seq(1..n)
  BY RouteSize
<1>2. a \o b \in Seq(1..n) /\ Len(a \o b) = k + l
  BY <1>1
<1>3. a \o b \in [1..(k + l) -> 1..n]
  <2> DEFINE q == a \o b
  <2>1. q \in Seq(1..n) /\ Len(q) = k + l
    BY <1>2
  <2> HIDE DEF q
  <2>2. q \in [1..Len(q) -> 1..n]
    BY <2>1, LenProperties
  <2>3. q \in [1..(k + l) -> 1..n]
    BY <2>1, <2>2
  <2> QED
    BY <2>3 DEF q
<1>4. \A i \in 1..k : (a \o b)[i] = a[i]
  BY <1>1
<1>5. \A j \in 1..l : (a \o b)[k + j] = b[j]
  BY <1>1
<1> QED
  BY <1>1, <1>3, <1>4, <1>5 DEF Route, JoinOf

LEMMA CostOfJoin ==
    ASSUME NEW m, NEW n, Matrix(m, n), NEW k, NEW l, NEW a, NEW b, NEW q,
           Route(a, k, n), Route(b, l, n), Route(q, k + l, n), JoinOf(q, a, k, b, l)
    PROVE  /\ pathCost(m, a) \in Nat /\ m[a[k]][b[1]] \in Nat /\ pathCost(m, b) \in Nat
           /\ pathCost(m, q) = pathCost(m, a) + m[a[k]][b[1]] + pathCost(m, b)
<1>1. k \in Nat \ {0} /\ l \in Nat \ {0} /\ k \in 1..k /\ l \in 1..l /\ 1 \in 1..l
  BY DEF Route
<1>2. m[a[k]][b[1]] \in Nat
  <2>1. a[k] \in 1..n /\ b[1] \in 1..n
    BY <1>1 DEF Route
  <2> QED
    BY <2>1, MatrixSize
<1>3. PICK c : Sums(c, m, q, k + l) /\ pathCost(m, q) = c[k + l]
  BY CostSums
<1>4. PICK d : Sums(d, m, a, k) /\ pathCost(m, a) = d[k]
  BY CostSums
<1>5. PICK e : Sums(e, m, b, l) /\ pathCost(m, b) = e[l]
  BY CostSums
<1>6. d[k] \in Nat /\ \A j \in 1..l : e[j] \in Nat
  BY <1>1, <1>4, <1>5 DEF Sums
<1>7. c[k] = d[k]
  <2>1. Sums(c, m, q, k)
    BY <1>1, <1>3 DEF Sums
  <2>2. \A i \in 1..k : q[i] = a[i]
    BY DEF JoinOf
  <2>3. k \in Nat \ {0}
    BY <1>1
  <2> QED
    BY <1>4, <2>1, <2>2, <2>3, SameSums
<1> DEFINE T == {j \in 1..l : c[k + j] = d[k] + m[a[k]][b[1]] + e[j]}
<1>8. 1 \in T
  <2>1. k + 1 \in 2..(k + l) /\ (k + 1) - 1 = k
    BY <1>1
  <2>2. c[k + 1] = c[k] + m[q[k]][q[k + 1]]
    BY <1>3, <2>1 DEF Sums
  <2>3. q[k] = a[k] /\ q[k + 1] = b[1]
    BY <1>1 DEF JoinOf
  <2>4. e[1] = 0
    BY <1>5 DEF Sums
  <2>5. c[k + 1] = d[k] + m[a[k]][b[1]] + e[1]
    BY <1>2, <1>6, <1>7, <2>2, <2>3, <2>4
  <2> QED
    BY <1>1, <2>5
<1>9. ASSUME NEW j \in (1 + 1)..l, j - 1 \in T PROVE j \in T
  <2>1. /\ j \in 2..l /\ j \in 1..l /\ j - 1 \in 1..l
        /\ k + j \in 2..(k + l) /\ (k + j) - 1 = k + (j - 1)
    BY <1>1
  <2>2. c[k + j] = c[k + (j - 1)] + m[q[k + (j - 1)]][q[k + j]]
    BY <1>3, <2>1 DEF Sums
  <2>3. q[k + (j - 1)] = b[j - 1] /\ q[k + j] = b[j]
    BY <2>1 DEF JoinOf
  <2>4. e[j] = e[j - 1] + m[b[j - 1]][b[j]]
    BY <1>5, <2>1 DEF Sums
  <2>5. m[b[j - 1]][b[j]] \in Nat
    <3>1. b[j - 1] \in 1..n /\ b[j] \in 1..n
      BY <2>1 DEF Route
    <3> QED
      BY <3>1, MatrixSize
  <2>6. c[k + (j - 1)] = d[k] + m[a[k]][b[1]] + e[j - 1]
    BY <1>9
  <2>7. e[j - 1] \in Nat
    BY <1>6, <2>1
  <2>8. c[k + j] = d[k] + m[a[k]][b[1]] + e[j]
    BY <1>2, <1>6, <2>2, <2>3, <2>4, <2>5, <2>6, <2>7
  <2> QED
    BY <2>1, <2>8
<1> HIDE DEF T
<1>10. 1 \in Int /\ l \in Int
  BY <1>1
<1>11. 1..l \subseteq T
  BY <1>8, <1>9, <1>10, Upwards
<1>12. c[k + l] = d[k] + m[a[k]][b[1]] + e[l]
  BY <1>1, <1>11 DEF T
<1> QED
  BY <1>1, <1>2, <1>3, <1>4, <1>5, <1>6, <1>12

\* Stop j of segment i, and an order of the stops of segment i.
BlockSegment(off, sizes, i) == [j \in 1..sizes[i] |-> off[i] + j]

Shuffled(r, off, sizes, i) ==
    /\ r \in [1..sizes[i] -> Block(off, i)]
    /\ \A x, y \in 1..sizes[i] : r[x] = r[y] => x = y

LEMMA BlockSegmentIs ==
    ASSUME NEW off, NEW sizes, NEW k, Counts(off, sizes, k), NEW i \in 1..k,
           NEW m, Matrix(m, off[k + 1])
    PROVE  /\ Segment(m, off[k + 1], BlockSegment(off, sizes, i), sizes[i])
           /\ \A r : OrderOf(r, BlockSegment(off, sizes, i), sizes[i]) <=> Shuffled(r, off, sizes, i)
<1> DEFINE seg == BlockSegment(off, sizes, i)
           s == sizes[i]
           n == off[k + 1]
<1>1. /\ off[i] \in Nat /\ off[i + 1] \in Nat /\ s \in Nat \ {0} /\ off[i + 1] = off[i] + s
      /\ Block(off, i) \subseteq 1..n
  BY BlockNumbers
<1>2. seg = [j \in 1..s |-> off[i] + j] /\ Block(off, i) = (off[i] + 1)..(off[i] + s)
  BY <1>1 DEF BlockSegment, Block
<1>3. seg \in [1..s -> Block(off, i)] /\ \A j \in 1..s : seg[j] = off[i] + j
  BY <1>1, <1>2
<1>4. Segment(m, n, seg, s)
  BY <1>1, <1>3 DEF Segment
<1>0. off[i] \in Nat /\ s \in Nat
  BY <1>1
<1> HIDE DEF seg, s
<1>5. ASSUME NEW r, NEW o, Perm(o, s), r = OnSegment(o, seg) PROVE Shuffled(r, off, sizes, i)
  <2>1. o \in [1..s -> 1..s] /\ \A x, y \in 1..s : o[x] = o[y] => x = y
    BY <1>5 DEF Perm
  <2>2. r = [j \in 1..s |-> seg[o[j]]]
    BY <1>5, <2>1 DEF OnSegment
  <2>3. r \in [1..s -> Block(off, i)]
    BY <1>3, <2>1, <2>2
  <2>4. ASSUME NEW x \in 1..s, NEW y \in 1..s, r[x] = r[y] PROVE x = y
    <3>1. o[x] \in 1..s /\ o[y] \in 1..s
      BY <2>1
    <3>2. r[x] = off[i] + o[x] /\ r[y] = off[i] + o[y]
      BY <1>3, <2>2, <3>1
    <3>3. \A a, b \in 1..s : off[i] + a = off[i] + b => a = b
      BY <1>0
    <3>4. o[x] = o[y]
      BY <2>4, <3>1, <3>2, <3>3
    <3> QED
      BY <2>1, <3>4
  <2> QED
    BY <2>3, <2>4 DEF Shuffled, s
<1>6. ASSUME NEW r, Shuffled(r, off, sizes, i) PROVE \E o : Perm(o, s) /\ r = OnSegment(o, seg)
  <2> DEFINE o == [j \in 1..s |-> r[j] - off[i]]
  <2>1. r \in [1..s -> Block(off, i)] /\ \A x, y \in 1..s : r[x] = r[y] => x = y
    BY <1>6 DEF Shuffled, s
  <2>2. \A j \in 1..s : r[j] \in Int /\ r[j] - off[i] \in 1..s
    <3> TAKE j \in 1..s
    <3>1. r[j] \in (off[i] + 1)..(off[i] + s)
      BY <1>2, <2>1
    <3> HIDE DEF o
    <3> QED
      BY <1>0, <3>1
  <2>3. o \in [1..s -> 1..s] /\ \A j \in 1..s : o[j] = r[j] - off[i]
    BY <2>2
  <2> HIDE DEF o
  <2>4. \A x, y \in 1..s : o[x] = o[y] => x = y
    <3> SUFFICES ASSUME NEW x \in 1..s, NEW y \in 1..s, o[x] = o[y] PROVE x = y
      OBVIOUS
    <3>1. r[x] \in Int /\ r[y] \in Int /\ o[x] = r[x] - off[i] /\ o[y] = r[y] - off[i]
      BY <2>2, <2>3
    <3>2. \A a, b \in Int : a - off[i] = b - off[i] => a = b
      BY <1>0
    <3>3. r[x] = r[y]
      BY <3>1, <3>2
    <3> QED
      BY <2>1, <3>3
  <2>5. \A j \in 1..s : seg[o[j]] = r[j]
    <3> TAKE j \in 1..s
    <3>1. o[j] \in 1..s /\ o[j] = r[j] - off[i] /\ r[j] \in Int
      BY <2>2, <2>3
    <3>2. seg[o[j]] = off[i] + o[j]
      BY <1>3, <3>1
    <3> QED
      BY <1>1, <3>1, <3>2
  <2>6. DOMAIN o = 1..s
    BY <2>3
  <2>7. OnSegment(o, seg) = [j \in 1..s |-> r[j]]
    BY <2>5, <2>6 DEF OnSegment
  <2>8. r = [j \in 1..s |-> r[j]]
    BY <2>1
  <2> QED
    BY <2>3, <2>4, <2>7, <2>8 DEF Perm
<1> QED
  BY <1>4, <1>5, <1>6 DEF OrderOf, seg, s

\* The first segment.
LEMMA BlockedFirst ==
    ASSUME NEW off, NEW sizes, NEW k, Counts(off, sizes, k), NEW o
    PROVE  Blocked(o, off, 1) <=> Shuffled(o, off, sizes, 1)
<1>1. 1 \in 1..k
  BY DEF Counts
<1>2. off[1 + 1] = sizes[1] /\ Block(off, 1) = 1..sizes[1] /\ sizes[1] \in Nat
  <2>1. off[1] = 0
    BY DEF Counts
  <2> QED
    BY <1>1, <2>1, BlockNumbers DEF Block
<1>3. 1..1 = {1} /\ 1 + 1 = 2
  OBVIOUS
<1>4. Blocked(o, off, 1) <=>
        Perm(o, sizes[1]) /\ \A p \in 1..sizes[1] : o[p] \in 1..sizes[1]
  BY <1>2, <1>3 DEF Blocked
<1> QED
  BY <1>2, <1>4 DEF Perm, Shuffled

\* An order of i segments is one of i - 1, and then one of the last.
Rest(q, off, sizes, i) == [j \in 1..sizes[i] |-> q[off[i] + j]]

LEMMA BlockedSplit ==
    ASSUME NEW off, NEW sizes, NEW k, Counts(off, sizes, k), NEW i \in 2..k,
           NEW q, Blocked(q, off, i)
    PROVE  /\ Blocked(Shortened(q, off[i] + 1), off, i - 1)
           /\ Shuffled(Rest(q, off, sizes, i), off, sizes, i)
           /\ JoinOf(q, Shortened(q, off[i] + 1), off[i], Rest(q, off, sizes, i), sizes[i])
<1> DEFINE a == Shortened(q, off[i] + 1)
           b == Rest(q, off, sizes, i)
<1>0. k \in Nat /\ i \in 1..k /\ i - 1 \in 1..k
  BY DEF Counts
<1>1. i \in 1..k /\ i - 1 \in 1..k /\ (i - 1) + 1 = i /\ i \in Int
  BY <1>0
<1>2. /\ off[i] \in Nat \ {0} /\ off[i + 1] \in Nat /\ sizes[i] \in Nat \ {0}
      /\ off[i + 1] = off[i] + sizes[i]
  BY <1>1, BlockNumbers
<1>3. /\ q \in [1..off[i + 1] -> 1..off[i + 1]]
      /\ \A x, y \in 1..off[i + 1] : q[x] = q[y] => x = y
      /\ \A h \in 1..i : \A p \in Block(off, h) : q[p] \in Block(off, h)
  BY DEF Blocked, Perm
<1>4. a = [x \in 1..off[i] |-> q[x]]
  BY <1>2 DEF Shortened
<1>5. 1..off[i] \subseteq 1..off[i + 1]
  BY <1>2
<1>6. \A h \in 1..(i - 1) : h \in 1..i /\ Block(off, h) \subseteq 1..off[i]
  <2> TAKE h \in 1..(i - 1)
  <2>1. h \in 1..k /\ h \in 1..i /\ h + 1 \in 1..(k + 1) /\ i \in (h + 1)..(k + 1)
    BY <1>0
  <2>2. off[h + 1] \in Nat /\ off[h + 1] <= off[i]
    BY <2>1, CountsAscend
  <2>3. Block(off, h) \subseteq 1..off[h + 1]
    BY <2>1, BlockNumbers
  <2> QED
    BY <1>2, <2>1, <2>2, <2>3
<1>7. ASSUME NEW p \in 1..off[i] PROVE q[p] \in 1..off[i]
  <2>1. Counts(off, sizes, i - 1)
    BY <1>1 DEF Counts
  <2>2. p \in 1..off[(i - 1) + 1]
    BY <1>1
  <2>3. PICK h \in 1..(i - 1) : p \in Block(off, h)
    BY <2>1, <2>2, BlockExists
  <2> QED
    BY <1>3, <1>6, <2>3
<1>8. Blocked(a, off, i - 1)
  <2>1. \A x \in 1..off[i] : a[x] = q[x]
    BY <1>4
  <2>2. a \in [1..off[i] -> 1..off[i]]
    BY <1>4, <1>7
  <2> HIDE DEF a
  <2>3. \A x, y \in 1..off[i] : a[x] = a[y] => x = y
    BY <1>3, <1>5, <2>1
  <2>4. \A h \in 1..(i - 1) : \A p \in Block(off, h) : a[p] \in Block(off, h)
    BY <1>3, <1>6, <2>1
  <2> QED
    BY <1>1, <2>2, <2>3, <2>4 DEF Blocked, Perm
<1>9. \A j \in 1..sizes[i] : off[i] + j \in Block(off, i) /\ off[i] + j \in 1..off[i + 1]
  BY <1>2 DEF Block
<1>10. \A j \in 1..sizes[i] : b[j] = q[off[i] + j] /\ q[off[i] + j] \in Block(off, i)
  <2>1. i \in 1..i
    BY <1>1
  <2> QED
    BY <1>3, <1>9, <2>1 DEF Rest
<1>11. b = [j \in 1..sizes[i] |-> b[j]]
  BY DEF Rest
<1> HIDE DEF a, b
<1>12. Shuffled(b, off, sizes, i)
  <2>1. b \in [1..sizes[i] -> Block(off, i)]
    BY <1>10, <1>11
  <2>2. ASSUME NEW x \in 1..sizes[i], NEW y \in 1..sizes[i], b[x] = b[y] PROVE x = y
    <3>1. off[i] + x = off[i] + y
      BY <1>3, <1>9, <1>10, <2>2
    <3>2. off[i] \in Int /\ x \in Int /\ y \in Int
      BY <1>2
    <3> QED
      BY <3>1, <3>2
  <2> QED
    BY <2>1, <2>2 DEF Shuffled
<1>13. JoinOf(q, a, off[i], b, sizes[i])
  <2>1. \A x \in 1..off[i] : q[x] = a[x]
    BY <1>4 DEF a
  <2> QED
    BY <1>10, <2>1 DEF JoinOf
<1> QED
  BY <1>8, <1>12, <1>13 DEF a, b

LEMMA BlockedJoined ==
    ASSUME NEW off, NEW sizes, NEW k, Counts(off, sizes, k), NEW i \in 2..k,
           NEW a, Blocked(a, off, i - 1), NEW b, Shuffled(b, off, sizes, i),
           NEW q, q = [x \in 1..off[i + 1] |-> q[x]], JoinOf(q, a, off[i], b, sizes[i])
    PROVE  Blocked(q, off, i)
<1>0. k \in Nat /\ i \in 1..k /\ i - 1 \in 1..k
  BY DEF Counts
<1>1. i \in 1..k /\ i - 1 \in 1..k /\ (i - 1) + 1 = i /\ i \in Int
  BY <1>0
<1>2. /\ off[i] \in Nat \ {0} /\ off[i + 1] \in Nat /\ sizes[i] \in Nat \ {0}
      /\ off[i + 1] = off[i] + sizes[i]
  BY <1>1, BlockNumbers
<1>3. /\ a \in [1..off[i] -> 1..off[i]]
      /\ \A x, y \in 1..off[i] : a[x] = a[y] => x = y
      /\ \A h \in 1..(i - 1) : \A p \in Block(off, h) : a[p] \in Block(off, h)
  BY <1>1 DEF Blocked, Perm
<1>4. b \in [1..sizes[i] -> Block(off, i)] /\ \A x, y \in 1..sizes[i] : b[x] = b[y] => x = y
  BY DEF Shuffled
<1>5. \A x \in 1..off[i] : q[x] = a[x] /\ q[x] \in 1..off[i]
  BY <1>3 DEF JoinOf
<1>6. \A x \in Block(off, i) : /\ x - off[i] \in 1..sizes[i]
                               /\ q[x] = b[x - off[i]] /\ q[x] \in Block(off, i)
  <2> TAKE x \in Block(off, i)
  <2>1. x \in Int /\ x - off[i] \in 1..sizes[i] /\ off[i] + (x - off[i]) = x
    BY <1>2 DEF Block
  <2>2. q[off[i] + (x - off[i])] = b[x - off[i]]
    BY <2>1 DEF JoinOf
  <2> QED
    BY <1>4, <2>1, <2>2
<1>7. \A x \in 1..off[i + 1] : x \in 1..off[i] \/ x \in Block(off, i)
  BY <1>2 DEF Block
<1>8. 1..off[i] \subseteq 1..off[i + 1] /\ Block(off, i) \subseteq 1..off[i + 1]
  BY <1>2 DEF Block
<1>9. \A x \in Block(off, i) : x \notin 1..off[i]
  BY <1>2 DEF Block
<1>10. q \in [1..off[i + 1] -> 1..off[i + 1]]
  BY <1>5, <1>6, <1>7, <1>8
<1>11. ASSUME NEW x \in 1..off[i + 1], NEW y \in 1..off[i + 1], q[x] = q[y] PROVE x = y
  <2>1. CASE x \in 1..off[i] /\ y \in 1..off[i]
    BY <1>3, <1>5, <1>11, <2>1
  <2>2. CASE x \in Block(off, i) /\ y \in Block(off, i)
    <3>1. x - off[i] = y - off[i]
      BY <1>4, <1>6, <1>11, <2>2
    <3>2. off[i] \in Int /\ x \in Int /\ y \in Int
      BY <1>2
    <3> QED
      BY <3>1, <3>2
  <2>3. CASE x \in 1..off[i] /\ y \in Block(off, i)
    BY <1>5, <1>6, <1>9, <1>11, <2>3
  <2>4. CASE x \in Block(off, i) /\ y \in 1..off[i]
    BY <1>5, <1>6, <1>9, <1>11, <2>4
  <2> QED
    BY <1>7, <2>1, <2>2, <2>3, <2>4
<1>12. ASSUME NEW h \in 1..i, NEW p \in Block(off, h) PROVE q[p] \in Block(off, h)
  <2>1. CASE h = i
    BY <1>6, <2>1
  <2>2. CASE h # i
    <3>1. h \in 1..(i - 1) /\ h \in 1..k /\ h + 1 \in 1..(k + 1) /\ i \in (h + 1)..(k + 1)
      BY <1>0, <2>2
    <3>2. off[h + 1] \in Nat /\ off[h + 1] <= off[i]
      BY <3>1, CountsAscend
    <3>3. Block(off, h) \subseteq 1..off[h + 1]
      BY <3>1, BlockNumbers
    <3>4. p \in 1..off[i]
      BY <1>2, <3>2, <3>3
    <3> QED
      BY <1>3, <1>5, <3>1, <3>4
  <2> QED
    BY <2>1, <2>2
<1> QED
  BY <1>10, <1>11, <1>12 DEF Blocked, Perm

\* The chains of the first i segments, for each last stop one, each with the cost
\* of its order ("fine": when the segments are solved exactly) and none worse than
\* any order with its last stop.
Chain(off, n, i) ==
    {x \in [exit : 1..n, order : Maps(off[i + 1]), cost : Nat] : Blocked(x.order, off, i)}

TrueChain(x, m, off, i) ==
    x.exit = x.order[off[i + 1]] /\ x.cost = pathCost(m, x.order)

CoveredBy(v, m, off, i) ==
    \A q : Blocked(q, off, i) =>
        \E x \in v : x.exit = q[off[i + 1]] /\ x.cost <= pathCost(m, q)

Chains(m, off, n, fine, i) ==
    {v \in SUBSET Chain(off, n, i) :
        fine => (\A x \in v : TrueChain(x, m, off, i)) /\ CoveredBy(v, m, off, i)}

\* What is known of the solutions of segment i.
SegmentSolved(S, m, n, off, sizes, fine, i) ==
    /\ \A x \in S : SolutionOf(x, n, BlockSegment(off, sizes, i), sizes[i])
    /\ fine => /\ \A x \in S : TrueSolution(x, m, sizes[i])
               /\ Covered(S, m, BlockSegment(off, sizes, i), sizes[i])

\* Chaining keeps the best.
LEMMA BestKept ==
    ASSUME NEW off, NEW m, NEW n, NEW fine, NEW i, NEW C, C \in Chains(m, off, n, fine, i),
           \A x \in Chain(off, n, i) : pathCost(m, x.order) \in Nat
    PROVE  CheapestPerExit(C) \in Chains(m, off, n, fine, i)
<1>1. C \subseteq Chain(off, n, i)
  BY DEF Chains
<1>2. \A x \in C : x.cost \in Nat
  BY <1>1 DEF Chain
<1>3. /\ CheapestPerExit(C) \subseteq C
      /\ \A x \in C : \E y \in CheapestPerExit(C) : y.exit = x.exit /\ y.cost <= x.cost
  BY <1>2, CheapestPerExitIs
<1>4. ASSUME fine
      PROVE  /\ \A x \in CheapestPerExit(C) : TrueChain(x, m, off, i)
             /\ CoveredBy(CheapestPerExit(C), m, off, i)
  <2>1. \A x \in C : TrueChain(x, m, off, i)
    BY <1>4 DEF Chains
  <2>2. CoveredBy(C, m, off, i)
    BY <1>4 DEF Chains
  <2>3. ASSUME NEW q, Blocked(q, off, i)
        PROVE  \E y \in CheapestPerExit(C) : y.exit = q[off[i + 1]] /\ y.cost <= pathCost(m, q)
    <3>1. PICK x \in C : x.exit = q[off[i + 1]] /\ x.cost <= pathCost(m, q)
      BY <2>2, <2>3 DEF CoveredBy
    <3>2. PICK y \in CheapestPerExit(C) : y.exit = x.exit /\ y.cost <= x.cost
      BY <1>3
    <3>3. x.cost \in Nat /\ y.cost \in Nat
      BY <1>2, <1>3
    <3>4. x.exit \in 1..n /\ x \in Chain(off, n, i)
      BY <1>1 DEF Chain
    <3>5. pathCost(m, q) \in Int => y.cost <= pathCost(m, q)
      BY <3>1, <3>2, <3>3
    <3>6. pathCost(m, q) \in Int
      <4> DEFINE z == [exit |-> x.exit, order |-> q, cost |-> 0]
      <4>1. q \in Maps(off[i + 1])
        BY <2>3 DEF Blocked, Perm, Maps
      <4>2. z \in Chain(off, n, i) /\ z.order = q
        BY <2>3, <3>4, <4>1 DEF Chain
      <4> HIDE DEF z
      <4> QED
        BY <4>2
    <3> QED
      BY <3>1, <3>2, <3>5, <3>6
  <2>4. CoveredBy(CheapestPerExit(C), m, off, i)
    BY <2>3 DEF CoveredBy
  <2> QED
    BY <1>3, <2>1, <2>4
<1> QED
  BY <1>1, <1>3, <1>4 DEF Chains

\* m, the stops and their segments; "fine" that every segment is solved exactly.
Cut(m, n, off, sizes, k) == Matrix(m, n) /\ Counts(off, sizes, k) /\ off[k + 1] = n

LEMMA ChainCosts ==
    ASSUME NEW m, NEW n, NEW off, NEW sizes, NEW k, Cut(m, n, off, sizes, k), NEW i \in 1..k,
           NEW x \in Chain(off, n, i)
    PROVE  Route(x.order, off[i + 1], n) /\ pathCost(m, x.order) \in Nat
<1>1. off[i + 1] \in Nat \ {0} /\ 1..off[i + 1] \subseteq 1..n
  <2>1. /\ off[i] \in Nat /\ sizes[i] \in Nat \ {0} /\ off[i + 1] = off[i] + sizes[i]
        /\ off[i + 1] <= off[k + 1] /\ off[k + 1] = n /\ n \in Nat
    BY BlockNumbers DEF Cut, Matrix
  <2> QED
    BY <2>1
<1>2. x.order \in [1..off[i + 1] -> 1..off[i + 1]]
  BY DEF Chain, Maps
<1>3. Route(x.order, off[i + 1], n)
  BY <1>1, <1>2 DEF Route
<1> QED
  BY <1>3, CostIsNatural DEF Cut

LEMMA FirstChains ==
    ASSUME NEW m, NEW n, NEW off, NEW sizes, NEW k, Cut(m, n, off, sizes, k), NEW fine, NEW S,
           SegmentSolved(S, m, n, off, sizes, fine, 1)
    PROVE  {[exit |-> s.exit, order |-> s.order, cost |-> s.cost] : s \in S}
              \in Chains(m, off, n, fine, 1)
<1> DEFINE x(s) == [exit |-> s.exit, order |-> s.order, cost |-> s.cost]
           C == {x(s) : s \in S}
<1>1. /\ 1 \in 1..k /\ Counts(off, sizes, k) /\ Matrix(m, off[k + 1]) /\ n = off[k + 1]
      /\ off[1] = 0
  BY DEF Cut, Counts
<1>2. off[1 + 1] = sizes[1]
  BY <1>1, BlockNumbers
<1>3. \A r : OrderOf(r, BlockSegment(off, sizes, 1), sizes[1]) <=> Blocked(r, off, 1)
  BY <1>1, BlockSegmentIs, BlockedFirst
<1>4. ASSUME NEW s \in S PROVE x(s) \in Chain(off, n, 1)
  <2>1. s.exit \in 1..n /\ s.cost \in Nat /\ Blocked(s.order, off, 1)
    BY <1>3 DEF SegmentSolved, SolutionOf
  <2>2. s.order \in Maps(off[1 + 1])
    BY <2>1 DEF Blocked, Perm, Maps
  <2> QED
    BY <2>1, <2>2 DEF Chain
<1>5. ASSUME fine, NEW s \in S PROVE TrueChain(x(s), m, off, 1)
  BY <1>2, <1>5 DEF SegmentSolved, TrueSolution, TrueChain
<1>6. ASSUME fine, NEW q, Blocked(q, off, 1)
      PROVE  \E y \in C : y.exit = q[off[1 + 1]] /\ y.cost <= pathCost(m, q)
  <2>1. OrderOf(q, BlockSegment(off, sizes, 1), sizes[1])
    BY <1>3, <1>6
  <2>2. PICK s \in S : s.exit = q[sizes[1]] /\ s.cost <= pathCost(m, q)
    BY <1>6, <2>1 DEF SegmentSolved, Covered
  <2>3. x(s) \in C /\ x(s).exit = s.exit /\ x(s).cost = s.cost
    OBVIOUS
  <2> QED
    BY <1>2, <2>2, <2>3
<1>7. C \subseteq Chain(off, n, 1)
  BY <1>4
<1>8. fine => (\A y \in C : TrueChain(y, m, off, 1)) /\ CoveredBy(C, m, off, 1)
  BY <1>5, <1>6 DEF CoveredBy
<1> QED
  BY <1>7, <1>8 DEF Chains

\* A chain and a solution of the next segment.
LEMMA OneSegmentMore ==
    ASSUME NEW m, NEW n, NEW off, NEW sizes, NEW k, Cut(m, n, off, sizes, k), NEW i \in 2..k,
           NEW b \in Chain(off, n, i - 1), NEW s,
           SolutionOf(s, n, BlockSegment(off, sizes, i), sizes[i])
    PROVE  LET x == [exit |-> s.exit, order |-> Joined(b.order, s.order),
                     cost |-> b.cost + Connection(m, b.exit, s.entry) + s.cost]
           IN  /\ x \in Chain(off, n, i)
               /\ TrueChain(b, m, off, i - 1) /\ TrueSolution(s, m, sizes[i])
                  => TrueChain(x, m, off, i)
<1> DEFINE q == Joined(b.order, s.order)
           c == b.cost + Connection(m, b.exit, s.entry) + s.cost
           x == [exit |-> s.exit, order |-> q, cost |-> c]
<1>0. k \in Nat /\ i \in 1..k /\ i - 1 \in 1..k /\ Counts(off, sizes, k)
  BY DEF Cut, Counts
<1>1. (i - 1) + 1 = i
  BY <1>0
<1>2. /\ off[i] \in Nat /\ sizes[i] \in Nat \ {0} /\ off[i + 1] = off[i] + sizes[i]
  BY <1>0, BlockNumbers
<1>3. b.exit \in 1..n /\ b.cost \in Nat /\ Blocked(b.order, off, i - 1)
  BY DEF Chain
<1>4. Route(b.order, off[i], n)
  BY <1>0, <1>1, ChainCosts
<1>5. s.entry \in 1..n /\ s.exit \in 1..n /\ s.cost \in Nat
  BY DEF SolutionOf
<1>6. /\ Segment(m, n, BlockSegment(off, sizes, i), sizes[i])
      /\ Shuffled(s.order, off, sizes, i)
  BY <1>0, BlockSegmentIs DEF SolutionOf, Cut
<1>7. Route(s.order, sizes[i], n)
  <2>1. PICK o : Perm(o, sizes[i]) /\ s.order = OnSegment(o, BlockSegment(off, sizes, i))
    BY DEF SolutionOf, OrderOf
  <2>2. o \in Maps(sizes[i])
    BY <2>1 DEF Perm, Maps
  <2> QED
    BY <1>6, <2>1, <2>2, OnSegmentIs
<1>8. Route(q, off[i] + sizes[i], n) /\ JoinOf(q, b.order, off[i], s.order, sizes[i])
  BY <1>4, <1>7, ConcatIs DEF Joined
<1> HIDE DEF q
<1>9. Blocked(q, off, i)
  <2>1. q = [y \in 1..off[i + 1] |-> q[y]]
    BY <1>2, <1>8 DEF Route
  <2> QED
    BY <1>0, <1>3, <1>6, <1>8, <2>1, BlockedJoined
<1>10. c \in Nat
  <2>1. Connection(m, b.exit, s.entry) \in Nat
    BY <1>3, <1>5, MatrixSize DEF Connection, Cut
  <2> QED
    BY <1>3, <1>5, <2>1
<1> HIDE DEF c
<1>11. x \in Chain(off, n, i)
  <2>1. q \in Maps(off[i + 1])
    BY <1>9 DEF Blocked, Perm, Maps
  <2> QED
    BY <1>5, <1>9, <1>10, <2>1 DEF Chain
<1>12. ASSUME TrueChain(b, m, off, i - 1), TrueSolution(s, m, sizes[i])
       PROVE  TrueChain(x, m, off, i)
  <2>1. b.exit = b.order[off[i]] /\ b.cost = pathCost(m, b.order)
    BY <1>1, <1>12 DEF TrueChain
  <2>2. s.entry = s.order[1] /\ s.exit = s.order[sizes[i]] /\ s.cost = pathCost(m, s.order)
    BY <1>12 DEF TrueSolution
  <2>3. pathCost(m, q) = pathCost(m, b.order) + m[b.order[off[i]]][s.order[1]] + pathCost(m, s.order)
    BY <1>4, <1>7, <1>8, CostOfJoin DEF Cut
  <2>4. c = pathCost(m, q)
    BY <2>1, <2>2, <2>3 DEF Connection, c
  <2>5. q[off[i] + sizes[i]] = s.order[sizes[i]]
    <3>1. sizes[i] \in 1..sizes[i]
      BY <1>2
    <3> QED
      BY <1>8, <3>1 DEF JoinOf
  <2> QED
    BY <1>2, <2>2, <2>4, <2>5 DEF TrueChain
<1> QED
  BY <1>11, <1>12 DEF q, c

\* All chains with a solution of the next segment cover all orders.
LEMMA MoreChains ==
    ASSUME NEW m, NEW n, NEW off, NEW sizes, NEW k, Cut(m, n, off, sizes, k), NEW i \in 2..k,
           NEW fine, NEW v \in Chains(m, off, n, fine, i - 1), NEW S,
           SegmentSolved(S, m, n, off, sizes, fine, i)
    PROVE  Chained(m, v, S) \in Chains(m, off, n, fine, i)
<1> DEFINE x(b, s) == [exit |-> s.exit, order |-> Joined(b.order, s.order),
                       cost |-> b.cost + Connection(m, b.exit, s.entry) + s.cost]
           C == {x(b, s) : b \in v, s \in S}
           seg == BlockSegment(off, sizes, i)
<1>0. k \in Nat /\ i \in 1..k /\ i - 1 \in 1..k /\ Counts(off, sizes, k)
  BY DEF Cut, Counts
<1>1. (i - 1) + 1 = i
  BY <1>0
<1>2. v \subseteq Chain(off, n, i - 1)
  BY DEF Chains
<1>3. \A s \in S : SolutionOf(s, n, seg, sizes[i])
  BY DEF SegmentSolved
<1>4. ASSUME NEW b \in v, NEW s \in S
      PROVE  /\ x(b, s) \in Chain(off, n, i)
             /\ TrueChain(b, m, off, i - 1) /\ TrueSolution(s, m, sizes[i])
                => TrueChain(x(b, s), m, off, i)
  BY <1>2, <1>3, OneSegmentMore
<1>5. ASSUME fine
      PROVE  (\A y \in C : TrueChain(y, m, off, i)) /\ CoveredBy(C, m, off, i)
  <2>1. \A b \in v : TrueChain(b, m, off, i - 1)
    BY <1>5 DEF Chains
  <2>2. CoveredBy(v, m, off, i - 1)
    BY <1>5 DEF Chains
  <2>3. \A s \in S : TrueSolution(s, m, sizes[i])
    BY <1>5 DEF SegmentSolved
  <2>4. Covered(S, m, seg, sizes[i])
    BY <1>5 DEF SegmentSolved
  <2>5. ASSUME NEW q, Blocked(q, off, i)
        PROVE  \E y \in C : y.exit = q[off[i + 1]] /\ y.cost <= pathCost(m, q)
    <3> DEFINE a == Shortened(q, off[i] + 1)
               r == Rest(q, off, sizes, i)
    <3>1. Blocked(a, off, i - 1) /\ Shuffled(r, off, sizes, i) /\ JoinOf(q, a, off[i], r, sizes[i])
      BY <1>0, <2>5, BlockedSplit
    <3> HIDE DEF a, r
    <3>2. OrderOf(r, seg, sizes[i])
      BY <1>0, <3>1, BlockSegmentIs DEF Cut
    <3>3. PICK b \in v : b.exit = a[off[i]] /\ b.cost <= pathCost(m, a)
      BY <1>1, <2>2, <3>1 DEF CoveredBy
    <3>4. PICK s \in S : s.entry = r[1] /\ s.exit = r[sizes[i]] /\ s.cost <= pathCost(m, r)
      BY <2>4, <3>2 DEF Covered
    <3>5. /\ off[i] \in Nat \ {0} /\ sizes[i] \in Nat \ {0} /\ off[i + 1] = off[i] + sizes[i]
          /\ Block(off, i) \subseteq 1..n /\ 1..off[i] \subseteq 1..n /\ 1..off[i + 1] \subseteq 1..n
      <4>1. /\ sizes[i] \in Nat \ {0} /\ off[i + 1] = off[i] + sizes[i]
            /\ off[i + 1] <= n /\ n \in Nat
            /\ Block(off, i) \subseteq 1..n
        BY <1>0, BlockNumbers DEF Cut
      <4>2. off[i] \in Nat \ {0}
        <5>1. off[i - 1] \in Nat /\ sizes[i - 1] \in Nat \ {0} /\ off[i] = off[i - 1] + sizes[i - 1]
          BY <1>0, <1>1, BlockNumbers
        <5> QED
          BY <5>1
      <4> QED
        BY <4>1, <4>2
    <3>6. Route(a, off[i], n)
      BY <1>1, <3>1, <3>5 DEF Blocked, Perm, Route
    <3>7. Route(r, sizes[i], n)
      BY <3>1, <3>5 DEF Shuffled, Route
    <3>8. Route(q, off[i] + sizes[i], n)
      <4>1. q \in [1..off[i + 1] -> 1..off[i + 1]]
        BY <2>5 DEF Blocked, Perm
      <4> QED
        BY <3>5, <4>1 DEF Route
    <3>9. /\ pathCost(m, a) \in Nat /\ m[a[off[i]]][r[1]] \in Nat /\ pathCost(m, r) \in Nat
          /\ pathCost(m, q) = pathCost(m, a) + m[a[off[i]]][r[1]] + pathCost(m, r)
      BY <3>1, <3>6, <3>7, <3>8, CostOfJoin DEF Cut
    <3>10. q[off[i] + sizes[i]] = r[sizes[i]]
      <4>1. sizes[i] \in 1..sizes[i]
        BY <3>5
      <4> QED
        BY <3>1, <4>1 DEF JoinOf
    <3>11. x(b, s) \in C
      OBVIOUS
    <3>12. x(b, s).exit = q[off[i + 1]]
      BY <3>4, <3>5, <3>10
    <3>13. b.cost \in Nat /\ s.cost \in Nat
      BY <1>2, <1>3 DEF Chain, SolutionOf
    <3>14. x(b, s).cost = b.cost + m[a[off[i]]][r[1]] + s.cost
      BY <3>3, <3>4 DEF Connection
    <3>15. x(b, s).cost <= pathCost(m, q)
      <4> DEFINE d == m[a[off[i]]][r[1]]
      <4>1. \A c1, c2, c3, p1, p2 \in Nat : c1 <= p1 /\ c2 <= p2 => c1 + c3 + c2 <= p1 + c3 + p2
        OBVIOUS
      <4> HIDE DEF d, x
      <4>2. b.cost + d + s.cost <= pathCost(m, a) + d + pathCost(m, r)
        BY <3>3, <3>4, <3>9, <3>13, <4>1 DEF d
      <4> QED
        BY <3>9, <3>14, <4>2 DEF d
    <3> QED
      BY <3>11, <3>12, <3>15
  <2>6. \A y \in C : TrueChain(y, m, off, i)
    BY <1>4, <2>1, <2>3
  <2>7. CoveredBy(C, m, off, i)
    <3> HIDE DEF C
    <3> QED
      BY <2>5 DEF CoveredBy
  <2> QED
    BY <2>6, <2>7
<1>6. C \subseteq Chain(off, n, i)
  BY <1>4
<1>7. C \in Chains(m, off, n, fine, i)
  BY <1>5, <1>6 DEF Chains
<1>8. Chained(m, v, S) = CheapestPerExit(C)
  BY DEF Chained
<1> HIDE DEF C
<1>9. \A y \in Chain(off, n, i) : pathCost(m, y.order) \in Nat
  BY <1>0, ChainCosts
<1> QED
  BY <1>7, <1>8, <1>9, BestKept

\* The orders the solver may answer keep every segment together and in its place;
\* none is shorter, if every segment is solved exactly.
LEMMA SolveSegmentedTSPIs ==
    ASSUME NEW m, NEW n, NEW off, NEW sizes, NEW k, Cut(m, n, off, sizes, k),
           NEW segments, segments = [i \in 1..k |-> BlockSegment(off, sizes, i)],
           NEW limits, limits.tour \in Int, limits.segment \in Int, NEW fine,
           fine => \A i \in 1..k : sizes[i] # 2 /\ sizes[i] <= limits.segment,
           NEW o \in SolveSegmentedTSP(m, segments, limits)
    PROVE  /\ Blocked(o, off, k)
           /\ fine => \A q : Blocked(q, off, k) => pathCost(m, o) <= pathCost(m, q)
<1> DEFINE Sol(i) == computeSegmentSolutions(m, segments[i], limits)
           First == {[exit |-> s.exit, order |-> s.order, cost |-> s.cost] : s \in Sol(1)}
           base == CheapestPerExit(First)
           V == [i \in 1..k |-> Chains(m, off, n, fine, i)]
           H == [i \in 2..k |-> [v \in V[i - 1] |-> Chained(m, v, Sol(i))]]
           Body(f) == [i \in 1..k |-> IF i = 1 THEN base ELSE Chained(m, f[i - 1], Sol(i))]
           t == CHOOSE f : f = Body(f)
<1>1. k \in Nat \ {0} /\ Counts(off, sizes, k) /\ Matrix(m, n) /\ n = off[k + 1]
  BY DEF Cut, Counts
<1>2. k \in Int /\ 1 \in Int /\ 1 <= k /\ (1 + 1)..k = 2..k /\ 1 \in 1..k /\ k \in 1..k
  BY <1>1
<1>3. \A i \in 2..k : i \in 1..k /\ i # 1 /\ i - 1 \in 1..k
  BY <1>1
<1>4. ASSUME NEW i \in 1..k PROVE SegmentSolved(Sol(i), m, n, off, sizes, fine, i)
  <2>1. segments[i] = BlockSegment(off, sizes, i)
    OBVIOUS
  <2>2. Segment(m, n, BlockSegment(off, sizes, i), sizes[i])
    BY <1>1, BlockSegmentIs
  <2> DEFINE S == Sol(i)
  <2>3. /\ \A x \in S : SolutionOf(x, n, BlockSegment(off, sizes, i), sizes[i])
        /\ sizes[i] # 2 /\ sizes[i] <= limits.segment =>
             /\ \A x \in S : TrueSolution(x, m, sizes[i])
             /\ Covered(S, m, BlockSegment(off, sizes, i), sizes[i])
    BY <2>1, <2>2, SolutionsAre
  <2> HIDE DEF S
  <2>4. fine => sizes[i] # 2 /\ sizes[i] <= limits.segment
    OBVIOUS
  <2>5. SegmentSolved(S, m, n, off, sizes, fine, i)
    BY <2>3, <2>4 DEF SegmentSolved
  <2> QED
    BY <2>5 DEF S
<1>5. ASSUME NEW i \in 1..k, NEW C \in Chains(m, off, n, fine, i)
      PROVE  CheapestPerExit(C) \in Chains(m, off, n, fine, i)
  <2>1. \A y \in Chain(off, n, i) : pathCost(m, y.order) \in Nat
    BY ChainCosts
  <2> QED
    BY <2>1, BestKept
<1> HIDE DEF Sol
<1>6. base \in V[1]
  <2>1. First \in Chains(m, off, n, fine, 1)
    BY <1>2, <1>4, FirstChains
  <2> HIDE DEF First
  <2>2. base \in Chains(m, off, n, fine, 1)
    BY <1>2, <1>5, <2>1
  <2> QED
    BY <1>2, <2>2
<1> HIDE DEF base
<1>7. ASSUME NEW i \in 2..k, NEW v \in V[i - 1] PROVE Chained(m, v, Sol(i)) \in V[i]
  <2>1. v \in Chains(m, off, n, fine, i - 1)
    BY <1>3
  <2>2. SegmentSolved(Sol(i), m, n, off, sizes, fine, i)
    BY <1>3, <1>4
  <2>3. Chained(m, v, Sol(i)) \in Chains(m, off, n, fine, i)
    BY <2>1, <2>2, MoreChains
  <2> QED
    BY <1>3, <2>3
<1>8. \A i \in 1..k : V[i] = Chains(m, off, n, fine, i)
  OBVIOUS
<1>9. \A i \in 2..k : \A v \in V[i - 1] : H[i][v] = Chained(m, v, Sol(i))
  OBVIOUS
<1> HIDE DEF V, H
<1>10. Steps(H, 1, k, V)
  BY <1>2, <1>7, <1>9 DEF Steps
<1>11. PICK f : IsOn(f, 1, k) /\ Iterated(f, 1, k, V, base, H)
  BY <1>2, <1>6, <1>10, ByIndex
<1>12. f = Body(f)
  <2>1. ASSUME NEW i \in 1..k PROVE f[i] = IF i = 1 THEN base ELSE Chained(m, f[i - 1], Sol(i))
    <3>1. CASE i = 1
      BY <1>11, <3>1 DEF Iterated
    <3>2. CASE i # 1
      <4>1. i \in 2..k /\ i \in (1 + 1)..k
        BY <1>2, <3>2
      <4>2. f[i - 1] \in V[i - 1] /\ f[i] = H[i][f[i - 1]]
        BY <1>11, <4>1 DEF Iterated
      <4> QED
        BY <1>9, <3>2, <4>1, <4>2
    <3> QED
      BY <3>1, <3>2
  <2> QED
    BY <1>11, <2>1 DEF IsOn
<1>13. t = Body(t)
  <2> HIDE DEF Body
  <2> QED
    BY <1>12
<1>14. o \in {x.order : x \in Cheapest(t[k])}
  <2>1. DOMAIN segments = 1..k /\ Len(segments) = k
    <3>1. segments \in [1..k -> {BlockSegment(off, sizes, i) : i \in 1..k}]
      OBVIOUS
    <3> QED
      BY <1>1, <3>1, Length
  <2> QED
    BY <2>1 DEF SolveSegmentedTSP, base, Sol
<1> HIDE DEF t
<1>15. t[1] = base /\ \A i \in 2..k : t[i] = Chained(m, t[i - 1], Sol(i))
  BY <1>2, <1>3, <1>13
<1>16. Iterates(t, 1, k, V, base, H)
  BY <1>2, <1>9, <1>15 DEF Iterates
<1>17. Iterated(t, 1, k, V, base, H)
  BY <1>2, <1>6, <1>10, <1>16, ByIndexOnly
<1>18. t[k] \in Chains(m, off, n, fine, k)
  BY <1>2, <1>8, <1>17 DEF Iterated
<1>19. PICK x \in Cheapest(t[k]) : o = x.order
  BY <1>14
<1>20. x \in t[k] /\ \A y \in t[k] : x.cost <= y.cost
  BY <1>19 DEF Cheapest
<1>21. t[k] \subseteq Chain(off, n, k)
  BY <1>18 DEF Chains
<1>22. Blocked(o, off, k)
  BY <1>19, <1>20, <1>21 DEF Chain
<1>23. ASSUME fine, NEW q, Blocked(q, off, k) PROVE pathCost(m, o) <= pathCost(m, q)
  <2>1. x.cost = pathCost(m, o)
    BY <1>18, <1>19, <1>20, <1>23 DEF Chains, TrueChain
  <2>2. CoveredBy(t[k], m, off, k)
    BY <1>18, <1>23 DEF Chains
  <2>3. PICK y \in t[k] : y.cost <= pathCost(m, q)
    BY <1>23, <2>2 DEF CoveredBy
  <2>4. x.cost \in Nat /\ y.cost \in Nat /\ x.cost <= y.cost
    BY <1>20, <1>21, <2>3 DEF Chain
  <2>5. pathCost(m, q) \in Nat
    <3>1. Route(q, n, n)
      BY <1>1, <1>23 DEF Blocked, Perm, Route, Matrix
    <3> QED
      BY <1>1, <3>1, CostIsNatural
  <2> QED
    BY <2>1, <2>3, <2>4, <2>5
<1> QED
  BY <1>22, <1>23
=============================================================================
