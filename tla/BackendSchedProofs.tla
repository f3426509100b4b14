------------------------- MODULE BackendSchedProofs -------------------------
(***************************************************************************)
(* Proofs about BackendSched, for any machine, any programs of well-formed  *)
(* graphs and any number of inputs of a split.                              *)
(***************************************************************************)
EXTENDS BackendSched, FiniteSetTheorems, WellFoundedInduction, TLAPS

-----------------------------------------------------------------------------
(* Sets of naturals have a least element, and bounded ones a largest.       *)
LEMMA LeastNat ==
  ASSUME NEW S \in SUBSET Nat, S # {}
  PROVE  Min(S) \in S /\ \A x \in S : Min(S) <= x
<1> DEFINE less == OpToRel(<, Nat)
           Least(x) == x \in S /\ \A y \in S : x <= y
<1>1. IsWellFoundedOn(less, Nat)
  BY NatLessThanWellFounded
<1>2. PICK k \in S : \A m \in S : <<m, k>> \notin less
  <2> HIDE DEF less
  <2> QED BY <1>1, WFMin
<1>3. \A m, n \in Nat : m < n => <<m, n>> \in less
  BY DEF OpToRel
<1>4. \A m \in S : ~(m < k)
  <2> HIDE DEF less
  <2> QED BY <1>2, <1>3
<1>5. \A m \in S : k <= m
  BY <1>4
<1>6. Least(k)
  BY <1>5
<1>7. Min(S) = CHOOSE x : Least(x)
  BY DEF Min
<1>8. Least(CHOOSE x : Least(x))
  BY <1>6
<1> QED BY <1>7, <1>8

LEMMA LargestNat ==
  ASSUME NEW n \in Nat, NEW S \in SUBSET (0..n), S # {}
  PROVE  Max(S) \in S /\ \A x \in S : x <= Max(S)
<1> DEFINE D == {n - x : x \in S}
           Largest(x) == x \in S /\ \A y \in S : x >= y
<1>1. D \in SUBSET Nat /\ D # {}
  OBVIOUS
<1>2. PICK x \in S : Min(D) = n - x
  BY <1>1, LeastNat
<1>3. \A y \in S : n - x <= n - y
  BY <1>1, <1>2, LeastNat
<1>4. Largest(x)
  BY <1>3
<1>5. Max(S) = CHOOSE y : Largest(y)
  BY DEF Max
<1>6. Largest(CHOOSE y : Largest(y))
  BY <1>4
<1> QED BY <1>5, <1>6

(* Induction up to n, over a set.                                           *)
LEMMA UpTo ==
  ASSUME NEW n \in Nat, NEW A, 0 \in A, \A k \in 1..n : k - 1 \in A => k \in A
  PROVE  \A k \in 0..n : k \in A
<1> SUFFICES ASSUME NEW k \in 0..n, k \notin A PROVE FALSE
  OBVIOUS
<1> DEFINE B == {j \in 0..n : j \notin A}
<1>1. B \in SUBSET Nat /\ B # {}
  OBVIOUS
<1>2. Min(B) \in B /\ \A x \in B : Min(B) <= x
  BY <1>1, LeastNat
<1>3. Min(B) \in 1..n /\ Min(B) - 1 \in 0..n
  BY <1>2
<1>4. Min(B) - 1 \notin B
  BY <1>2
<1> QED BY <1>2, <1>3, <1>4

LEMMA LastOfRange ==
  ASSUME NEW n \in Nat, NEW k \in 1..n
  PROVE  /\ Max(1..k) = k /\ (1..k) \ {k} = 1..k - 1
         /\ 1..k \in SUBSET (1..n) /\ 1..k # {}
<1>1. k \in Nat /\ 1..k \in SUBSET (0..k) /\ 1..k # {}
  OBVIOUS
<1>2. Max(1..k) \in 1..k /\ \A x \in 1..k : x <= Max(1..k)
  BY <1>1, LargestNat
<1>3. Max(1..k) = k
  <2>1. Max(1..k) \in 1..k /\ k <= Max(1..k)
    BY <1>2
  <2> QED BY <2>1
<1>4. (1..k) \ {k} = 1..k - 1 /\ 1..k \in SUBSET (1..n) /\ 1..k # {}
  OBVIOUS
<1> QED BY <1>3, <1>4

(* A fold over 1..n is defined, whatever its step does with a state.        *)
Recursion(h, n, F, base) ==
  h = [s \in SUBSET (1..n) |->
         IF s = {} THEN base ELSE F[Max(s)][h[s \ {Max(s)}]]]

LEMMA FoldDefined ==
  ASSUME NEW n \in Nat, NEW S, NEW base \in S, NEW F \in [1..n -> [S -> S]]
  PROVE  \E h \in [SUBSET (1..n) -> S] : Recursion(h, n, F, base)
<1> DEFINE A == {k \in 0..n : \E h \in [SUBSET (1..k) -> S] : Recursion(h, k, F, base)}
<1>1. 0 \in A
  <2>1. SUBSET (1..0) = {{}}
    OBVIOUS
  <2>2. [s \in SUBSET (1..0) |-> base] \in [SUBSET (1..0) -> S]
    OBVIOUS
  <2>3. Recursion([s \in SUBSET (1..0) |-> base], 0, F, base)
    BY <2>1 DEF Recursion
  <2> QED BY <2>2, <2>3
<1>2. ASSUME NEW k \in 1..n, k - 1 \in A
      PROVE  k \in A
  <2>1. PICK h \in [SUBSET (1..k - 1) -> S] : Recursion(h, k - 1, F, base)
    BY <1>2
  <2> DEFINE g == [s \in SUBSET (1..k) |-> IF k \in s THEN F[k][h[s \ {k}]] ELSE h[s]]
  <2>2. \A s \in SUBSET (1..k) : k \notin s => s \in SUBSET (1..k - 1)
    OBVIOUS
  <2>3. \A s \in SUBSET (1..k) : s \ {k} \in SUBSET (1..k - 1)
    OBVIOUS
  <2>4. F[k] \in [S -> S]
    OBVIOUS
  <2>5. g \in [SUBSET (1..k) -> S]
    BY <2>2, <2>3, <2>4
  <2>6. ASSUME NEW s \in SUBSET (1..k), s # {}
        PROVE  g[s] = F[Max(s)][g[s \ {Max(s)}]]
    <3>1. Max(s) \in s /\ \A x \in s : x <= Max(s)
      <4>1. k \in Nat /\ s \in SUBSET (0..k)
        OBVIOUS
      <4> QED BY <2>6, <4>1, LargestNat
    <3>2. CASE k \in s
      <4>1. Max(s) = k
        <5>1. Max(s) \in 1..k /\ k <= Max(s)
          BY <3>1, <3>2
        <5> QED BY <5>1
      <4>2. g[s \ {k}] = h[s \ {k}]
        BY <2>3
      <4> QED BY <3>2, <4>1, <4>2
    <3>3. CASE k \notin s
      <4>1. s \in SUBSET (1..k - 1) /\ s \ {Max(s)} \in SUBSET (1..k)
        BY <2>2, <3>3
      <4>2. h[s] = F[Max(s)][h[s \ {Max(s)}]]
        BY <2>1, <2>6, <4>1 DEF Recursion
      <4> QED BY <3>3, <4>1, <4>2
    <3> QED BY <3>2, <3>3
  <2>7. g[{}] = base
    BY <2>1 DEF Recursion
  <2>8. Recursion(g, k, F, base)
    <3> DEFINE e == [s \in SUBSET (1..k) |->
                       IF s = {} THEN base ELSE F[Max(s)][g[s \ {Max(s)}]]]
    <3>1. \A s \in SUBSET (1..k) : g[s] = e[s]
      <4> HIDE DEF g
      <4> QED BY <2>6, <2>7
    <3>2. g = e
      BY <3>1
    <3> QED BY <3>2 DEF Recursion
  <2> HIDE DEF g
  <2> QED BY <2>5, <2>8
<1> HIDE DEF A
<1>3. \A k \in 0..n : k \in A
  BY <1>1, <1>2, UpTo
<1>4. n \in A
  BY <1>3
<1> QED BY <1>4 DEF A

-----------------------------------------------------------------------------
(* What each fold does, step by step.                                       *)
ExpandRun(f, skip, nodes, n, S, g) ==
  /\ g[0] = [ids |-> f, cur |-> -1] /\ \A k \in 0..n : g[k] \in S
  /\ \A k \in 1..n : g[k] = Spread(g[k - 1], nodes[k], skip)
  /\ Expand(f, nodes, skip) = g[n].ids
LEMMA ExpandSteps ==
  ASSUME NEW f, NEW skip, NEW nodes, NEW n \in Nat, DOMAIN nodes = 1..n,
         NEW S, [ids |-> f, cur |-> -1] \in S,
         \A s \in S : \A i \in 1..n : Spread(s, nodes[i], skip) \in S
  PROVE  \E g : ExpandRun(f, skip, nodes, n, S, g)
<1> DEFINE base == [ids |-> f, cur |-> -1]
           F == [i \in 1..n |-> [s \in S |-> Spread(s, nodes[i], skip)]]
           Is(h) == h = [s \in SUBSET (1..n) |-> IF s = {} THEN base
                           ELSE Spread(h[s \ {Max(s)}], nodes[Max(s)], skip)]
           iter == CHOOSE h : Is(h)
           g == [k \in 0..n |-> iter[1..k]]
<1>1. Expand(f, nodes, skip) = iter[1..n].ids
  BY DEF Expand, FoldLeft, MapThenFoldSet
<1>2. PICK h \in [SUBSET (1..n) -> S] : Recursion(h, n, F, base)
  <2>1. F \in [1..n -> [S -> S]]
    OBVIOUS
  <2> HIDE DEF F, base
  <2> QED BY <2>1, FoldDefined DEF base
<1>3. Is(h)
  <2> DEFINE e == [s \in SUBSET (1..n) |-> IF s = {} THEN base
                     ELSE Spread(h[s \ {Max(s)}], nodes[Max(s)], skip)]
  <2>1. ASSUME NEW s \in SUBSET (1..n), s # {}
        PROVE  F[Max(s)][h[s \ {Max(s)}]] = Spread(h[s \ {Max(s)}], nodes[Max(s)], skip)
    <3>1. s \in SUBSET (0..n)
      OBVIOUS
    <3>2. Max(s) \in s
      BY <2>1, <3>1, LargestNat
    <3> QED BY <3>2
  <2>2. h = e
    <3> HIDE DEF F, base
    <3> QED BY <1>2, <2>1 DEF Recursion
  <2> QED BY <2>2
<1>4. Is(iter)
  BY <1>3, Zenon
<1>5. iter[{}] = base
  <2>1. {} \in SUBSET (1..n)
    OBVIOUS
  <2> HIDE DEF iter, base
  <2> QED BY <1>4, <2>1
<1>6. ASSUME NEW k \in 1..n
      PROVE  iter[1..k] = Spread(iter[1..k - 1], nodes[k], skip)
  <2>1. /\ Max(1..k) = k /\ (1..k) \ {k} = 1..k - 1
        /\ 1..k \in SUBSET (1..n) /\ 1..k # {}
    BY LastOfRange
  <2> HIDE DEF iter, base
  <2>2. iter[1..k] = Spread(iter[(1..k) \ {Max(1..k)}], nodes[Max(1..k)], skip)
    BY <1>4, <2>1
  <2> QED BY <2>1, <2>2
<1> HIDE DEF iter, base
<1>7. g[0] = base
  <2>1. 1..0 = {}
    OBVIOUS
  <2> QED BY <1>5, <2>1
<1>8. \A k \in 1..n : g[k] = Spread(g[k - 1], nodes[k], skip)
  BY <1>6
<1>9. Expand(f, nodes, skip) = g[n].ids
  BY <1>1
<1> HIDE DEF g
<1>10. \A k \in 0..n : g[k] \in S
  <2> DEFINE A == {k \in 0..n : g[k] \in S}
  <2>1. 0 \in A
    BY <1>7 DEF base
  <2>2. ASSUME NEW k \in 1..n, k - 1 \in A
        PROVE  k \in A
    <3>1. g[k - 1] \in S
      BY <2>2
    <3>2. Spread(g[k - 1], nodes[k], skip) \in S
      BY <3>1
    <3>3. g[k] \in S
      BY <1>8, <3>2, Zenon
    <3> QED BY <3>3
  <2> HIDE DEF A
  <2>3. \A k \in 0..n : k \in A
    BY <2>1, <2>2, UpTo
  <2> QED BY <2>3 DEF A
<1> QED BY <1>7, <1>8, <1>9, <1>10 DEF base, ExpandRun

Pass3Run(f, n, S, g) ==
  /\ g[0] = f /\ \A k \in 0..n : g[k] \in S
  /\ \A k \in 1..n : g[k] = Upgrade(g[k - 1], k)
  /\ Pass3(f) = g[n]
LEMMA Pass3Steps ==
  ASSUME NEW f, NEW n \in Nat, Nodes = 1..n,
         NEW S, f \in S,
         \A s \in S : \A i \in 1..n : Upgrade(s, i) \in S
  PROVE  \E g : Pass3Run(f, n, S, g)
<1> DEFINE base == f
           F == [i \in 1..n |-> [s \in S |-> Upgrade(s, Down[i])]]
           Is(h) == h = [s \in SUBSET (1..n) |-> IF s = {} THEN base
                           ELSE Upgrade(h[s \ {Max(s)}], Down[Max(s)])]
           iter == CHOOSE h : Is(h)
           g == [k \in 0..n |-> iter[1..k]]
<1>0. DOMAIN Down = 1..n /\ \A i \in 1..n : Down[i] = i
  BY DEF Down
<1>1. Pass3(f) = iter[1..n]
  BY <1>0 DEF Pass3, FoldLeft, MapThenFoldSet
<1>2. PICK h \in [SUBSET (1..n) -> S] : Recursion(h, n, F, base)
  <2>1. F \in [1..n -> [S -> S]]
    BY <1>0
  <2> HIDE DEF F, base
  <2> QED BY <2>1, FoldDefined DEF base
<1>3. Is(h)
  <2> DEFINE e == [s \in SUBSET (1..n) |-> IF s = {} THEN base
                     ELSE Upgrade(h[s \ {Max(s)}], Down[Max(s)])]
  <2>1. ASSUME NEW s \in SUBSET (1..n), s # {}
        PROVE  F[Max(s)][h[s \ {Max(s)}]] = Upgrade(h[s \ {Max(s)}], Down[Max(s)])
    <3>1. s \in SUBSET (0..n)
      OBVIOUS
    <3>2. Max(s) \in s
      BY <2>1, <3>1, LargestNat
    <3> QED BY <3>2
  <2>2. h = e
    <3> HIDE DEF F, base
    <3> QED BY <1>2, <2>1 DEF Recursion
  <2> QED BY <2>2
<1>4. Is(iter)
  BY <1>3, Zenon
<1>5. iter[{}] = base
  <2>1. {} \in SUBSET (1..n)
    OBVIOUS
  <2> HIDE DEF iter, base
  <2> QED BY <1>4, <2>1
<1>6. ASSUME NEW k \in 1..n
      PROVE  iter[1..k] = Upgrade(iter[1..k - 1], Down[k])
  <2>1. /\ Max(1..k) = k /\ (1..k) \ {k} = 1..k - 1
        /\ 1..k \in SUBSET (1..n) /\ 1..k # {}
    BY LastOfRange
  <2> HIDE DEF iter, base
  <2>2. iter[1..k] = Upgrade(iter[(1..k) \ {Max(1..k)}], Down[Max(1..k)])
    BY <1>4, <2>1
  <2> QED BY <2>1, <2>2
<1> HIDE DEF iter, base
<1>7. g[0] = base
  <2>1. 1..0 = {}
    OBVIOUS
  <2> QED BY <1>5, <2>1
<1>8. \A k \in 1..n : g[k] = Upgrade(g[k - 1], k)
  BY <1>6, <1>0
<1>9. Pass3(f) = g[n]
  BY <1>1
<1> HIDE DEF g
<1>10. \A k \in 0..n : g[k] \in S
  <2> DEFINE A == {k \in 0..n : g[k] \in S}
  <2>1. 0 \in A
    BY <1>7 DEF base
  <2>2. ASSUME NEW k \in 1..n, k - 1 \in A
        PROVE  k \in A
    <3>1. g[k - 1] \in S
      BY <2>2
    <3>2. Upgrade(g[k - 1], k) \in S
      BY <3>1
    <3>3. g[k] \in S
      BY <1>8, <3>2, Zenon
    <3> QED BY <3>3
  <2> HIDE DEF A
  <2>3. \A k \in 0..n : k \in A
    BY <2>1, <2>2, UpTo
  <2> QED BY <2>3 DEF A
<1> QED BY <1>7, <1>8, <1>9, <1>10 DEF base, Pass3Run

SettleRun(f, m, n, S, g) ==
  /\ g[0] = OwnBackend(f, m) /\ \A k \in 0..n : g[k] \in S
  /\ \A k \in 1..n : g[k] = SourceBackend(g[k - 1], m, Src(m)[k])
  /\ Settle(f, m) = g[n]
LEMMA SettleSteps ==
  ASSUME NEW f, NEW m, NEW n \in Nat, DOMAIN Src(m) = 1..n,
         NEW S, OwnBackend(f, m) \in S,
         \A s \in S : \A i \in 1..n : SourceBackend(s, m, Src(m)[i]) \in S
  PROVE  \E g : SettleRun(f, m, n, S, g)
<1> DEFINE base == OwnBackend(f, m)
           F == [i \in 1..n |-> [s \in S |-> SourceBackend(s, m, Src(m)[i])]]
           Is(h) == h = [s \in SUBSET (1..n) |-> IF s = {} THEN base
                           ELSE SourceBackend(h[s \ {Max(s)}], m, Src(m)[Max(s)])]
           iter == CHOOSE h : Is(h)
           g == [k \in 0..n |-> iter[1..k]]
<1>1. Settle(f, m) = iter[1..n]
  BY DEF Settle, FoldLeft, MapThenFoldSet
<1>2. PICK h \in [SUBSET (1..n) -> S] : Recursion(h, n, F, base)
  <2>1. F \in [1..n -> [S -> S]]
    OBVIOUS
  <2> HIDE DEF F, base
  <2> QED BY <2>1, FoldDefined DEF base
<1>3. Is(h)
  <2> DEFINE e == [s \in SUBSET (1..n) |-> IF s = {} THEN base
                     ELSE SourceBackend(h[s \ {Max(s)}], m, Src(m)[Max(s)])]
  <2>1. ASSUME NEW s \in SUBSET (1..n), s # {}
        PROVE  F[Max(s)][h[s \ {Max(s)}]] = SourceBackend(h[s \ {Max(s)}], m, Src(m)[Max(s)])
    <3>1. s \in SUBSET (0..n)
      OBVIOUS
    <3>2. Max(s) \in s
      BY <2>1, <3>1, LargestNat
    <3> QED BY <3>2
  <2>2. h = e
    <3> HIDE DEF F, base
    <3> QED BY <1>2, <2>1 DEF Recursion
  <2> QED BY <2>2
<1>4. Is(iter)
  BY <1>3, Zenon
<1>5. iter[{}] = base
  <2>1. {} \in SUBSET (1..n)
    OBVIOUS
  <2> HIDE DEF iter, base
  <2> QED BY <1>4, <2>1
<1>6. ASSUME NEW k \in 1..n
      PROVE  iter[1..k] = SourceBackend(iter[1..k - 1], m, Src(m)[k])
  <2>1. /\ Max(1..k) = k /\ (1..k) \ {k} = 1..k - 1
        /\ 1..k \in SUBSET (1..n) /\ 1..k # {}
    BY LastOfRange
  <2> HIDE DEF iter, base
  <2>2. iter[1..k] = SourceBackend(iter[(1..k) \ {Max(1..k)}], m, Src(m)[Max(1..k)])
    BY <1>4, <2>1
  <2> QED BY <2>1, <2>2
<1> HIDE DEF iter, base
<1>7. g[0] = base
  <2>1. 1..0 = {}
    OBVIOUS
  <2> QED BY <1>5, <2>1
<1>8. \A k \in 1..n : g[k] = SourceBackend(g[k - 1], m, Src(m)[k])
  BY <1>6
<1>9. Settle(f, m) = g[n]
  BY <1>1
<1> HIDE DEF g
<1>10. \A k \in 0..n : g[k] \in S
  <2> DEFINE A == {k \in 0..n : g[k] \in S}
  <2>1. 0 \in A
    BY <1>7 DEF base
  <2>2. ASSUME NEW k \in 1..n, k - 1 \in A
        PROVE  k \in A
    <3>1. g[k - 1] \in S
      BY <2>2
    <3>2. SourceBackend(g[k - 1], m, Src(m)[k]) \in S
      BY <3>1
    <3>3. g[k] \in S
      BY <1>8, <3>2, Zenon
    <3> QED BY <3>3
  <2> HIDE DEF A
  <2>3. \A k \in 0..n : k \in A
    BY <2>1, <2>2, UpTo
  <2> QED BY <2>3 DEF A
<1> QED BY <1>7, <1>8, <1>9, <1>10 DEF base, SettleRun

Pass4Run(f, n, S, g) ==
  /\ g[0] = f /\ \A k \in 0..n : g[k] \in S
  /\ \A k \in 1..n : g[k] = Settle(g[k - 1], k)
  /\ Pass4(f) = g[n]
LEMMA Pass4Steps ==
  ASSUME NEW f, NEW n \in Nat, Nodes = 1..n,
         NEW S, f \in S,
         \A s \in S : \A i \in 1..n : Settle(s, i) \in S
  PROVE  \E g : Pass4Run(f, n, S, g)
<1> DEFINE base == f
           F == [i \in 1..n |-> [s \in S |-> Settle(s, Down[i])]]
           Is(h) == h = [s \in SUBSET (1..n) |-> IF s = {} THEN base
                           ELSE Settle(h[s \ {Max(s)}], Down[Max(s)])]
           iter == CHOOSE h : Is(h)
           g == [k \in 0..n |-> iter[1..k]]
<1>0. DOMAIN Down = 1..n /\ \A i \in 1..n : Down[i] = i
  BY DEF Down
<1>1. Pass4(f) = iter[1..n]
  BY <1>0 DEF Pass4, FoldLeft, MapThenFoldSet
<1>2. PICK h \in [SUBSET (1..n) -> S] : Recursion(h, n, F, base)
  <2>1. F \in [1..n -> [S -> S]]
    BY <1>0
  <2> HIDE DEF F, base
  <2> QED BY <2>1, FoldDefined DEF base
<1>3. Is(h)
  <2> DEFINE e == [s \in SUBSET (1..n) |-> IF s = {} THEN base
                     ELSE Settle(h[s \ {Max(s)}], Down[Max(s)])]
  <2>1. ASSUME NEW s \in SUBSET (1..n), s # {}
        PROVE  F[Max(s)][h[s \ {Max(s)}]] = Settle(h[s \ {Max(s)}], Down[Max(s)])
    <3>1. s \in SUBSET (0..n)
      OBVIOUS
    <3>2. Max(s) \in s
      BY <2>1, <3>1, LargestNat
    <3> QED BY <3>2
  <2>2. h = e
    <3> HIDE DEF F, base
    <3> QED BY <1>2, <2>1 DEF Recursion
  <2> QED BY <2>2
<1>4. Is(iter)
  BY <1>3, Zenon
<1>5. iter[{}] = base
  <2>1. {} \in SUBSET (1..n)
    OBVIOUS
  <2> HIDE DEF iter, base
  <2> QED BY <1>4, <2>1
<1>6. ASSUME NEW k \in 1..n
      PROVE  iter[1..k] = Settle(iter[1..k - 1], Down[k])
  <2>1. /\ Max(1..k) = k /\ (1..k) \ {k} = 1..k - 1
        /\ 1..k \in SUBSET (1..n) /\ 1..k # {}
    BY LastOfRange
  <2> HIDE DEF iter, base
  <2>2. iter[1..k] = Settle(iter[(1..k) \ {Max(1..k)}], Down[Max(1..k)])
    BY <1>4, <2>1
  <2> QED BY <2>1, <2>2
<1> HIDE DEF iter, base
<1>7. g[0] = base
  <2>1. 1..0 = {}
    OBVIOUS
  <2> QED BY <1>5, <2>1
<1>8. \A k \in 1..n : g[k] = Settle(g[k - 1], k)
  BY <1>6, <1>0
<1>9. Pass4(f) = g[n]
  BY <1>1
<1> HIDE DEF g
<1>10. \A k \in 0..n : g[k] \in S
  <2> DEFINE A == {k \in 0..n : g[k] \in S}
  <2>1. 0 \in A
    BY <1>7 DEF base
  <2>2. ASSUME NEW k \in 1..n, k - 1 \in A
        PROVE  k \in A
    <3>1. g[k - 1] \in S
      BY <2>2
    <3>2. Settle(g[k - 1], k) \in S
      BY <3>1
    <3>3. g[k] \in S
      BY <1>8, <3>2, Zenon
    <3> QED BY <3>3
  <2> HIDE DEF A
  <2>3. \A k \in 0..n : k \in A
    BY <2>1, <2>2, UpTo
  <2> QED BY <2>3 DEF A
<1> QED BY <1>7, <1>8, <1>9, <1>10 DEF base, Pass4Run

AddNodeRun(f, st, m, n, S, g) ==
  /\ g[0] = BeginSplit(f, st, m) /\ \A k \in 0..n : g[k] \in S
  /\ \A k \in 1..n : g[k] = AddSource(f, m, g[k - 1], Src(m)[k])
  /\ AddNode(f, st, m) = g[n]
LEMMA AddNodeSteps ==
  ASSUME NEW f, NEW st, NEW m, ~IsView(m), NEW n \in Nat, DOMAIN Src(m) = 1..n,
         NEW S, BeginSplit(f, st, m) \in S,
         \A s \in S : \A i \in 1..n : AddSource(f, m, s, Src(m)[i]) \in S
  PROVE  \E g : AddNodeRun(f, st, m, n, S, g)
<1> DEFINE base == BeginSplit(f, st, m)
           F == [i \in 1..n |-> [s \in S |-> AddSource(f, m, s, Src(m)[i])]]
           Is(h) == h = [s \in SUBSET (1..n) |-> IF s = {} THEN base
                           ELSE AddSource(f, m, h[s \ {Max(s)}], Src(m)[Max(s)])]
           iter == CHOOSE h : Is(h)
           g == [k \in 0..n |-> iter[1..k]]
<1>1. AddNode(f, st, m) = iter[1..n]
  BY DEF AddNode, FoldLeft, MapThenFoldSet
<1>2. PICK h \in [SUBSET (1..n) -> S] : Recursion(h, n, F, base)
  <2>1. F \in [1..n -> [S -> S]]
    OBVIOUS
  <2> HIDE DEF F, base
  <2> QED BY <2>1, FoldDefined DEF base
<1>3. Is(h)
  <2> DEFINE e == [s \in SUBSET (1..n) |-> IF s = {} THEN base
                     ELSE AddSource(f, m, h[s \ {Max(s)}], Src(m)[Max(s)])]
  <2>1. ASSUME NEW s \in SUBSET (1..n), s # {}
        PROVE  F[Max(s)][h[s \ {Max(s)}]] = AddSource(f, m, h[s \ {Max(s)}], Src(m)[Max(s)])
    <3>1. s \in SUBSET (0..n)
      OBVIOUS
    <3>2. Max(s) \in s
      BY <2>1, <3>1, LargestNat
    <3> QED BY <3>2
  <2>2. h = e
    <3> HIDE DEF F, base
    <3> QED BY <1>2, <2>1 DEF Recursion
  <2> QED BY <2>2
<1>4. Is(iter)
  BY <1>3, Zenon
<1>5. iter[{}] = base
  <2>1. {} \in SUBSET (1..n)
    OBVIOUS
  <2> HIDE DEF iter, base
  <2> QED BY <1>4, <2>1
<1>6. ASSUME NEW k \in 1..n
      PROVE  iter[1..k] = AddSource(f, m, iter[1..k - 1], Src(m)[k])
  <2>1. /\ Max(1..k) = k /\ (1..k) \ {k} = 1..k - 1
        /\ 1..k \in SUBSET (1..n) /\ 1..k # {}
    BY LastOfRange
  <2> HIDE DEF iter, base
  <2>2. iter[1..k] = AddSource(f, m, iter[(1..k) \ {Max(1..k)}], Src(m)[Max(1..k)])
    BY <1>4, <2>1
  <2> QED BY <2>1, <2>2
<1> HIDE DEF iter, base
<1>7. g[0] = base
  <2>1. 1..0 = {}
    OBVIOUS
  <2> QED BY <1>5, <2>1
<1>8. \A k \in 1..n : g[k] = AddSource(f, m, g[k - 1], Src(m)[k])
  BY <1>6
<1>9. AddNode(f, st, m) = g[n]
  BY <1>1
<1> HIDE DEF g
<1>10. \A k \in 0..n : g[k] \in S
  <2> DEFINE A == {k \in 0..n : g[k] \in S}
  <2>1. 0 \in A
    BY <1>7 DEF base
  <2>2. ASSUME NEW k \in 1..n, k - 1 \in A
        PROVE  k \in A
    <3>1. g[k - 1] \in S
      BY <2>2
    <3>2. AddSource(f, m, g[k - 1], Src(m)[k]) \in S
      BY <3>1
    <3>3. g[k] \in S
      BY <1>8, <3>2, Zenon
    <3> QED BY <3>3
  <2> HIDE DEF A
  <2>3. \A k \in 0..n : k \in A
    BY <2>1, <2>2, UpTo
  <2> QED BY <2>3 DEF A
<1> QED BY <1>7, <1>8, <1>9, <1>10 DEF base, AddNodeRun

Pass5Run(f, known, n, S, g) ==
  /\ g[0] = BeginCut(f, known) /\ \A k \in 0..n : g[k] \in S
  /\ \A k \in 1..n : g[k] = AddNode(f, g[k - 1], k)
  /\ Pass5(f, known) = g[n]
LEMMA Pass5Steps ==
  ASSUME NEW f, NEW known, NEW n \in Nat, Nodes = 1..n,
         NEW S, BeginCut(f, known) \in S,
         \A s \in S : \A i \in 1..n : AddNode(f, s, i) \in S
  PROVE  \E g : Pass5Run(f, known, n, S, g)
<1> DEFINE base == BeginCut(f, known)
           F == [i \in 1..n |-> [s \in S |-> AddNode(f, s, Down[i])]]
           Is(h) == h = [s \in SUBSET (1..n) |-> IF s = {} THEN base
                           ELSE AddNode(f, h[s \ {Max(s)}], Down[Max(s)])]
           iter == CHOOSE h : Is(h)
           g == [k \in 0..n |-> iter[1..k]]
<1>0. DOMAIN Down = 1..n /\ \A i \in 1..n : Down[i] = i
  BY DEF Down
<1>1. Pass5(f, known) = iter[1..n]
  BY <1>0 DEF Pass5, FoldLeft, MapThenFoldSet
<1>2. PICK h \in [SUBSET (1..n) -> S] : Recursion(h, n, F, base)
  <2>1. F \in [1..n -> [S -> S]]
    BY <1>0
  <2> HIDE DEF F, base
  <2> QED BY <2>1, FoldDefined DEF base
<1>3. Is(h)
  <2> DEFINE e == [s \in SUBSET (1..n) |-> IF s = {} THEN base
                     ELSE AddNode(f, h[s \ {Max(s)}], Down[Max(s)])]
  <2>1. ASSUME NEW s \in SUBSET (1..n), s # {}
        PROVE  F[Max(s)][h[s \ {Max(s)}]] = AddNode(f, h[s \ {Max(s)}], Down[Max(s)])
    <3>1. s \in SUBSET (0..n)
      OBVIOUS
    <3>2. Max(s) \in s
      BY <2>1, <3>1, LargestNat
    <3> QED BY <3>2
  <2>2. h = e
    <3> HIDE DEF F, base
    <3> QED BY <1>2, <2>1 DEF Recursion
  <2> QED BY <2>2
<1>4. Is(iter)
  BY <1>3, Zenon
<1>5. iter[{}] = base
  <2>1. {} \in SUBSET (1..n)
    OBVIOUS
  <2> HIDE DEF iter, base
  <2> QED BY <1>4, <2>1
<1>6. ASSUME NEW k \in 1..n
      PROVE  iter[1..k] = AddNode(f, iter[1..k - 1], Down[k])
  <2>1. /\ Max(1..k) = k /\ (1..k) \ {k} = 1..k - 1
        /\ 1..k \in SUBSET (1..n) /\ 1..k # {}
    BY LastOfRange
  <2> HIDE DEF iter, base
  <2>2. iter[1..k] = AddNode(f, iter[(1..k) \ {Max(1..k)}], Down[Max(1..k)])
    BY <1>4, <2>1
  <2> QED BY <2>1, <2>2
<1> HIDE DEF iter, base
<1>7. g[0] = base
  <2>1. 1..0 = {}
    OBVIOUS
  <2> QED BY <1>5, <2>1
<1>8. \A k \in 1..n : g[k] = AddNode(f, g[k - 1], k)
  BY <1>6, <1>0
<1>9. Pass5(f, known) = g[n]
  BY <1>1
<1> HIDE DEF g
<1>10. \A k \in 0..n : g[k] \in S
  <2> DEFINE A == {k \in 0..n : g[k] \in S}
  <2>1. 0 \in A
    BY <1>7 DEF base
  <2>2. ASSUME NEW k \in 1..n, k - 1 \in A
        PROVE  k \in A
    <3>1. g[k - 1] \in S
      BY <2>2
    <3>2. AddNode(f, g[k - 1], k) \in S
      BY <3>1
    <3>3. g[k] \in S
      BY <1>8, <3>2, Zenon
    <3> QED BY <3>3
  <2> HIDE DEF A
  <2>3. \A k \in 0..n : k \in A
    BY <2>1, <2>2, UpTo
  <2> QED BY <2>3 DEF A
<1> QED BY <1>7, <1>8, <1>9, <1>10 DEF base, Pass5Run

OrderRun(f, sp, n, S, g) ==
  /\ g[0] = <<>> /\ \A k \in 0..n : g[k] \in S
  /\ \A k \in 1..n : g[k] = g[k - 1] \o InputEntries(f, sp, k) \o NodeEntries(f, sp, k)
  /\ OrderOf(f, sp) = g[n]
LEMMA OrderSteps ==
  ASSUME NEW f, NEW sp, NEW n \in Nat, DOMAIN sp = 1..n,
         NEW S, <<>> \in S,
         \A s \in S : \A i \in 1..n : s \o InputEntries(f, sp, i) \o NodeEntries(f, sp, i) \in S
  PROVE  \E g : OrderRun(f, sp, n, S, g)
<1> DEFINE base == <<>>
           F == [i \in 1..n |-> [s \in S |-> s \o InputEntries(f, sp, [j \in DOMAIN sp |-> j][i])
                                        \o NodeEntries(f, sp, [j \in DOMAIN sp |-> j][i])]]
           Is(h) == h = [s \in SUBSET (1..n) |-> IF s = {} THEN base
                           ELSE h[s \ {Max(s)}] \o InputEntries(f, sp, [i \in DOMAIN sp |-> i][Max(s)]) \o NodeEntries(f, sp, [i \in DOMAIN sp |-> i][Max(s)])]
           iter == CHOOSE h : Is(h)
           g == [k \in 0..n |-> iter[1..k]]
<1>0. DOMAIN [i \in DOMAIN sp |-> i] = 1..n /\ \A i \in 1..n : [j \in DOMAIN sp |-> j][i] = i
  BY DEF Down
<1>1. OrderOf(f, sp) = iter[1..n]
  BY <1>0 DEF OrderOf, FoldLeft, MapThenFoldSet
<1>2. PICK h \in [SUBSET (1..n) -> S] : Recursion(h, n, F, base)
  <2>1. F \in [1..n -> [S -> S]]
    BY <1>0
  <2> HIDE DEF F, base
  <2> QED BY <2>1, FoldDefined DEF base
<1>3. Is(h)
  <2> DEFINE e == [s \in SUBSET (1..n) |-> IF s = {} THEN base
                     ELSE h[s \ {Max(s)}] \o InputEntries(f, sp, [i \in DOMAIN sp |-> i][Max(s)]) \o NodeEntries(f, sp, [i \in DOMAIN sp |-> i][Max(s)])]
  <2>1. ASSUME NEW s \in SUBSET (1..n), s # {}
        PROVE  F[Max(s)][h[s \ {Max(s)}]] = h[s \ {Max(s)}] \o InputEntries(f, sp, [i \in DOMAIN sp |-> i][Max(s)]) \o NodeEntries(f, sp, [i \in DOMAIN sp |-> i][Max(s)])
    <3>1. s \in SUBSET (0..n)
      OBVIOUS
    <3>2. Max(s) \in s
      BY <2>1, <3>1, LargestNat
    <3> QED BY <3>2
  <2>2. h = e
    <3> HIDE DEF F, base
    <3> QED BY <1>2, <2>1 DEF Recursion
  <2> QED BY <2>2
<1>4. Is(iter)
  BY <1>3, Zenon
<1>5. iter[{}] = base
  <2>1. {} \in SUBSET (1..n)
    OBVIOUS
  <2> HIDE DEF iter, base
  <2> QED BY <1>4, <2>1
<1>6. ASSUME NEW k \in 1..n
      PROVE  iter[1..k] = iter[1..k - 1] \o InputEntries(f, sp, [i \in DOMAIN sp |-> i][k]) \o NodeEntries(f, sp, [i \in DOMAIN sp |-> i][k])
  <2>1. /\ Max(1..k) = k /\ (1..k) \ {k} = 1..k - 1
        /\ 1..k \in SUBSET (1..n) /\ 1..k # {}
    BY LastOfRange
  <2> HIDE DEF iter, base
  <2>2. iter[1..k] = iter[(1..k) \ {Max(1..k)}] \o InputEntries(f, sp, [i \in DOMAIN sp |-> i][Max(1..k)]) \o NodeEntries(f, sp, [i \in DOMAIN sp |-> i][Max(1..k)])
    BY <1>4, <2>1
  <2> QED BY <2>1, <2>2
<1> HIDE DEF iter, base
<1>7. g[0] = base
  <2>1. 1..0 = {}
    OBVIOUS
  <2> QED BY <1>5, <2>1
<1>8. \A k \in 1..n : g[k] = g[k - 1] \o InputEntries(f, sp, k) \o NodeEntries(f, sp, k)
  BY <1>6, <1>0
<1>9. OrderOf(f, sp) = g[n]
  BY <1>1
<1> HIDE DEF g
<1>10. \A k \in 0..n : g[k] \in S
  <2> DEFINE A == {k \in 0..n : g[k] \in S}
  <2>1. 0 \in A
    BY <1>7 DEF base
  <2>2. ASSUME NEW k \in 1..n, k - 1 \in A
        PROVE  k \in A
    <3>1. g[k - 1] \in S
      BY <2>2
    <3>2. g[k - 1] \o InputEntries(f, sp, k) \o NodeEntries(f, sp, k) \in S
      BY <3>1
    <3>3. g[k] \in S
      BY <1>8, <3>2, Zenon
    <3> QED BY <3>3
  <2> HIDE DEF A
  <2>3. \A k \in 0..n : k \in A
    BY <2>1, <2>2, UpTo
  <2> QED BY <2>3 DEF A
<1> QED BY <1>7, <1>8, <1>9, <1>10 DEF base, OrderRun

-----------------------------------------------------------------------------
(* A machine and a graph on it.                                             *)
GraphOK == platform \in Platforms /\ WellFormed(platform, graph)

LEMMA MachineFacts ==
  ASSUME platform \in Platforms
  PROVE  /\ Cpu \in Nat /\ Backends = 0..Cpu
         /\ \A b \in Backends : Buft(b) \in Uses(b)
         /\ platform.async \subseteq Backends \ {Cpu}
         /\ \A a \in platform.async : \A b \in Backends \ {a} : Uses(a) \intersect Uses(b) = {}
<1>1. /\ Len(platform.buft) \in Nat \ {0} /\ DOMAIN platform.buft = 1..Len(platform.buft)
      /\ DOMAIN platform.uses = 1..Len(platform.buft)
      /\ platform.async \subseteq 0..Len(platform.buft) - 2
  BY SchedPlatforms
<1>2. Cpu \in Nat /\ Backends = 0..Cpu
  BY <1>1 DEF Cpu, Backends
<1>3. ASSUME NEW b \in Backends
      PROVE  b + 1 \in DOMAIN platform.buft /\ b + 1 \in DOMAIN platform.uses
  BY <1>1, <1>3 DEF Cpu, Backends
<1>4. \A b \in Backends : Buft(b) \in Uses(b)
  BY <1>3, SchedPlatforms DEF Buft, Uses
<1>5. platform.async \subseteq Backends \ {Cpu}
  BY <1>1 DEF Cpu, Backends
<1>6. ASSUME NEW a \in platform.async, NEW b \in Backends \ {a}
      PROVE  Uses(a) \intersect Uses(b) = {}
  <2>1. b + 1 \in DOMAIN platform.uses \ {a + 1}
    BY <1>1, <1>3 DEF Cpu, Backends
  <2> QED BY <2>1, SchedPlatforms DEF Uses
<1> QED BY <1>2, <1>4, <1>5, <1>6

LEMMA GraphFacts ==
  ASSUME GraphOK
  PROVE  /\ Len(graph) \in Nat \ {0} /\ Nodes = 1..Len(graph)
         /\ \E n \in Nodes : ~IsView(n)
         /\ \A t \in Leaves : t \in Tensors /\ t \notin Nodes /\ IsLeaf(t) /\ ~IsView(t) /\ t \in Int /\ t <= 0
         /\ \A n \in Nodes : n \in Tensors /\ ~IsLeaf(n) /\ n \in Nat
<1>1. graph \in Seq(Range(graph)) /\ \E n \in Nodes : graph[n].op # "view"
  BY DEF GraphOK, WellFormed, Nodes
<1>2. Len(graph) \in Nat \ {0} /\ Nodes = 1..Len(graph)
  BY <1>1 DEF Nodes
<1>3. \A n \in Nodes : n \in Tensors /\ ~IsLeaf(n) /\ n \in Nat
  BY <1>2 DEF Tensors, IsLeaf
<1>4. \A t \in Leaves : t \in Tensors /\ t \notin Nodes /\ IsLeaf(t) /\ ~IsView(t) /\ t \in Int /\ t <= 0
  BY <1>2, SchedConstants DEF Tensors, IsLeaf, IsView
<1> QED BY <1>1, <1>2, <1>3, <1>4 DEF IsView

(* The sources of a node come before it.                                    *)
LEMMA SourceFacts ==
  ASSUME GraphOK, NEW n \in Nodes
  PROVE  /\ Src(n) = graph[n].src /\ Src(n) \in Seq(Tensors)
         /\ Len(Src(n)) \in Nat /\ DOMAIN Src(n) = 1..Len(Src(n))
         /\ \A j \in DOMAIN Src(n) : Src(n)[j] \in Tensors /\ Src(n)[j] < n
         /\ Range(Src(n)) \subseteq Tensors
<1>1. Src(n) = graph[n].src /\ n \in Nat
  BY GraphFacts DEF Src
<1>2. Src(n) \in Seq(Leaves \union 1..n - 1)
  BY <1>1 DEF GraphOK, WellFormed, WellFormedNode, Nodes
<1>3. \A t \in Leaves \union 1..n - 1 : t \in Tensors /\ t < n
  BY GraphFacts, SchedConstants DEF Tensors
<1>4. Len(Src(n)) \in Nat /\ DOMAIN Src(n) = 1..Len(Src(n))
  BY <1>2
<1>5. \A j \in DOMAIN Src(n) : Src(n)[j] \in Tensors /\ Src(n)[j] < n
  BY <1>2, <1>3
<1>6. Src(n) \in Seq(Tensors)
  BY <1>2, <1>4, <1>5
<1> QED BY <1>1, <1>4, <1>5, <1>6 DEF Range

(* Every tensor is in the memory of its root.                               *)
LEMMA RootFacts ==
  ASSUME GraphOK, NEW t \in Tensors
  PROVE  /\ Root(t) \in Tensors /\ Root(t) <= t /\ ~IsView(Root(t)) /\ Root(Root(t)) = Root(t)
         /\ Root(t) \in Nodes => graph[Root(t)].op = "op"
         /\ t \in Nodes => Root(t) \in Leaves \union Nodes
         /\ Runs(t) # {} /\ Runs(t) \subseteq Backends
         /\ Stored(t) => Root(t) \in Leaves
         /\ ~Stored(t) => Root(t) \in Inputs \/ Root(t) \in Nodes
<1>1. CASE t \in Leaves
  BY <1>1, GraphFacts, MachineFacts, SchedConstants
     DEF Root, Runs, Stored, GraphOK
<1>2. CASE t \in Nodes
  <2>1. WellFormedNode(platform, graph, t) /\ Root(t) = graph[t].root
    BY <1>2, GraphFacts DEF GraphOK, WellFormed, Nodes, Root
  <2>2. Root(t) \in Leaves \/ (Root(t) \in Nodes /\ Root(t) <= t /\ graph[Root(t)].op = "op")
    BY <1>2, <2>1, GraphFacts DEF WellFormedNode
  <2>3. Root(t) \in Tensors /\ Root(t) <= t /\ ~IsView(Root(t))
    <3>1. CASE Root(t) \in Leaves
      <4>1. Root(t) <= 0 /\ 0 <= t
        <5>1. t \in Nat
          BY <1>2, GraphFacts
        <5>2. Root(t) <= 0
          BY <3>1, GraphFacts
        <5> QED BY <5>1, <5>2
      <4>2. Root(t) \in Int /\ t \in Int
        BY <1>2, <3>1, GraphFacts
      <4>3. Root(t) <= t
        BY <4>1, <4>2
      <4> QED BY <3>1, <4>3, GraphFacts
    <3>2. CASE Root(t) \in Nodes /\ Root(t) <= t /\ graph[Root(t)].op = "op"
      BY <3>2, GraphFacts DEF IsView
    <3> QED BY <2>2, <3>1, <3>2
  <2>4. Root(Root(t)) = Root(t)
    <3>1. CASE Root(t) \in Leaves
      BY <3>1, GraphFacts DEF Root
    <3>2. CASE Root(t) \in Nodes /\ graph[Root(t)].op = "op"
      <4>1. WellFormedNode(platform, graph, Root(t)) /\ Root(Root(t)) = graph[Root(t)].root
        BY <3>2, GraphFacts DEF GraphOK, WellFormed, Nodes, Root
      <4> QED BY <3>2, <4>1 DEF WellFormedNode
    <3> QED BY <2>2, <3>1, <3>2
  <2>5. Runs(t) # {} /\ Runs(t) \subseteq Backends
    <3>1. CASE graph[t].op = "view"
      BY <1>2, <3>1, GraphFacts, MachineFacts DEF Runs, IsView, GraphOK
    <3>2. CASE graph[t].op # "view"
      <4>1. graph[t].runs # {} /\ graph[t].runs \subseteq 0..Len(platform.buft) - 1
        BY <2>1, <3>2 DEF WellFormedNode
      <4>2. Runs(t) = graph[t].runs
        BY <1>2, <3>2, GraphFacts DEF Runs, IsView
      <4> QED BY <4>1, <4>2 DEF Cpu, Backends
    <3> QED BY <3>1, <3>2
  <2>6. /\ Root(t) \in Nodes => graph[Root(t)].op = "op"
        /\ Stored(t) => Root(t) \in Leaves
        /\ ~Stored(t) => Root(t) \in Inputs \/ Root(t) \in Nodes
    BY <2>2, GraphFacts, SchedConstants DEF Stored
  <2> QED BY <1>2, <2>2, <2>3, <2>4, <2>5, <2>6
<1> QED BY <1>1, <1>2 DEF Tensors

(* The three kinds of nodes.                                                *)
LEMMA KindFacts ==
  ASSUME GraphOK, NEW n \in Nodes
  PROVE  \/ graph[n].op = "op" /\ ~IsView(n) /\ Root(n) = n /\ ~Stored(n)
         \/ graph[n].op = "view" /\ IsView(n) /\ Len(Src(n)) = 1 /\ Root(n) = Root(Src(n)[1])
         \/ /\ graph[n].op = "write" /\ ~IsView(n) /\ Len(Src(n)) = 2 /\ Stored(n)
            /\ Root(n) = Root(Src(n)[2])
<1>1. WellFormedNode(platform, graph, n) /\ Root(n) = graph[n].root /\ Src(n) = graph[n].src
  BY GraphFacts DEF GraphOK, WellFormed, Nodes, Root, Src
<1>2. \A t : RootIn(graph, t) = Root(t)
  BY DEF RootIn, Root, IsLeaf
<1>3. n \notin Leaves
  BY GraphFacts
<1>4. CASE graph[n].op = "op"
  BY <1>1, <1>3, <1>4, SchedConstants DEF WellFormedNode, IsView, Stored
<1>5. CASE graph[n].op = "view"
  BY <1>1, <1>2, <1>5, GraphFacts DEF WellFormedNode, IsView
<1>6. CASE graph[n].op = "write"
  BY <1>1, <1>2, <1>6, GraphFacts DEF WellFormedNode, IsView, Stored
<1> QED BY <1>1, <1>4, <1>5, <1>6 DEF WellFormedNode

-----------------------------------------------------------------------------
(* Passes 1 to 4: what is in a buffer is where a backend can use it, inputs *)
(* are with the CPU, and an operation is unassigned or on a backend that    *)
(* supports it.                                                             *)
Assignments == [Tensors -> Backends \union {-1}]
Placed(f) ==
  /\ \A t \in Tensors : Stored(t) => f[t] # -1 /\ Buffer[Root(t)] \in Uses(f[t])
  /\ \A t \in Inputs : f[t] = Cpu
  /\ \A n \in Nodes : ~IsView(n) => f[n] = -1 \/ f[n] \in Runs(n)
Bare(f) == \A v \in Nodes : IsView(v) /\ ~Stored(v) => f[v] = -1
Kin(f)  == \A v \in Nodes : IsView(v) /\ ~Stored(v) => f[v] = -1 \/ f[v] = f[Root(v)]
Begun  == {f \in Assignments : Placed(f) /\ Bare(f)}
Whole(f) == \A n \in Nodes : ~IsView(n) => f[n] # -1
Nearly == {f \in Assignments : Placed(f) /\ Kin(f) /\ Whole(f)}
NoneStuck == \A t \in Tensors : ~Stuck(t)

LEMMA FromBuffer ==
  ASSUME GraphOK, NEW t \in Tensors, NEW buft
  PROVE  \/ BackendFromBuffer(buft, t) = -1
         \/ /\ BackendFromBuffer(buft, t) \in Runs(t) /\ BackendFromBuffer(buft, t) \in Backends
            /\ buft \in Uses(BackendFromBuffer(buft, t))
<1> DEFINE able == {b \in Runs(t) : buft \in Uses(b)}
<1>1. able \in SUBSET Nat
  BY RootFacts, MachineFacts DEF GraphOK
<1>2. able # {} => Min(able) \in able
  BY <1>1, LeastNat
<1> QED BY <1>2, RootFacts DEF BackendFromBuffer

LEMMA OfWeight ==
  ASSUME GraphOK, NEW n \in Nodes, ~IsView(n), NEW w
  PROVE  BackendOfWeight(w, n) = -1 \/ (BackendOfWeight(w, n) \in Runs(n) /\ BackendOfWeight(w, n) \in Backends)
<1> DEFINE home   == BackendFromBuffer(Buffer[w], n)
           offers == {b \in graph[n].offers \intersect graph[n].runs : b < home}
<1>1. n \in Tensors /\ Runs(n) = graph[n].runs /\ Runs(n) \subseteq Backends
  BY GraphFacts, RootFacts DEF Runs
<1>2. offers \in SUBSET Nat
  BY <1>1, MachineFacts DEF GraphOK
<1>3. offers # {} => Min(offers) \in offers
  BY <1>2, LeastNat
<1>4. home = -1 \/ (home \in Runs(n) /\ home \in Backends)
  BY <1>1, FromBuffer
<1> HIDE DEF home
<1> QED BY <1>1, <1>3, <1>4 DEF BackendOfWeight, home

LEMMA Pass1Begun ==
  ASSUME GraphOK, NoneStuck, NEW f, \A t \in Tensors : f[t] = -1
  PROVE  Pass1(f) \in Begun
<1> DEFINE g == Pass1(f)
<1>1. g = [t \in Tensors |-> BackendFromCur(t)]
  BY DEF Pass1
<1>2. ASSUME NEW t \in Tensors, Stored(t)
      PROVE  g[t] \in Backends /\ g[t] # -1 /\ Buffer[Root(t)] \in Uses(g[t]) /\ g[t] \in Runs(t)
  <2>1. g[t] = BackendFromBuffer(Buffer[Root(t)], t)
    BY <1>1, <1>2 DEF BackendFromCur
  <2>2. g[t] # -1
    BY <1>2, <2>1 DEF NoneStuck, Stuck
  <2> QED BY <2>1, <2>2, FromBuffer
<1>3. ASSUME NEW t \in Inputs
      PROVE  t \in Tensors /\ g[t] = Cpu
  <2>1. t \in Leaves /\ t \in Tensors
    BY SchedConstants, GraphFacts
  <2>2. ~Stored(t)
    BY <2>1, GraphFacts, SchedConstants DEF Stored, Root
  <2> QED BY <1>1, <2>1, <2>2 DEF BackendFromCur
<1>4. ASSUME NEW n \in Nodes, ~Stored(n), ~IsView(n)
      PROVE  g[n] = -1 \/ (g[n] \in Runs(n) /\ g[n] \in Backends)
  <2>1. n \notin Inputs /\ n \in Tensors
    BY GraphFacts, SchedConstants
  <2> DEFINE weights == {j \in DOMAIN Src(n) : Src(n)[j] \in Weights}
  <2>2. CASE weights = {}
    BY <1>1, <1>4, <2>1, <2>2 DEF BackendFromCur
  <2>3. CASE weights # {}
    <3>1. g[n] = BackendOfWeight(Src(n)[Min(weights)], n)
      BY <1>1, <1>4, <2>1, <2>3 DEF BackendFromCur
    <3> QED BY <1>4, <3>1, OfWeight
  <2> QED BY <2>2, <2>3
<1>5. ASSUME NEW v \in Nodes, ~Stored(v), IsView(v)
      PROVE  g[v] = -1
  <2>1. v \notin Inputs /\ v \in Tensors
    BY GraphFacts, SchedConstants
  <2>2. Len(Src(v)) = 1 /\ Root(v) = Root(Src(v)[1])
    BY <1>5, KindFacts
  <2>3. ASSUME NEW j \in DOMAIN Src(v), Src(v)[j] \in Weights
        PROVE  FALSE
    <3>1. j = 1
      BY <2>2, SourceFacts
    <3>2. Src(v)[1] \in Leaves /\ Src(v)[1] \in DOMAIN Buffer
      BY <2>3, <3>1, SchedConstants
    <3>3. Root(v) \in DOMAIN Buffer
      BY <2>2, <3>2, GraphFacts DEF Root
    <3> QED BY <1>5, <3>3 DEF Stored
  <2>4. {j \in DOMAIN Src(v) : Src(v)[j] \in Weights} = {}
    BY <2>3
  <2> QED BY <1>1, <1>5, <2>1, <2>4 DEF BackendFromCur
<1>6. ASSUME NEW t \in Tensors
      PROVE  g[t] \in Backends \union {-1}
  <2>1. CASE Stored(t)
    BY <1>2, <2>1
  <2>2. CASE ~Stored(t) /\ t \in Nodes
    BY <1>4, <1>5, <2>2
  <2>3. CASE ~Stored(t) /\ t \in Leaves
    BY <1>3, <2>3, GraphFacts, SchedConstants, MachineFacts DEF Stored, Root, GraphOK
  <2> QED BY <2>1, <2>2, <2>3 DEF Tensors
<1>7. g \in Assignments
  BY <1>1, <1>6 DEF Assignments
<1>8. ASSUME NEW n \in Nodes, ~IsView(n)
      PROVE  g[n] = -1 \/ g[n] \in Runs(n)
  BY <1>2, <1>4, <1>8, GraphFacts
<1> HIDE DEF g
<1>9. Placed(g) /\ Bare(g)
  BY <1>2, <1>3, <1>5, <1>8 DEF Placed, Bare
<1> QED BY <1>7, <1>9 DEF Begun, g

(* An operation may go to any backend that supports it.                     *)
LEMMA AssignKeeps ==
  ASSUME GraphOK, NEW f \in Assignments, Placed(f), NEW n \in Nodes, ~IsView(n),
         NEW b \in Runs(n), Stored(n) => Buffer[Root(n)] \in Uses(b)
  PROVE  /\ [f EXCEPT ![n] = b] \in Assignments /\ Placed([f EXCEPT ![n] = b])
         /\ Bare(f) => Bare([f EXCEPT ![n] = b])
<1>1. n \in Tensors /\ n \notin Inputs /\ b \in Backends /\ b # -1
  BY GraphFacts, RootFacts, SchedConstants, MachineFacts DEF GraphOK
<1>2. [f EXCEPT ![n] = b] \in Assignments
  BY <1>1 DEF Assignments
<1>3. \A t \in Tensors : [f EXCEPT ![n] = b][t] = IF t = n THEN b ELSE f[t]
  BY <1>1 DEF Assignments
<1>4. Inputs \subseteq Tensors /\ Nodes \subseteq Tensors
  BY GraphFacts, SchedConstants
<1> HIDE DEF Assignments
<1> DEFINE g == [f EXCEPT ![n] = b]
<1> HIDE DEF g
<1>5. /\ g \in Assignments /\ \A t \in Tensors : g[t] = IF t = n THEN b ELSE f[t]
  BY <1>2, <1>3 DEF g
<1>6. Placed(g)
  BY <1>1, <1>4, <1>5 DEF Placed
<1>7. Bare(f) => Bare(g)
  BY <1>4, <1>5 DEF Bare
<1> QED BY <1>5, <1>6, <1>7 DEF g

LEMMA SpreadKeeps ==
  ASSUME GraphOK, NEW s \in [ids : Begun, cur : Backends \union {-1}], NEW n \in Nodes, NEW skip
  PROVE  Spread(s, n, skip) \in [ids : Begun, cur : Backends \union {-1}]
<1>1. s.ids \in Assignments /\ Placed(s.ids) /\ Bare(s.ids) /\ n \in Tensors
  BY GraphFacts DEF Begun
<1>2. s.ids[n] \in Backends \union {-1}
  BY <1>1 DEF Assignments
<1>3. CASE ~IsView(n) /\ s.ids[n] = -1 /\ s.cur \in Runs(n)
  <2>1. ~Stored(n)
    BY <1>1, <1>3 DEF Placed
  <2> DEFINE g == [s.ids EXCEPT ![n] = s.cur]
  <2>2. g \in Begun
    BY <1>1, <1>3, <2>1, AssignKeeps DEF Begun
  <2>3. Spread(s, n, skip) = [s EXCEPT !.ids = g]
    BY <1>3 DEF Spread
  <2> HIDE DEF g
  <2> QED BY <2>2, <2>3
<1>4. CASE ~IsView(n) /\ s.ids[n] # -1
  <2>1. Spread(s, n, skip) = [s EXCEPT !.cur = IF skip /\ s.ids[n] = Cpu THEN -1 ELSE s.ids[n]]
    BY <1>4 DEF Spread
  <2> QED BY <1>2, <2>1
<1>5. CASE IsView(n) \/ (s.ids[n] = -1 /\ s.cur \notin Runs(n))
  <2>1. Spread(s, n, skip) = s
    BY <1>5 DEF Spread
  <2> QED BY <2>1
<1> QED BY <1>3, <1>4, <1>5

LEMMA ExpandKeeps ==
  ASSUME GraphOK, NEW f \in Begun, NEW skip, NEW nodes \in Seq(Nodes)
  PROVE  Expand(f, nodes, skip) \in Begun
<1> DEFINE S == [ids : Begun, cur : Backends \union {-1}]
           n == Len(nodes)
<1>1. n \in Nat /\ DOMAIN nodes = 1..n
  OBVIOUS
<1>2. [ids |-> f, cur |-> -1] \in S
  OBVIOUS
<1>3. \A s \in S : \A i \in 1..n : Spread(s, nodes[i], skip) \in S
  BY SpreadKeeps
<1> HIDE DEF S, n
<1>4. PICK g : ExpandRun(f, skip, nodes, n, S, g)
  BY <1>1, <1>2, <1>3, ExpandSteps
<1>5. g[n] \in S /\ Expand(f, nodes, skip) = g[n].ids
  BY <1>1, <1>4 DEF ExpandRun
<1> QED BY <1>5 DEF S

LEMMA Pass2Begun ==
  ASSUME GraphOK, NEW f \in Begun
  PROVE  Pass2(f) \in Begun
<1>1. Down \in Seq(Nodes) /\ Len(Down) = Len(graph)
  BY GraphFacts DEF Down
<1>2. Up \in Seq(Nodes)
  BY <1>1 DEF Up, Reverse
<1>3. Expand(f, Down, TRUE) \in Begun
  BY <1>1, ExpandKeeps
<1>4. Expand(Expand(f, Down, TRUE), Up, TRUE) \in Begun
  BY <1>2, <1>3, ExpandKeeps
<1>5. Expand(Expand(Expand(f, Down, TRUE), Up, TRUE), Down, FALSE) \in Begun
  BY <1>1, <1>4, ExpandKeeps
<1> QED BY <1>2, <1>5, ExpandKeeps DEF Pass2

(* Some backend has the most supported sources.                             *)
LEMMA BestExists ==
  ASSUME GraphOK, NEW g, NEW n \in Nodes
  PROVE  Best(g, n) # {} /\ Best(g, n) \subseteq Runs(n)
<1> DEFINE len == Len(Src(n))
           counts == {Supported(g, n, b) : b \in Runs(n)}
<1>1. n \in Tensors /\ Runs(n) # {} /\ len \in Nat /\ DOMAIN Src(n) = 1..len
  BY GraphFacts, RootFacts, SourceFacts
<1>2. ASSUME NEW b \in Runs(n)
      PROVE  Supported(g, n, b) \in 0..len
  <2> DEFINE those == {j \in DOMAIN Src(n) :
                 /\ g[Src(n)[j]] # -1 \/ g[Root(Src(n)[j])] # -1
                 /\ BufferSupported(g, Src(n)[j], b)}
  <2>1. IsFiniteSet(1..len) /\ Cardinality(1..len) = len
    <3>1. len \in Int /\ 1 \in Int /\ len >= 0
      BY <1>1
    <3>2. IsFiniteSet(1..len) /\ Cardinality(1..len) = IF 1 > len THEN 0 ELSE len - 1 + 1
      BY <3>1, FS_Interval, Zenon
    <3> QED BY <3>1, <3>2
  <2>2. those \subseteq 1..len
    BY <1>1
  <2>3. Cardinality(those) \in Nat /\ Cardinality(those) <= len
    <3> HIDE DEF those
    <3> QED BY <2>1, <2>2, FS_Subset, FS_CardinalityType
  <2> QED BY <1>1, <2>3 DEF Supported
<1>3. counts \in SUBSET (0..len) /\ counts # {}
  BY <1>1, <1>2
<1>4. PICK b \in Runs(n) : \A c \in Runs(n) : Supported(g, n, c) <= Supported(g, n, b)
  <2>1. Max(counts) \in counts /\ \A x \in counts : x <= Max(counts)
    BY <1>1, <1>3, LargestNat
  <2> QED BY <2>1
<1> QED BY <1>4 DEF Best

LEMMA UpgradeKeeps ==
  ASSUME GraphOK, NEW f \in Begun, NEW n \in Nodes
  PROVE  /\ Upgrade(f, n) \in Begun
         /\ \A m \in Nodes : f[m] # -1 => Upgrade(f, n)[m] # -1
         /\ ~IsView(n) => Upgrade(f, n)[n] # -1
<1> DEFINE choice == IF f[n] = -1 THEN Best(f, n) ELSE Upgrades(f, n)
<1>1. f \in Assignments /\ Placed(f) /\ Bare(f) /\ n \in Tensors
  BY GraphFacts DEF Begun
<1>2. choice \subseteq Runs(n) /\ Runs(n) \subseteq Backends
  BY <1>1, BestExists, RootFacts DEF Upgrades
<1>3. f[n] = -1 => choice # {}
  BY BestExists
<1>4. CASE IsView(n) \/ choice = {}
  <2>1. Upgrade(f, n) = f
    BY <1>4 DEF Upgrade
  <2>2. ~IsView(n) => f[n] # -1
    BY <1>3, <1>4
  <2> QED BY <2>1, <2>2
<1>5. CASE ~IsView(n) /\ choice # {}
  <2>1. choice \in SUBSET Nat
    BY <1>2, MachineFacts DEF GraphOK
  <2>2. Min(choice) \in choice
    BY <1>5, <2>1, LeastNat
  <2>3. Min(choice) \in Runs(n) /\ Min(choice) \in Backends /\ Min(choice) # -1
    BY <1>2, <2>1, <2>2
  <2>4. ASSUME Stored(n)
        PROVE  Buffer[Root(n)] \in Uses(Min(choice))
    <3>1. f[n] # -1
      BY <1>1, <2>4 DEF Placed
    <3>2. Min(choice) \in Upgrades(f, n)
      BY <2>2, <3>1
    <3>3. Len(Src(n)) = 2 /\ Root(n) = Root(Src(n)[2])
      BY <1>5, <2>4, KindFacts
    <3>4. 2 \in DOMAIN Src(n)
      BY <3>3, SourceFacts
    <3>5. BufferSupported(f, Src(n)[2], Min(choice))
      BY <3>2, <3>4 DEF Upgrades
    <3> QED BY <2>4, <3>3, <3>5 DEF BufferSupported, Stored
  <2>5. Upgrade(f, n) = [f EXCEPT ![n] = Min(choice)]
    BY <1>5 DEF Upgrade
  <2> HIDE DEF choice
  <2>6. Upgrade(f, n) \in Begun
    BY <1>1, <1>5, <2>3, <2>4, <2>5, AssignKeeps, ZenonT(30) DEF Begun
  <2>7. \A m \in Nodes : Upgrade(f, n)[m] = IF m = n THEN Min(choice) ELSE f[m]
    BY <1>1, <2>5, GraphFacts DEF Assignments
  <2> QED BY <2>3, <2>6, <2>7
<1> QED BY <1>4, <1>5

LEMMA Pass3Begun ==
  ASSUME GraphOK, NEW f \in Begun
  PROVE  Pass3(f) \in Begun /\ \A m \in Nodes : ~IsView(m) => Pass3(f)[m] # -1
<1> DEFINE n == Len(graph)
<1>1. n \in Nat /\ Nodes = 1..n
  BY GraphFacts
<1>2. \A s \in Begun : \A i \in 1..n : Upgrade(s, i) \in Begun
  BY <1>1, UpgradeKeeps
<1> HIDE DEF n
<1>3. PICK g : Pass3Run(f, n, Begun, g)
  <2> DEFINE S == Begun
  <2>1. f \in S /\ \A s \in S : \A i \in 1..n : Upgrade(s, i) \in S
    BY <1>2
  <2> HIDE DEF S
  <2>2. \E g : Pass3Run(f, n, S, g)
    BY <1>1, <2>1, Pass3Steps
  <2> QED BY <2>2 DEF S
<1> DEFINE A == {k \in 0..n : \A m \in 1..k : ~IsView(m) => g[k][m] # -1}
<1>4. 0 \in A
  BY <1>1
<1>5. ASSUME NEW k \in 1..n, k - 1 \in A
      PROVE  k \in A
  <2>1. g[k - 1] \in Begun /\ k \in Nodes /\ g[k] = Upgrade(g[k - 1], k)
    BY <1>1, <1>3, <1>5 DEF Pass3Run
  <2>2. ASSUME NEW m \in 1..k, ~IsView(m)
        PROVE  g[k][m] # -1
    <3>1. CASE m = k
      BY <2>1, <2>2, <3>1, UpgradeKeeps
    <3>2. CASE m # k
      <4>1. m \in 1..k - 1 /\ m \in Nodes
        BY <1>1, <3>2
      <4>2. g[k - 1][m] # -1
        BY <1>5, <2>2, <4>1
      <4> QED BY <2>1, <4>1, <4>2, UpgradeKeeps
    <3> QED BY <3>1, <3>2
  <2> QED BY <2>2
<1> HIDE DEF A
<1>6. \A k \in 0..n : k \in A
  BY <1>1, <1>4, <1>5, UpTo
<1>7. n \in A
  BY <1>1, <1>6
<1> QED BY <1>1, <1>3, <1>7 DEF A, Pass3Run

LEMMA FillView ==
  ASSUME GraphOK, NEW f \in Nearly, NEW t \in Tensors, f[t] = -1
  PROVE  /\ Root(t) # t /\ [f EXCEPT ![t] = f[Root(t)]] \in Nearly
         /\ \A u \in Tensors : f[u] # -1 \/ u = t => [f EXCEPT ![t] = f[Root(t)]][u] # -1
<1>1. f \in Assignments /\ Placed(f) /\ Kin(f) /\ Whole(f)
  BY DEF Nearly
<1>2. t \in Nodes /\ ~Stored(t) /\ IsView(t)
  <2>1. ~Stored(t)
    BY <1>1 DEF Placed
  <2>2. t \notin Leaves
    <3>1. SUFFICES ASSUME t \in Leaves PROVE FALSE
      OBVIOUS
    <3>2. t \in Inputs
      BY <2>1, <3>1, GraphFacts, SchedConstants DEF Stored, Root
    <3>3. f[t] = Cpu /\ Cpu \in Nat
      BY <1>1, <3>2, MachineFacts DEF Placed, GraphOK
    <3> QED BY <3>3
  <2> QED BY <1>1, <2>1, <2>2 DEF Tensors, Whole
<1>3. Root(t) \in Tensors /\ ~IsView(Root(t)) /\ (Root(t) \in Inputs \/ Root(t) \in Nodes)
  BY <1>2, RootFacts
<1>4. f[Root(t)] \in Backends /\ f[Root(t)] # -1
  <2>1. CASE Root(t) \in Inputs
    BY <1>1, <2>1, MachineFacts DEF Placed, GraphOK
  <2>2. CASE Root(t) \in Nodes
    BY <1>1, <1>3, <2>2 DEF Whole, Assignments
  <2> QED BY <1>3, <2>1, <2>2
<1> DEFINE g == [f EXCEPT ![t] = f[Root(t)]]
<1>5. g \in Assignments /\ \A u \in Tensors : g[u] = IF u = t THEN f[Root(t)] ELSE f[u]
  BY <1>1, <1>4 DEF Assignments
<1>6. Inputs \subseteq Tensors /\ Nodes \subseteq Tensors /\ t \notin Inputs
  BY <1>2, GraphFacts, SchedConstants
<1> HIDE DEF g
<1>7. Placed(g)
  BY <1>1, <1>2, <1>5, <1>6 DEF Placed
<1>8. Kin(g)
  <2>1. ASSUME NEW v \in Nodes, IsView(v), ~Stored(v)
        PROVE  g[v] = -1 \/ g[v] = g[Root(v)]
    <3>1. Root(v) \in Tensors /\ Root(v) # t
      BY <1>2, <1>6, RootFacts
    <3> QED BY <1>1, <1>5, <1>6, <2>1, <3>1 DEF Kin
  <2> QED BY <2>1 DEF Kin
<1>9. Whole(g)
  BY <1>1, <1>4, <1>5, <1>6 DEF Whole
<1>10. \A u \in Tensors : f[u] # -1 \/ u = t => g[u] # -1
  BY <1>4, <1>5
<1> QED BY <1>2, <1>3, <1>5, <1>7, <1>8, <1>9, <1>10 DEF Nearly, g

LEMMA SettleKeeps ==
  ASSUME GraphOK, NEW f \in Nearly, NEW n \in Nodes
  PROVE  /\ Settle(f, n) \in Nearly /\ Settle(f, n)[n] # -1
         /\ \A m \in Nodes : f[m] # -1 => Settle(f, n)[m] # -1
<1> DEFINE S == {h \in Nearly : h[n] # -1 /\ \A m \in Nodes : f[m] # -1 => h[m] # -1}
           len == Len(Src(n))
<1>1. len \in Nat /\ DOMAIN Src(n) = 1..len /\ n \in Tensors /\ Nodes \subseteq Tensors
  BY SourceFacts, GraphFacts
<1>2. OwnBackend(f, n) \in S
  <2>1. CASE f[n] = -1
    <3>1. OwnBackend(f, n) = [f EXCEPT ![n] = f[Root(n)]]
      BY <1>1, <2>1, FillView DEF OwnBackend
    <3>2. /\ OwnBackend(f, n) \in Nearly
          /\ \A u \in Tensors : f[u] # -1 \/ u = n => OwnBackend(f, n)[u] # -1
      BY <1>1, <2>1, <3>1, FillView
    <3> QED BY <1>1, <3>2
  <2>2. CASE f[n] # -1
    <3>1. OwnBackend(f, n) = f
      BY <2>2 DEF OwnBackend
    <3> QED BY <2>2, <3>1
  <2> QED BY <2>1, <2>2
<1>3. ASSUME NEW h \in S, NEW i \in 1..len
      PROVE  SourceBackend(h, n, Src(n)[i]) \in S
  <2> DEFINE s == Src(n)[i]
  <2>1. s \in Tensors /\ h \in Nearly
    BY <1>1, SourceFacts
  <2> HIDE DEF s
  <2>2. CASE h[s] = -1
    <3>1. SourceBackend(h, n, s) = [h EXCEPT ![s] = h[Root(s)]]
      BY <2>1, <2>2, FillView DEF SourceBackend
    <3>2. /\ [h EXCEPT ![s] = h[Root(s)]] \in Nearly
          /\ \A u \in Tensors : h[u] # -1 \/ u = s => [h EXCEPT ![s] = h[Root(s)]][u] # -1
      BY <2>1, <2>2, FillView
    <3> DEFINE k == SourceBackend(h, n, s)
    <3> HIDE DEF k
    <3>3. k \in Nearly /\ \A u \in Tensors : h[u] # -1 => k[u] # -1
      BY <3>1, <3>2 DEF k
    <3>4. h[n] # -1 /\ \A m \in Nodes : f[m] # -1 => h[m] # -1
      BY <1>3
    <3>5. k \in S
      BY <1>1, <3>3, <3>4
    <3> QED BY <3>5 DEF s, k
  <2>3. CASE h[s] # -1
    <3>1. SourceBackend(h, n, s) = h
      BY <2>3 DEF SourceBackend
    <3> QED BY <1>3, <3>1 DEF s
  <2> QED BY <2>2, <2>3
<1> HIDE DEF S, len
<1>4. PICK g : SettleRun(f, n, len, S, g)
  BY <1>1, <1>2, <1>3, SettleSteps
<1>5. Settle(f, n) \in S
  BY <1>1, <1>4 DEF SettleRun
<1> QED BY <1>5 DEF S

(* What the passes arrive at.                                               *)
GoodIds(f) ==
  /\ f \in [Tensors -> Backends]
  /\ \A t \in Tensors : Stored(t) => Buffer[Root(t)] \in Uses(f[t])
  /\ \A t \in Inputs : f[t] = Cpu
  /\ \A n \in Nodes : ~IsView(n) => f[n] \in Runs(n)
  /\ \A t \in Tensors : ~Stored(t) => f[t] = f[Root(t)]

LEMMA Pass4Good ==
  ASSUME GraphOK, NEW f \in Nearly
  PROVE  GoodIds(Pass4(f))
<1> DEFINE n == Len(graph)
           S == Nearly
<1>1. n \in Nat /\ Nodes = 1..n
  BY GraphFacts
<1>2. f \in S /\ \A s \in S : \A i \in 1..n : Settle(s, i) \in S
  BY <1>1, SettleKeeps
<1> HIDE DEF n, S
<1>3. PICK g : Pass4Run(f, n, S, g)
  BY <1>1, <1>2, Pass4Steps
<1> DEFINE A == {k \in 0..n : \A m \in 1..k : g[k][m] # -1}
<1>4. 0 \in A
  BY <1>1
<1>5. ASSUME NEW k \in 1..n, k - 1 \in A
      PROVE  k \in A
  <2>1. g[k - 1] \in Nearly /\ k \in Nodes /\ g[k] = Settle(g[k - 1], k)
    BY <1>1, <1>3, <1>5 DEF S, Pass4Run
  <2>2. ASSUME NEW m \in 1..k
        PROVE  g[k][m] # -1
    <3>1. CASE m = k
      BY <2>1, <3>1, SettleKeeps
    <3>2. CASE m # k
      <4>1. m \in 1..k - 1 /\ m \in Nodes
        BY <1>1, <3>2
      <4>2. g[k - 1][m] # -1
        BY <1>5, <4>1
      <4> QED BY <2>1, <4>1, <4>2, SettleKeeps
    <3> QED BY <3>1, <3>2
  <2> QED BY <2>2
<1> HIDE DEF A
<1>6. \A k \in 0..n : k \in A
  BY <1>1, <1>4, <1>5, UpTo
<1>7. n \in A /\ n \in 0..n
  BY <1>1, <1>6
<1> DEFINE h == Pass4(f)
<1>8. h \in Nearly /\ \A m \in Nodes : h[m] # -1
  BY <1>1, <1>3, <1>7 DEF A, S, Pass4Run
<1> HIDE DEF h
<1>9. h \in Assignments /\ Placed(h) /\ Kin(h) /\ Inputs \subseteq Tensors /\ Nodes \subseteq Tensors
  BY <1>8, GraphFacts, SchedConstants DEF Nearly
<1>10. ASSUME NEW t \in Tensors, h[t] = -1
       PROVE  FALSE
  <2>1. Root(t) # t /\ ~Stored(t) /\ t \in Leaves
    BY <1>8, <1>9, <1>10, FillView DEF Placed, Tensors
  <2> QED BY <2>1, GraphFacts DEF Root
<1>11. h \in [Tensors -> Backends]
  BY <1>9, <1>10 DEF Assignments
<1>12. ASSUME NEW t \in Tensors, ~Stored(t)
       PROVE  h[t] = h[Root(t)]
  <2>1. CASE t \in Leaves
    BY <2>1, GraphFacts DEF Root
  <2>2. CASE t \in Nodes
    BY <1>8, <1>9, <1>12, <2>2, KindFacts DEF Kin
  <2> QED BY <2>1, <2>2 DEF Tensors
<1>13. ASSUME NEW n1 \in Nodes, ~IsView(n1)
       PROVE  h[n1] \in Runs(n1)
  BY <1>8, <1>9, <1>13 DEF Placed
<1>14. GoodIds(h)
  BY <1>9, <1>11, <1>12, <1>13 DEF GoodIds, Placed
<1> QED BY <1>14 DEF h

LEMMA AssignedGood ==
  ASSUME GraphOK, NoneStuck, ids = <<>>
  PROVE  GoodIds(Assigned)
<1> DEFINE none == [t \in Tensors |-> IF t \in DOMAIN ids THEN ids[t] ELSE -1]
<1>1. \A t \in Tensors : none[t] = -1
  <2>1. DOMAIN ids = {}
    OBVIOUS
  <2> QED BY <2>1
<1> HIDE DEF none
<1>2. Pass2(Pass1(none)) \in Begun
  BY <1>1, Pass1Begun, Pass2Begun
<1> DEFINE f == Pass3(Pass2(Pass1(none)))
<1>3. f \in Begun /\ \A m \in Nodes : ~IsView(m) => f[m] # -1
  BY <1>2, Pass3Begun
<1> HIDE DEF f
<1>4. f \in Nearly
  BY <1>3 DEF Begun, Nearly, Bare, Kin, Whole
<1>5. GoodIds(Pass4(f))
  BY <1>4, Pass4Good
<1> QED BY <1>5 DEF Assigned, f, none

-----------------------------------------------------------------------------
(* Pass 5.  The nodes of split k end before the next one begins.            *)
SplitEnd(sp, k)  == IF k = Len(sp) THEN Len(graph) ELSE sp[k + 1].first - 1
Within(sp, k, n) == sp[k].first <= n /\ n <= SplitEnd(sp, k)

Parts == [backend : Backends, first : Nodes, inputs : Seq(Tensors)]
Cuts  == [splits : Seq(Parts) \ {<<>>}, copies : SUBSET (Tensors \X Backends),
          places : [Nodes -> Seq(Tensors \X (Backends \union {-1}))]]

LEMMA LastSplit ==
  ASSUME NEW st \in Cuts
  PROVE  /\ Len(st.splits) \in Nat \ {0} /\ DOMAIN st.splits = 1..Len(st.splits)
         /\ Last(st.splits) = st.splits[Len(st.splits)]
         /\ st.splits[Len(st.splits)] \in Parts
         /\ \A j \in DOMAIN st.splits :
              /\ st.splits[j] \in Parts /\ Len(st.splits[j].inputs) \in Nat
              /\ DOMAIN st.splits[j].inputs = 1..Len(st.splits[j].inputs)
<1> DEFINE sp == st.splits
<1>1. sp \in Seq(Parts) /\ sp # <<>>
  BY DEF Cuts
<1> HIDE DEF sp
<1>2. Len(sp) \in Nat \ {0} /\ DOMAIN sp = 1..Len(sp)
  BY <1>1
<1>3. \A j \in DOMAIN sp : sp[j] \in Parts
  BY <1>1, <1>2
<1>4. \A j \in DOMAIN sp : Len(sp[j].inputs) \in Nat /\ DOMAIN sp[j].inputs = 1..Len(sp[j].inputs)
  BY <1>3 DEF Parts
<1> QED BY <1>2, <1>3, <1>4 DEF Last, sp

LEMMA BeginCutType ==
  ASSUME GraphOK, NEW f, GoodIds(f)
  PROVE  /\ BeginCut(f, {}) \in Cuts
         /\ \E n \in Nodes : /\ ~IsView(n) /\ FirstSplit(f).backend = f[n]
                             /\ \A m \in 1..n - 1 : IsView(m)
<1> DEFINE ops == {n \in Nodes : ~IsView(n)}
<1>1. ops \in SUBSET Nat /\ ops # {}
  BY GraphFacts
<1>2. Min(ops) \in ops /\ \A x \in ops : Min(ops) <= x
  BY <1>1, LeastNat
<1>3. FirstSplit(f) = [backend |-> f[Min(ops)], first |-> 1, inputs |-> <<>>]
  BY DEF FirstSplit
<1> DEFINE n == Min(ops)
<1> HIDE DEF n, ops
<1>4. n \in Nodes /\ ~IsView(n) /\ n \in Nat /\ \A x \in Nodes : ~IsView(x) => n <= x
  BY <1>2, GraphFacts DEF ops, n
<1>5. FirstSplit(f).backend = f[n]
  BY <1>3 DEF n
<1>6. \A m \in 1..n - 1 : IsView(m)
  BY <1>4, GraphFacts
<1>7. f[n] \in Backends /\ 1 \in Nodes
  BY <1>4, GraphFacts DEF GoodIds
<1>8. FirstSplit(f) \in Parts
  BY <1>3, <1>7 DEF Parts, n
<1>9. ASSUME NEW m \in Nodes, IsView(m)
      PROVE  [j \in DOMAIN Src(m) |-> Original(Src(m)[j])] \in Seq(Tensors \X (Backends \union {-1}))
  <2>1. \A j \in 1..Len(Src(m)) : Original(Src(m)[j]) \in Tensors \X (Backends \union {-1})
    BY SourceFacts DEF Original
  <2>2. DOMAIN Src(m) = 1..Len(Src(m)) /\ Len(Src(m)) \in Nat
    BY SourceFacts
  <2> QED BY <2>1, <2>2
<1> DEFINE pl == [m \in Nodes |->
     IF IsView(m) THEN [j \in DOMAIN Src(m) |-> Original(Src(m)[j])] ELSE <<>>]
<1>10. pl \in [Nodes -> Seq(Tensors \X (Backends \union {-1}))]
  BY <1>9
<1>11. <<FirstSplit(f)>> \in Seq(Parts) \ {<<>>}
  BY <1>8
<1>12. BeginCut(f, {}) = [splits |-> <<FirstSplit(f)>>, copies |-> {}, places |-> pl]
  BY DEF BeginCut
<1> DEFINE sp == <<FirstSplit(f)>>
<1> HIDE DEF pl, sp
<1>13. BeginCut(f, {}) \in Cuts
  <2>1. BeginCut(f, {}) = [splits |-> sp, copies |-> {}, places |-> pl]
    BY <1>12 DEF sp
  <2>2. sp \in Seq(Parts) \ {<<>>}
    BY <1>11 DEF sp
  <2> QED BY <1>10, <2>1, <2>2 DEF Cuts
<1> QED BY <1>4, <1>5, <1>6, <1>13

(* What a source adds to the cut.                                           *)
Added(f, n, st, s, r) ==
  LET b   == st.splits[Len(st.splits)].backend
      new == Foreign(f, s, b) /\ <<s, b>> \notin st.copies
  IN /\ r \in Cuts /\ Len(r.splits) = Len(st.splits)
     /\ r.copies = IF Foreign(f, s, b) THEN st.copies \union {<<s, b>>} ELSE st.copies
     /\ r.places = [st.places EXCEPT ![n] =
          Append(@, IF Foreign(f, s, b) THEN <<s, b>> ELSE Original(s))]
     /\ \A j \in DOMAIN st.splits :
          /\ r.splits[j].backend = st.splits[j].backend
          /\ r.splits[j].first = st.splits[j].first
          /\ r.splits[j].inputs = IF new /\ j = Len(st.splits)
               THEN Append(st.splits[j].inputs, s) ELSE st.splits[j].inputs

LEMMA AddSourceFacts ==
  ASSUME GraphOK, NEW f, GoodIds(f), NEW n \in Nodes, NEW st \in Cuts, NEW s \in Tensors
  PROVE  Added(f, n, st, s, AddSource(f, n, st, s))
<1> DEFINE len == Len(st.splits)
           b   == st.splits[len].backend
           needed == Foreign(f, s, b)
           new == needed /\ <<s, b>> \notin st.copies
           place == IF needed THEN <<s, b>> ELSE Original(s)
           r   == AddSource(f, n, st, s)
           sp  == IF new THEN [st.splits EXCEPT ![len].inputs = Append(@, s)] ELSE st.splits
           cp  == IF needed THEN st.copies \union {<<s, b>>} ELSE st.copies
           pl  == [st.places EXCEPT ![n] = Append(@, place)]
<1>1. /\ len \in Nat \ {0} /\ DOMAIN st.splits = 1..len /\ Last(st.splits) = st.splits[len]
      /\ st.splits[len] \in Parts
      /\ \A j \in DOMAIN st.splits : st.splits[j] \in Parts
  BY LastSplit
<1>2. b \in Backends
  BY <1>1 DEF Parts
<1>4. r = [splits |-> sp, copies |-> cp, places |-> pl]
  BY DEF AddSource
<1>5. sp \in Seq(Parts) \ {<<>>} /\ Len(sp) = len
      /\ \A j \in 1..len :
           /\ sp[j].backend = st.splits[j].backend /\ sp[j].first = st.splits[j].first
           /\ sp[j].inputs = IF new /\ j = len THEN Append(st.splits[j].inputs, s)
                             ELSE st.splits[j].inputs
  <2>1. CASE ~new
    BY <1>1, <2>1 DEF Cuts
  <2>2. CASE new
    <3> DEFINE part == [st.splits[len] EXCEPT !.inputs = Append(@, s)]
    <3>0. st.splits[len].inputs \in Seq(Tensors)
      BY <1>1 DEF Parts
    <3>1. part \in Parts /\ part.backend = st.splits[len].backend
          /\ part.first = st.splits[len].first
          /\ part.inputs = Append(st.splits[len].inputs, s)
      <4>1. Append(st.splits[len].inputs, s) \in Seq(Tensors)
        BY <3>0
      <4>2. part \in Parts
        BY <1>1, <4>1 DEF Parts
      <4> QED BY <1>1, <4>2 DEF Parts
    <3>2. sp = [st.splits EXCEPT ![len] = part]
      BY <2>2
    <3>3. st.splits \in Seq(Parts)
      BY DEF Cuts
    <3> HIDE DEF part, sp
    <3>4. sp \in Seq(Parts) /\ Len(sp) = len /\ \A j \in 1..len : sp[j] = IF j = len THEN part ELSE st.splits[j]
      BY <1>1, <3>1, <3>2, <3>3
    <3>5. sp # <<>>
      BY <1>1, <3>4
    <3> QED BY <2>2, <3>1, <3>4, <3>5
  <2> QED BY <2>1, <2>2
<1>6. cp \in SUBSET (Tensors \X Backends)
  BY <1>2 DEF Cuts
<1>7. place \in Tensors \X (Backends \union {-1})
  BY <1>2 DEF Original
<1>8. pl \in [Nodes -> Seq(Tensors \X (Backends \union {-1}))]
  BY <1>7 DEF Cuts
<1> HIDE DEF sp, cp, pl
<1>9. r \in Cuts /\ r.splits = sp /\ r.copies = cp /\ r.places = pl
  BY <1>4, <1>5, <1>6, <1>8 DEF Cuts
<1>10. Added(f, n, st, s, r)
  BY <1>1, <1>5, <1>9 DEF cp, pl, Added
<1> QED BY <1>10

(* What the cut has come to when all nodes before k have been added, and i  *)
(* sources of node k.                                                       *)
Ranked(sp) ==
  /\ sp[1].first = 1
  /\ \A i, j \in DOMAIN sp : i < j => sp[i].first < sp[j].first
Homes(f, k, sp) ==
  \A j \in DOMAIN sp : \A m \in 1..k :
    ~IsView(m) /\ Within(sp, j, m) => f[m] = sp[j].backend
Fed(f, k, st) ==
  \A j \in DOMAIN st.splits : \A i \in DOMAIN st.splits[j].inputs :
    LET s == st.splits[j].inputs[i] IN
    /\ <<s, st.splits[j].backend>> \in st.copies
    /\ Foreign(f, s, st.splits[j].backend)
    /\ \E m \in 1..k : ~IsView(m) /\ Within(st.splits, j, m) /\ s \in Range(Src(m))
Once(sp) ==
  \A j, l \in DOMAIN sp : \A i \in DOMAIN sp[j].inputs : \A h \in DOMAIN sp[l].inputs :
    sp[j].inputs[i] = sp[l].inputs[h] /\ sp[j].backend = sp[l].backend => j = l /\ i = h
CopiedBy(sp, c, m) ==
  \E j \in DOMAIN sp : /\ sp[j].first <= m /\ sp[j].backend = c[2]
                       /\ \E i \in DOMAIN sp[j].inputs : sp[j].inputs[i] = c[1]
Copied(k, st) == \A c \in st.copies : CopiedBy(st.splits, c, k)
Linked(f, m, i, st) ==
  /\ Len(st.places[m]) = i
  /\ \A q \in 1..i :
       LET s == Src(m)[q] IN
       IF Foreign(f, s, f[m])
       THEN st.places[m][q] = <<s, f[m]>> /\ CopiedBy(st.splits, <<s, f[m]>>, m)
       ELSE st.places[m][q] = Original(s)
ViewLinked(m, st) == st.places[m] = [j \in DOMAIN Src(m) |-> Original(Src(m)[j])]
Filled(f, k, i, st) ==
  \A m \in Nodes :
    /\ IsView(m) => ViewLinked(m, st)
    /\ ~IsView(m) /\ m < k => Linked(f, m, Len(Src(m)), st)
    /\ ~IsView(m) /\ m = k => Linked(f, m, i, st)
    /\ ~IsView(m) /\ m > k => st.places[m] = <<>>
CutSoFar(f, k, i, st) ==
  /\ st \in Cuts
  /\ Ranked(st.splits) /\ Homes(f, k, st.splits) /\ Fed(f, k, st) /\ Once(st.splits)
  /\ Copied(k, st) /\ Filled(f, k, i, st)
  /\ IF k = 0 THEN st.splits = <<FirstSplit(f)>>
     ELSE st.splits[Len(st.splits)].first <= k
Full(k) == IF k = 0 THEN 0 ELSE Len(Src(k))

LEMMA CutBegins ==
  ASSUME GraphOK, NEW f, GoodIds(f)
  PROVE  CutSoFar(f, 0, 0, BeginCut(f, {}))
<1> DEFINE st == BeginCut(f, {})
<1>1. st \in Cuts
  BY BeginCutType
<1>2. /\ st.splits = <<FirstSplit(f)>> /\ st.copies = {}
      /\ \A m \in Nodes : st.places[m] =
           IF IsView(m) THEN [j \in DOMAIN Src(m) |-> Original(Src(m)[j])] ELSE <<>>
  BY DEF BeginCut
<1>3. FirstSplit(f).first = 1 /\ FirstSplit(f).inputs = <<>>
  BY DEF FirstSplit
<1> HIDE DEF st
<1>4. DOMAIN st.splits = {1} /\ st.splits[1] = FirstSplit(f) /\ DOMAIN st.splits[1].inputs = {}
  BY <1>2, <1>3
<1>5. Ranked(st.splits) /\ Homes(f, 0, st.splits)
  BY <1>3, <1>4 DEF Ranked, Homes
<1>6. Fed(f, 0, st) /\ Once(st.splits)
  BY <1>4 DEF Fed, Once
<1>7. Copied(0, st)
  BY <1>2 DEF Copied
<1>8. Filled(f, 0, 0, st)
  BY <1>2, GraphFacts DEF Filled, ViewLinked
<1>9. CutSoFar(f, 0, 0, st)
  BY <1>1, <1>2, <1>5, <1>6, <1>7, <1>8 DEF CutSoFar
<1> QED BY <1>9 DEF st

(* A view adds nothing.                                                     *)
LEMMA ViewAdds ==
  ASSUME GraphOK, NEW f, GoodIds(f), NEW n \in Nodes, IsView(n), NEW st,
         CutSoFar(f, n - 1, Full(n - 1), st)
  PROVE  CutSoFar(f, n, Full(n), st)
<1>1. /\ n \in Nat \ {0} /\ n - 1 \in Nat /\ Nodes = 1..Len(graph)
      /\ st \in Cuts /\ Ranked(st.splits) /\ Homes(f, n - 1, st.splits)
      /\ Fed(f, n - 1, st) /\ Once(st.splits) /\ Copied(n - 1, st)
      /\ Filled(f, n - 1, Full(n - 1), st)
      /\ IF n - 1 = 0 THEN st.splits = <<FirstSplit(f)>>
         ELSE st.splits[Len(st.splits)].first <= n - 1
  BY GraphFacts DEF CutSoFar
<1>2. /\ Len(st.splits) \in Nat \ {0} /\ DOMAIN st.splits = 1..Len(st.splits)
      /\ \A j \in DOMAIN st.splits : st.splits[j] \in Parts
  BY <1>1, LastSplit
<1>3. \A j \in DOMAIN st.splits : st.splits[j].first \in Nat
  BY <1>1, <1>2 DEF Parts
<1>4. Homes(f, n, st.splits)
  <2>1. \A m \in 1..n : ~IsView(m) => m \in 1..n - 1
    BY <1>1
  <2> QED BY <1>1, <2>1 DEF Homes
<1>5. Fed(f, n, st)
  <2>1. 1..n - 1 \subseteq 1..n
    BY <1>1
  <2> QED BY <1>1, <2>1 DEF Fed
<1>6. Copied(n, st)
  <2>1. \A j \in DOMAIN st.splits : st.splits[j].first <= n - 1 => st.splits[j].first <= n
    BY <1>1, <1>3
  <2> QED BY <1>1, <2>1 DEF Copied, CopiedBy
<1>7. Filled(f, n, Full(n), st)
  <2> SUFFICES ASSUME NEW m \in Nodes, ~IsView(m)
               PROVE  /\ m < n => Linked(f, m, Len(Src(m)), st)
                      /\ m = n => Linked(f, m, Full(n), st)
                      /\ m > n => st.places[m] = <<>>
    BY <1>1 DEF Filled
  <2>1. m # n
    OBVIOUS
  <2>2. m > n => m > n - 1
    BY <1>1
  <2>3. m < n => m < n - 1 \/ m = n - 1
    BY <1>1
  <2>4. m = n - 1 => Full(n - 1) = Len(Src(m))
    BY <1>1 DEF Full
  <2> QED BY <1>1, <2>1, <2>2, <2>3, <2>4 DEF Filled
<1>8. st.splits[Len(st.splits)].first <= n
  <2>1. CASE n - 1 = 0
    BY <1>1, <2>1, SMTT(60) DEF FirstSplit
  <2>2. CASE n - 1 # 0
    BY <1>1, <1>2, <1>3, <2>2
  <2> QED BY <2>1, <2>2
<1> QED BY <1>1, <1>4, <1>5, <1>6, <1>7, <1>8 DEF CutSoFar

(* Splits that are only added to.                                           *)
Extends(sp, tp) ==
  /\ DOMAIN sp \subseteq DOMAIN tp
  /\ \A j \in DOMAIN sp :
       /\ tp[j].first = sp[j].first /\ tp[j].backend = sp[j].backend
       /\ \A i \in DOMAIN sp[j].inputs :
            i \in DOMAIN tp[j].inputs /\ tp[j].inputs[i] = sp[j].inputs[i]

LEMMA LinksLast ==
  ASSUME NEW f, NEW st, NEW r, Extends(st.splits, r.splits)
  PROVE  /\ \A c, m : CopiedBy(st.splits, c, m) => CopiedBy(r.splits, c, m)
         /\ \A m, i : Linked(f, m, i, st) /\ r.places[m] = st.places[m] => Linked(f, m, i, r)
<1>1. \A c, m : CopiedBy(st.splits, c, m) => CopiedBy(r.splits, c, m)
  BY DEF Extends, CopiedBy
<1> QED BY <1>1 DEF Linked

(* The backend of a split.                                                  *)
LEMMA LastHome ==
  ASSUME GraphOK, NEW f, NEW n \in Nodes, NEW i, NEW st, CutSoFar(f, n, i, st), ~IsView(n)
  PROVE  /\ Within(st.splits, Len(st.splits), n)
         /\ f[n] = st.splits[Len(st.splits)].backend
<1>1. n \in 1..n /\ n # 0 /\ n <= Len(graph)
  BY GraphFacts
<1>2. st \in Cuts /\ Len(st.splits) \in DOMAIN st.splits
  BY LastSplit DEF CutSoFar
<1>3. Within(st.splits, Len(st.splits), n)
  BY <1>1 DEF CutSoFar, Within, SplitEnd
<1> QED BY <1>1, <1>2, <1>3 DEF CutSoFar, Homes

(* An operation is added to the last split, or begins one.                  *)
LEMMA SplitBegins ==
  ASSUME GraphOK, NEW f, GoodIds(f), NEW n \in Nodes, ~IsView(n), NEW st,
         CutSoFar(f, n - 1, Full(n - 1), st)
  PROVE  CutSoFar(f, n, 0, BeginSplit(f, st, n))
<1> DEFINE len == Len(st.splits)
           r   == BeginSplit(f, st, n)
<1>1. /\ n \in Nat \ {0} /\ n - 1 \in Nat /\ Nodes = 1..Len(graph) /\ Len(graph) \in Nat
      /\ st \in Cuts /\ Ranked(st.splits) /\ Homes(f, n - 1, st.splits)
      /\ Fed(f, n - 1, st) /\ Once(st.splits) /\ Copied(n - 1, st)
      /\ Filled(f, n - 1, Full(n - 1), st)
      /\ IF n - 1 = 0 THEN st.splits = <<FirstSplit(f)>> ELSE st.splits[len].first <= n - 1
  BY GraphFacts DEF CutSoFar
<1>2. /\ len \in Nat \ {0} /\ DOMAIN st.splits = 1..len
      /\ Last(st.splits) = st.splits[len] /\ st.splits \in Seq(Parts)
      /\ \A j \in DOMAIN st.splits : st.splits[j] \in Parts
  BY <1>1, LastSplit DEF Cuts
<1>3. /\ \A j \in DOMAIN st.splits : st.splits[j].first \in Nat
      /\ \A j \in 1..len - 1 : j + 1 \in DOMAIN st.splits
      /\ len \in DOMAIN st.splits /\ st.splits[len].first \in Nat
  <2>1. len \in DOMAIN st.splits /\ \A j \in 1..len - 1 : j + 1 \in DOMAIN st.splits
    BY <1>2
  <2>2. \A j \in DOMAIN st.splits : st.splits[j].first \in Nat
    BY <1>1, <1>2, SMTT(60) DEF Parts
  <2> QED BY <2>1, <2>2
<1>4. st.splits[len].first <= n
  <2>1. CASE n - 1 = 0
    BY <1>1, <2>1 DEF FirstSplit
  <2>2. CASE n - 1 # 0
    BY <1>1, <1>2, <1>3, <2>2
  <2> QED BY <2>1, <2>2
<1>5. st.places[n] = <<>> /\ \A m \in Nodes : m > n => m > n - 1
  BY <1>1 DEF Filled
<1>6. \A m \in Nodes : m < n => m < n - 1 \/ (m = n - 1 /\ Full(n - 1) = Len(Src(m)))
  <2>1. \A m \in Nodes : m \in Nat \ {0}
    BY <1>1
  <2>2. \A m \in Nodes : m < n => m < n - 1 \/ m = n - 1
    BY <1>1, <2>1
  <2>3. ASSUME NEW m \in Nodes, m = n - 1
        PROVE  Full(n - 1) = Len(Src(m))
    <3>1. n - 1 # 0
      BY <2>1, <2>3
    <3> QED BY <2>3, <3>1 DEF Full
  <2> QED BY <2>2, <2>3
<1>7. CASE f[n] = Last(st.splits).backend /\ ~NeedNewSplit(f, st, n)
  <2>1. r = st
    BY <1>7 DEF BeginSplit
  <2>2. Homes(f, n, st.splits)
    <3> SUFFICES ASSUME NEW j \in DOMAIN st.splits, Within(st.splits, j, n)
                 PROVE  f[n] = st.splits[j].backend
      <4>1. \A m \in 1..n : m = n \/ m \in 1..n - 1
        BY <1>1
      <4> QED BY <1>1, <4>1 DEF Homes
    <3>1. CASE j = len
      BY <1>2, <1>7, <3>1
    <3>2. CASE j # len
      <4>1. j \in 1..len - 1 /\ st.splits[j + 1].first \in Nat
        BY <1>2, <1>3, <3>2
      <4>2. n < st.splits[j + 1].first
        BY <1>1, <4>1, <3>2 DEF Within, SplitEnd
      <4>3. st.splits[j + 1].first <= st.splits[len].first
        <5>1. j + 1 = len \/ j + 1 < len
          BY <1>2, <4>1
        <5>2. j + 1 \in DOMAIN st.splits /\ len \in DOMAIN st.splits
          BY <1>2, <4>1
        <5> QED BY <1>1, <1>3, <5>1, <5>2, SMTT(60) DEF Ranked
      <4> QED BY <1>1, <1>3, <1>4, <4>1, <4>2, <4>3
    <3> QED BY <3>1, <3>2
  <2>3. Fed(f, n, st)
    <3>1. 1..n - 1 \subseteq 1..n
      BY <1>1
    <3> QED BY <1>1, <3>1 DEF Fed
  <2>4. Copied(n, st)
    <3>1. \A j \in DOMAIN st.splits : st.splits[j].first <= n - 1 => st.splits[j].first <= n
      BY <1>1, <1>3
    <3> QED BY <1>1, <3>1 DEF Copied, CopiedBy
  <2>5. Filled(f, n, 0, st)
    <3> SUFFICES ASSUME NEW m \in Nodes, ~IsView(m)
                 PROVE  /\ m < n => Linked(f, m, Len(Src(m)), st)
                        /\ m = n => Linked(f, m, 0, st)
                        /\ m > n => st.places[m] = <<>>
      BY <1>1 DEF Filled
    <3>1. m = n => Linked(f, m, 0, st)
      BY <1>5 DEF Linked
    <3> QED BY <1>1, <1>5, <1>6, <3>1 DEF Filled
  <2>6. n # 0
    BY <1>1
  <2> HIDE DEF r
  <2> QED BY <1>1, <1>4, <2>1, <2>2, <2>3, <2>4, <2>5, <2>6 DEF CutSoFar, r
<1>8. CASE f[n] # Last(st.splits).backend \/ NeedNewSplit(f, st, n)
  <2> DEFINE part == [backend |-> f[n], first |-> n, inputs |-> <<>>]
  <2>1. n - 1 # 0
    <3> SUFFICES ASSUME n - 1 = 0 PROVE FALSE
      OBVIOUS
    <3>1. st.splits = <<FirstSplit(f)>> /\ Last(st.splits) = FirstSplit(f)
      BY <1>1, <1>2
    <3>2. ~NeedNewSplit(f, st, n)
      BY <3>1 DEF NeedNewSplit, FirstSplit
    <3>3. PICK m \in Nodes : /\ ~IsView(m) /\ FirstSplit(f).backend = f[m]
                             /\ \A q \in 1..m - 1 : IsView(q)
      BY BeginCutType
    <3>4. m = n
      BY <1>1, <3>3
    <3> QED BY <1>8, <3>1, <3>2, <3>3, <3>4
  <2>2. part \in Parts
    BY DEF Parts, GoodIds, Tensors
  <2>3. r = [st EXCEPT !.splits = Append(st.splits, part)]
    BY <1>8 DEF BeginSplit
  <2>4. /\ r.splits = Append(st.splits, part) /\ r.copies = st.copies /\ r.places = st.places
        /\ r \in Cuts
    <3> HIDE DEF part
    <3>1. Append(st.splits, part) \in Seq(Parts) \ {<<>>}
      BY <1>2, <2>2
    <3> HIDE DEF r
    <3> QED BY <1>1, <2>3, <3>1 DEF Cuts
  <2> HIDE DEF r
  <2>5. /\ Len(r.splits) = len + 1 /\ DOMAIN r.splits = 1..len + 1
        /\ r.splits[len + 1].first = n /\ r.splits[len + 1].backend = f[n]
        /\ DOMAIN r.splits[len + 1].inputs = {}
        /\ \A j \in DOMAIN st.splits : j \in DOMAIN r.splits /\ r.splits[j] = st.splits[j] /\ j < len + 1
    <3> HIDE DEF part
    <3>1. Len(r.splits) = len + 1 /\ r.splits[len + 1] = part
          /\ \A j \in 1..len : r.splits[j] = st.splits[j]
      BY <1>2, <2>2, <2>4
    <3> QED BY <1>2, <2>4, <3>1 DEF part
  <2> HIDE DEF part
  <2>6. Extends(st.splits, r.splits)
    BY <2>5 DEF Extends
  <2>7. st.splits[len].first < n
    BY <1>1, <1>2, <1>3, <2>1
  <2>8. Ranked(r.splits)
    <3> SUFFICES ASSUME NEW i \in DOMAIN r.splits, NEW j \in DOMAIN r.splits, i < j
                 PROVE  r.splits[i].first < r.splits[j].first
      BY <1>1, <1>2, <2>5 DEF Ranked
    <3>1. i \in DOMAIN st.splits
      BY <1>2, <2>5
    <3>2. CASE j \in DOMAIN st.splits
      BY <1>1, <2>5, <3>1, <3>2 DEF Ranked
    <3>3. CASE j \notin DOMAIN st.splits
      <4>1. j = len + 1 /\ (i = len \/ i < len)
        BY <1>2, <2>5, <3>1, <3>3
      <4>2. st.splits[i].first <= st.splits[len].first
        <5>1. CASE i = len
          BY <1>3, <5>1
        <5>2. CASE i < len
          <6>1. st.splits[i].first < st.splits[len].first
            BY <1>1, <1>3, <3>1, <5>2 DEF Ranked
          <6> QED BY <1>3, <3>1, <6>1
        <5> QED BY <4>1, <5>1, <5>2
      <4>3. r.splits[i].first = st.splits[i].first /\ r.splits[j].first = n
        BY <2>5, <3>1, <4>1
      <4>4. st.splits[i].first \in Nat
        BY <1>3, <3>1
      <4> QED BY <1>1, <1>3, <2>7, <4>2, <4>3, <4>4
    <3> QED BY <3>2, <3>3
  <2>9. \A j \in DOMAIN st.splits : \A m \in 1..n - 1 :
          Within(r.splits, j, m) <=> Within(st.splits, j, m)
    <3> SUFFICES ASSUME NEW j \in DOMAIN st.splits, NEW m \in 1..n - 1
                 PROVE  Within(r.splits, j, m) <=> Within(st.splits, j, m)
      OBVIOUS
    <3>1. r.splits[j].first = st.splits[j].first
      BY <2>5
    <3>2. CASE j = len
      <4>1. SplitEnd(r.splits, j) = n - 1 /\ SplitEnd(st.splits, j) = Len(graph)
        BY <1>2, <2>5, <3>2 DEF SplitEnd
      <4> QED BY <1>1, <3>1, <4>1 DEF Within
    <3>3. CASE j # len
      <4>1. j + 1 \in DOMAIN st.splits /\ j # len + 1
        BY <1>2, <1>3, <3>3
      <4>2. SplitEnd(r.splits, j) = SplitEnd(st.splits, j)
        BY <2>5, <3>3, <4>1 DEF SplitEnd
      <4> QED BY <3>1, <4>2 DEF Within
    <3> QED BY <3>2, <3>3
  <2>10. Homes(f, n, r.splits)
    <3> SUFFICES ASSUME NEW j \in DOMAIN r.splits, NEW m \in 1..n, ~IsView(m),
                        Within(r.splits, j, m)
                 PROVE  f[m] = r.splits[j].backend
      BY DEF Homes
    <3>1. CASE j \in DOMAIN st.splits
      <4>1. m # n
        <5>1. CASE j = len
          BY <1>1, <1>2, <2>5, <3>1, <5>1 DEF Within, SplitEnd
        <5>2. CASE j # len
          <6>1. j + 1 \in DOMAIN st.splits /\ j # len + 1 /\ st.splits[j + 1].first \in Nat
            BY <1>2, <1>3, <3>1, <5>2
          <6>2. m < st.splits[j + 1].first
            BY <2>5, <6>1 DEF Within, SplitEnd
          <6>3. st.splits[j + 1].first <= st.splits[len].first
            <7>1. j + 1 = len \/ j + 1 < len
              BY <1>2, <6>1
            <7> QED BY <1>1, <1>3, <6>1, <7>1 DEF Ranked
          <6> QED BY <1>1, <1>3, <1>4, <6>1, <6>2, <6>3
        <5> QED BY <5>1, <5>2
      <4>2. m \in 1..n - 1
        BY <1>1, <4>1
      <4> QED BY <1>1, <2>5, <2>9, <3>1, <4>2 DEF Homes
    <3>2. CASE j \notin DOMAIN st.splits
      <4>1. j = len + 1
        BY <1>2, <2>5, <3>2
      <4>2. m = n
        BY <1>1, <2>5, <4>1 DEF Within
      <4> QED BY <2>5, <4>1, <4>2
    <3> QED BY <3>1, <3>2
  <2>11. Fed(f, n, r)
    <3> SUFFICES ASSUME NEW j \in DOMAIN r.splits, NEW i \in DOMAIN r.splits[j].inputs
                 PROVE  LET s == r.splits[j].inputs[i] IN
                        /\ <<s, r.splits[j].backend>> \in r.copies
                        /\ Foreign(f, s, r.splits[j].backend)
                        /\ \E m \in 1..n : ~IsView(m) /\ Within(r.splits, j, m) /\ s \in Range(Src(m))
      BY DEF Fed
    <3>1. j \in DOMAIN st.splits
      BY <1>2, <2>5
    <3>2. 1..n - 1 \subseteq 1..n
      BY <1>1
    <3> QED BY <1>1, <2>4, <2>5, <2>9, <3>1, <3>2 DEF Fed
  <2>12. Once(r.splits)
    <3>1. \A j \in DOMAIN r.splits : DOMAIN r.splits[j].inputs # {} => j \in DOMAIN st.splits
      BY <1>2, <2>5
    <3>2. \A j \in DOMAIN st.splits : r.splits[j] = st.splits[j]
      BY <2>5
    <3> QED BY <1>1, <3>1, <3>2 DEF Once
  <2>13. Copied(n, r)
    <3>1. \A j \in DOMAIN st.splits : st.splits[j].first <= n - 1 => st.splits[j].first <= n
      BY <1>1, <1>3
    <3>2. Copied(n, st)
      BY <1>1, <3>1 DEF Copied, CopiedBy
    <3> QED BY <2>4, <2>6, <3>2, LinksLast DEF Copied
  <2>14. Filled(f, n, 0, r)
    <3> SUFFICES ASSUME NEW m \in Nodes
                 PROVE  /\ IsView(m) => ViewLinked(m, r)
                        /\ ~IsView(m) /\ m < n => Linked(f, m, Len(Src(m)), r)
                        /\ ~IsView(m) /\ m = n => Linked(f, m, 0, r)
                        /\ ~IsView(m) /\ m > n => r.places[m] = <<>>
      BY DEF Filled
    <3>1. IsView(m) => ViewLinked(m, r)
      BY <1>1, <2>4 DEF Filled, ViewLinked
    <3>2. ~IsView(m) /\ m < n => Linked(f, m, Len(Src(m)), r)
      <4>1. ~IsView(m) /\ m < n => Linked(f, m, Len(Src(m)), st)
        BY <1>1, <1>6 DEF Filled
      <4> QED BY <2>4, <2>6, <4>1, LinksLast
    <3>3. m = n => Linked(f, m, 0, r)
      BY <1>5, <2>4 DEF Linked
    <3>4. ~IsView(m) /\ m > n => r.places[m] = <<>>
      BY <1>1, <1>5, <2>4 DEF Filled
    <3> QED BY <3>1, <3>2, <3>3, <3>4
  <2>15. r.splits[Len(r.splits)].first <= n /\ n # 0
    BY <1>1, <2>5
  <2>16. CutSoFar(f, n, 0, r)
    BY <2>4, <2>8, <2>10, <2>11, <2>12, <2>13, <2>14, <2>15 DEF CutSoFar
  <2> QED BY <2>16 DEF r
<1> QED BY <1>7, <1>8

(* A source of the node being added.                                        *)
LEMMA SourceAdds ==
  ASSUME GraphOK, NEW f, GoodIds(f), NEW n \in Nodes, ~IsView(n),
         NEW i \in 1..Len(Src(n)), NEW s \in Tensors, s = Src(n)[i],
         NEW st \in Cuts, CutSoFar(f, n, i - 1, st)
  PROVE  CutSoFar(f, n, i, AddSource(f, n, st, s))
<1> DEFINE len == Len(st.splits)
           b   == st.splits[len].backend
           new == Foreign(f, s, b) /\ <<s, b>> \notin st.copies
           place == IF Foreign(f, s, b) THEN <<s, b>> ELSE Original(s)
           r   == AddSource(f, n, st, s)
<1>1. /\ n \in Nat \ {0} /\ Nodes = 1..Len(graph) /\ Len(graph) \in Nat
      /\ st \in Cuts /\ Ranked(st.splits) /\ Homes(f, n, st.splits)
      /\ Fed(f, n, st) /\ Once(st.splits) /\ Copied(n, st)
      /\ Filled(f, n, i - 1, st) /\ st.splits[len].first <= n
  BY GraphFacts DEF CutSoFar
<1>2. /\ len \in Nat \ {0} /\ DOMAIN st.splits = 1..len /\ len \in DOMAIN st.splits
      /\ \A j \in DOMAIN st.splits :
           /\ st.splits[j] \in Parts /\ Len(st.splits[j].inputs) \in Nat
           /\ DOMAIN st.splits[j].inputs = 1..Len(st.splits[j].inputs)
  BY <1>1, LastSplit
<1>3. Within(st.splits, len, n) /\ f[n] = b
  BY LastHome
<1>4. s \in Tensors /\ s \in Range(Src(n)) /\ i \in DOMAIN Src(n) /\ Len(Src(n)) \in Nat
  BY SourceFacts DEF Range
<1>5. /\ r \in Cuts /\ Len(r.splits) = len
      /\ r.copies = IF Foreign(f, s, b) THEN st.copies \union {<<s, b>>} ELSE st.copies
      /\ r.places = [st.places EXCEPT ![n] = Append(@, place)]
      /\ \A j \in DOMAIN st.splits :
           /\ r.splits[j].backend = st.splits[j].backend
           /\ r.splits[j].first = st.splits[j].first
           /\ r.splits[j].inputs = IF new /\ j = len
                THEN Append(st.splits[j].inputs, s) ELSE st.splits[j].inputs
  <2>1. st \in Cuts /\ s \in Tensors
    BY <1>1, <1>4
  <2>2. Added(f, n, st, s, AddSource(f, n, st, s))
    BY <2>1, AddSourceFacts
  <2> QED BY <2>2 DEF Added
<1> HIDE DEF r
<1>6. /\ DOMAIN r.splits = DOMAIN st.splits
      /\ \A j \in DOMAIN r.splits : r.splits[j] \in Parts /\ r.splits[j].inputs \in Seq(Tensors)
                                    /\ st.splits[j].inputs \in Seq(Tensors)
  <2>1. DOMAIN r.splits = 1..len
    BY <1>5, LastSplit
  <2> QED BY <1>2, <1>5, <2>1, LastSplit DEF Parts
<1>7. /\ \A j \in DOMAIN st.splits : ~(new /\ j = len) => r.splits[j].inputs = st.splits[j].inputs
      /\ new => /\ r.splits[len].inputs = Append(st.splits[len].inputs, s)
                /\ DOMAIN r.splits[len].inputs = 1..Len(st.splits[len].inputs) + 1
                /\ r.splits[len].inputs[Len(st.splits[len].inputs) + 1] = s
                /\ \A h \in DOMAIN st.splits[len].inputs : r.splits[len].inputs[h] = st.splits[len].inputs[h]
  <2>1. \A j \in DOMAIN st.splits : ~(new /\ j = len) => r.splits[j].inputs = st.splits[j].inputs
    BY <1>5
  <2>2. new => r.splits[len].inputs = Append(st.splits[len].inputs, s)
    BY <1>2, <1>5
  <2>3. st.splits[len].inputs \in Seq(Tensors)
    BY <1>2, <1>6
  <2> DEFINE ins == st.splits[len].inputs
  <2> HIDE DEF ins
  <2>4. ins \in Seq(Tensors)
    BY <2>3 DEF ins
  <2>5. /\ DOMAIN Append(ins, s) = 1..Len(ins) + 1 /\ Append(ins, s)[Len(ins) + 1] = s
        /\ \A h \in DOMAIN ins : Append(ins, s)[h] = ins[h]
    BY <1>4, <2>4
  <2> QED BY <2>1, <2>2, <2>5 DEF ins
<1> HIDE DEF new
<1>8. \A j \in DOMAIN st.splits : \A h \in DOMAIN r.splits[j].inputs :
        \/ h \in DOMAIN st.splits[j].inputs /\ r.splits[j].inputs[h] = st.splits[j].inputs[h]
        \/ /\ new /\ j = len /\ h = Len(st.splits[len].inputs) + 1 /\ r.splits[j].inputs[h] = s
           /\ h \notin DOMAIN st.splits[j].inputs
  <2> SUFFICES ASSUME NEW j \in DOMAIN st.splits, NEW h \in DOMAIN r.splits[j].inputs,
                      h \notin DOMAIN st.splits[j].inputs
                      \/ r.splits[j].inputs[h] # st.splits[j].inputs[h]
               PROVE  /\ new /\ j = len /\ h = Len(st.splits[len].inputs) + 1
                      /\ r.splits[j].inputs[h] = s /\ h \notin DOMAIN st.splits[j].inputs
    OBVIOUS
  <2>1. new /\ j = len
    BY <1>7
  <2>2. h \in 1..Len(st.splits[len].inputs) + 1 /\ Len(st.splits[len].inputs) \in Nat
        /\ DOMAIN st.splits[len].inputs = 1..Len(st.splits[len].inputs)
    BY <1>2, <1>7, <2>1
  <2>3. h \notin DOMAIN st.splits[len].inputs
    BY <1>7, <2>1
  <2>4. h = Len(st.splits[len].inputs) + 1
    <3> DEFINE l == Len(st.splits[len].inputs)
    <3>1. l \in Nat /\ h \in 1..l + 1 /\ h \notin 1..l
      BY <2>2, <2>3
    <3> HIDE DEF l
    <3>2. h = l + 1
      BY <3>1
    <3> QED BY <3>2 DEF l
  <2>5. r.splits[j].inputs[h] = s
    BY <1>7, <2>1, <2>4
  <2> QED BY <2>1, <2>3, <2>4, <2>5
<1>9. Extends(st.splits, r.splits)
  <2>1. ASSUME NEW j \in DOMAIN st.splits, NEW h \in DOMAIN st.splits[j].inputs
        PROVE  h \in DOMAIN r.splits[j].inputs /\ r.splits[j].inputs[h] = st.splits[j].inputs[h]
    <3>1. CASE new /\ j = len
      <4>1. h \in 1..Len(st.splits[len].inputs) /\ Len(st.splits[len].inputs) \in Nat
        BY <1>2, <3>1
      <4>2. h \in 1..Len(st.splits[len].inputs) + 1
        BY <4>1
      <4> QED BY <1>7, <3>1, <4>2
    <3>2. CASE ~(new /\ j = len)
      BY <1>7, <3>2
    <3> QED BY <3>1, <3>2
  <2> QED BY <1>5, <1>6, <2>1 DEF Extends
<1>10. \A j, m : j \in DOMAIN st.splits => (Within(r.splits, j, m) <=> Within(st.splits, j, m))
  <2> SUFFICES ASSUME NEW j \in DOMAIN st.splits, NEW m
               PROVE  Within(r.splits, j, m) <=> Within(st.splits, j, m)
    OBVIOUS
  <2>1. j # len => j + 1 \in DOMAIN st.splits
    BY <1>2
  <2>2. SplitEnd(r.splits, j) = SplitEnd(st.splits, j)
    BY <1>5, <2>1 DEF SplitEnd
  <2> QED BY <1>5, <2>2 DEF Within
<1>11. Ranked(r.splits)
  <2>1. 1 \in DOMAIN st.splits
    BY <1>2
  <2> QED BY <1>1, <1>5, <1>6, <2>1 DEF Ranked
<1>12. Homes(f, n, r.splits)
  BY <1>1, <1>5, <1>6, <1>10 DEF Homes
<1>13. Fed(f, n, r)
  <2> SUFFICES ASSUME NEW j \in DOMAIN r.splits, NEW h \in DOMAIN r.splits[j].inputs
               PROVE  LET t == r.splits[j].inputs[h] IN
                      /\ <<t, r.splits[j].backend>> \in r.copies
                      /\ Foreign(f, t, r.splits[j].backend)
                      /\ \E m \in 1..n : ~IsView(m) /\ Within(r.splits, j, m) /\ t \in Range(Src(m))
    BY DEF Fed
  <2>1. j \in DOMAIN st.splits /\ r.splits[j].backend = st.splits[j].backend
    BY <1>5, <1>6
  <2>2. CASE h \in DOMAIN st.splits[j].inputs /\ r.splits[j].inputs[h] = st.splits[j].inputs[h]
    <3>1. st.copies \subseteq r.copies
      BY <1>5
    <3> QED BY <1>1, <1>10, <2>1, <2>2, <3>1 DEF Fed
  <2>3. CASE new /\ j = len /\ r.splits[j].inputs[h] = s
    <3>1. Foreign(f, s, b) /\ <<s, b>> \in r.copies
      BY <1>5, <2>3 DEF new
    <3>2. n \in 1..n /\ Within(r.splits, j, n)
      BY <1>1, <1>3, <1>10, <2>1, <2>3
    <3> QED BY <1>4, <2>1, <2>3, <3>1, <3>2
  <2> QED BY <1>8, <2>1, <2>2, <2>3
<1>14. Once(r.splits)
  <2>1. new => \A j \in DOMAIN st.splits : \A h \in DOMAIN st.splits[j].inputs :
               ~(st.splits[j].inputs[h] = s /\ st.splits[j].backend = b)
    BY <1>1 DEF Fed, new
  <2> SUFFICES ASSUME NEW j \in DOMAIN r.splits, NEW l \in DOMAIN r.splits,
                      NEW h \in DOMAIN r.splits[j].inputs, NEW g \in DOMAIN r.splits[l].inputs,
                      r.splits[j].inputs[h] = r.splits[l].inputs[g],
                      r.splits[j].backend = r.splits[l].backend
               PROVE  j = l /\ h = g
    BY DEF Once
  <2>2. /\ j \in DOMAIN st.splits /\ l \in DOMAIN st.splits
        /\ r.splits[j].backend = st.splits[j].backend /\ r.splits[l].backend = st.splits[l].backend
    BY <1>5, <1>6
  <2>3. CASE h \in DOMAIN st.splits[j].inputs /\ g \in DOMAIN st.splits[l].inputs
    <3>1. st.splits[j].inputs[h] = st.splits[l].inputs[g] /\ st.splits[j].backend = st.splits[l].backend
      BY <1>9, <2>2, <2>3 DEF Extends
    <3> QED BY <1>1, <2>2, <2>3, <3>1 DEF Once
  <2>4. CASE h \notin DOMAIN st.splits[j].inputs
    <3>1. new /\ j = len /\ h = Len(st.splits[len].inputs) + 1 /\ r.splits[j].inputs[h] = s
      BY <1>8, <2>2, <2>4
    <3>2. ASSUME g \in DOMAIN st.splits[l].inputs PROVE FALSE
      <4>1. st.splits[l].inputs[g] = s
        BY <1>9, <2>2, <3>1, <3>2 DEF Extends
      <4>2. st.splits[l].backend = b
        BY <2>2, <3>1
      <4> QED BY <2>1, <2>2, <3>1, <3>2, <4>1, <4>2
    <3>3. l = len /\ g = Len(st.splits[len].inputs) + 1
      BY <1>8, <2>2, <3>2
    <3> QED BY <3>1, <3>3
  <2>5. CASE g \notin DOMAIN st.splits[l].inputs
    <3>1. new /\ l = len /\ g = Len(st.splits[len].inputs) + 1 /\ r.splits[l].inputs[g] = s
      BY <1>8, <2>2, <2>5
    <3>2. ASSUME h \in DOMAIN st.splits[j].inputs PROVE FALSE
      <4>1. st.splits[j].inputs[h] = s
        BY <1>9, <2>2, <3>1, <3>2 DEF Extends
      <4>2. st.splits[j].backend = b
        BY <2>2, <3>1
      <4> QED BY <2>1, <2>2, <3>1, <3>2, <4>1, <4>2
    <3>3. j = len /\ h = Len(st.splits[len].inputs) + 1
      BY <1>8, <2>2, <3>2
    <3> QED BY <3>1, <3>3
  <2> QED BY <2>3, <2>4, <2>5
<1>15. \A c : CopiedBy(st.splits, c, n) => CopiedBy(r.splits, c, n)
  BY <1>9, LinksLast
<1>16. new => CopiedBy(r.splits, <<s, b>>, n)
  <2> SUFFICES ASSUME new PROVE CopiedBy(r.splits, <<s, b>>, n)
    OBVIOUS
  <2>0. Len(st.splits[len].inputs) \in Nat /\ DOMAIN r.splits[len].inputs = 1..Len(st.splits[len].inputs) + 1
    BY <1>2, <1>6, <1>7
  <2>1. Len(st.splits[len].inputs) + 1 \in DOMAIN r.splits[len].inputs
    BY <2>0
  <2>2. len \in DOMAIN r.splits /\ r.splits[len].first <= n /\ r.splits[len].backend = b
    BY <1>1, <1>2, <1>5, <1>6
  <2> QED BY <1>7, <2>1, <2>2 DEF CopiedBy
<1>17. Copied(n, r)
  BY <1>1, <1>5, <1>15, <1>16 DEF Copied, new
<1>18. Linked(f, n, i, r)
  <2>1. Linked(f, n, i - 1, st)
    BY <1>1 DEF Filled
  <2>2. st.places[n] \in Seq(Tensors \X (Backends \union {-1}))
    BY <1>1 DEF Cuts
  <2>3. r.places[n] = Append(st.places[n], place)
    BY <1>1, <1>5 DEF Cuts
  <2> DEFINE old == st.places[n]
  <2> HIDE DEF old, place
  <2>4. Len(old) = i - 1 /\ old \in Seq(Tensors \X (Backends \union {-1}))
    BY <2>1, <2>2 DEF old, Linked
  <2>5. place \in Tensors \X (Backends \union {-1})
    <3>1. b \in Backends
      BY <1>2 DEF Parts
    <3> QED BY <1>4, <3>1 DEF place, Original
  <2>6. /\ Len(Append(old, place)) = i /\ Append(old, place)[i] = place
        /\ \A q \in 1..i - 1 : Append(old, place)[q] = old[q]
    BY <2>4, <2>5
  <2>7. /\ Len(r.places[n]) = i /\ r.places[n][i] = place
        /\ \A q \in 1..i - 1 : r.places[n][q] = st.places[n][q]
    BY <2>3, <2>6 DEF old
  <2>8. ASSUME NEW q \in 1..i - 1
        PROVE  LET t == Src(n)[q] IN
               IF Foreign(f, t, f[n])
               THEN r.places[n][q] = <<t, f[n]>> /\ CopiedBy(r.splits, <<t, f[n]>>, n)
               ELSE r.places[n][q] = Original(t)
    BY <1>15, <2>1, <2>7 DEF Linked
  <2>9. IF Foreign(f, s, f[n])
        THEN r.places[n][i] = <<s, f[n]>> /\ CopiedBy(r.splits, <<s, f[n]>>, n)
        ELSE r.places[n][i] = Original(s)
    <3>1. Foreign(f, s, b) => CopiedBy(r.splits, <<s, b>>, n)
      BY <1>1, <1>15, <1>16 DEF Copied, new
    <3>2. r.places[n][i] = IF Foreign(f, s, b) THEN <<s, b>> ELSE Original(s)
      BY <2>7 DEF place
    <3> HIDE DEF b
    <3> QED BY <1>3, <3>1, <3>2
  <2>10. \A q \in 1..i : q \in 1..i - 1 \/ q = i
    OBVIOUS
  <2> QED BY <2>7, <2>8, <2>9, <2>10 DEF Linked
<1>19. Filled(f, n, i, r)
  <2>1. \A m \in Nodes : m # n => r.places[m] = st.places[m]
    BY <1>1, <1>5 DEF Cuts
  <2>2. \A m \in Nodes : m < n \/ m > n => m # n
    BY <1>1
  <2>3. ASSUME NEW m \in Nodes, ~IsView(m), m < n
        PROVE  Linked(f, m, Len(Src(m)), r)
    BY <1>1, <1>9, <2>1, <2>2, <2>3, LinksLast DEF Filled
  <2>4. \A m \in Nodes : IsView(m) => ViewLinked(m, r)
    BY <1>1, <2>1 DEF Filled, ViewLinked
  <2> QED BY <1>1, <1>18, <2>1, <2>2, <2>3, <2>4 DEF Filled
<1>20. r.splits[Len(r.splits)].first <= n /\ n # 0
  BY <1>1, <1>2, <1>5
<1>21. CutSoFar(f, n, i, r)
  BY <1>5, <1>11, <1>12, <1>13, <1>14, <1>17, <1>19, <1>20 DEF CutSoFar
<1> QED BY <1>21 DEF r

LEMMA NodeAdds ==
  ASSUME GraphOK, NEW f, GoodIds(f), NEW n \in Nodes, NEW st,
         CutSoFar(f, n - 1, Full(n - 1), st)
  PROVE  CutSoFar(f, n, Full(n), AddNode(f, st, n))
<1>1. CASE IsView(n)
  BY <1>1, ViewAdds DEF AddNode
<1>2. CASE ~IsView(n)
  <2> DEFINE len == Len(Src(n))
             S == Cuts
  <2>1. len \in Nat /\ DOMAIN Src(n) = 1..len /\ n \in Nat \ {0}
    BY SourceFacts, GraphFacts
  <2>2. CutSoFar(f, n, 0, BeginSplit(f, st, n))
    BY <1>2, SplitBegins
  <2>3. BeginSplit(f, st, n) \in S
    BY <2>2 DEF CutSoFar
  <2>4. ASSUME NEW r \in S, NEW i \in 1..len
        PROVE  AddSource(f, n, r, Src(n)[i]) \in S
    <3>1. Src(n)[i] \in Tensors
      BY <2>1, SourceFacts
    <3> QED BY <3>1, AddSourceFacts DEF Added
  <2> HIDE DEF len, S
  <2>5. PICK g : AddNodeRun(f, st, n, len, S, g)
    BY <1>2, <2>1, <2>3, <2>4, AddNodeSteps
  <2> DEFINE A == {k \in 0..len : CutSoFar(f, n, k, g[k])}
  <2>6. 0 \in A
    BY <2>1, <2>2, <2>5 DEF AddNodeRun
  <2>7. ASSUME NEW k \in 1..len, k - 1 \in A
        PROVE  k \in A
    <3>1. g[k] = AddSource(f, n, g[k - 1], Src(n)[k])
      BY <2>5 DEF AddNodeRun
    <3>2. Src(n)[k] \in Tensors /\ CutSoFar(f, n, k - 1, g[k - 1]) /\ g[k - 1] \in Cuts
      BY <2>1, <2>7, SourceFacts DEF CutSoFar
    <3>3. CutSoFar(f, n, k, g[k])
      BY <1>2, <2>1, <3>1, <3>2, SourceAdds DEF len
    <3> QED BY <2>1, <3>3
  <2> HIDE DEF A
  <2>8. len \in A
    <3>1. \A k \in 0..len : k \in A
      BY <2>1, <2>6, <2>7, UpTo
    <3> QED BY <2>1, <3>1
  <2>9. Full(n) = len
    BY <2>1 DEF Full, len
  <2> QED BY <2>5, <2>8, <2>9 DEF A, AddNodeRun
<1> QED BY <1>1, <1>2

LEMMA NodeType ==
  ASSUME GraphOK, NEW f, GoodIds(f), NEW n \in Nodes, NEW st \in Cuts
  PROVE  AddNode(f, st, n) \in Cuts
<1>1. CASE IsView(n)
  BY <1>1 DEF AddNode
<1>2. CASE ~IsView(n)
  <2> DEFINE len == Len(Src(n))
             S == Cuts
  <2>1. len \in Nat /\ DOMAIN Src(n) = 1..len
    BY SourceFacts
  <2>2. BeginSplit(f, st, n) \in S
    <3> DEFINE part == [backend |-> f[n], first |-> n, inputs |-> <<>>]
    <3>1. part \in Parts
      BY DEF Parts, GoodIds, Tensors
    <3>2. BeginSplit(f, st, n) = st \/ BeginSplit(f, st, n) = [st EXCEPT !.splits = Append(st.splits, part)]
      BY DEF BeginSplit
    <3> HIDE DEF part
    <3>3. st.splits \in Seq(Parts)
      BY DEF Cuts
    <3>4. Append(st.splits, part) \in Seq(Parts) \ {<<>>}
      BY <3>1, <3>3
    <3> QED BY <3>2, <3>4 DEF Cuts
  <2>3. ASSUME NEW r \in S, NEW i \in 1..len
        PROVE  AddSource(f, n, r, Src(n)[i]) \in S
    <3>1. Src(n)[i] \in Tensors
      BY <2>1, SourceFacts
    <3> QED BY <3>1, AddSourceFacts DEF Added
  <2> HIDE DEF len, S
  <2>4. PICK g : AddNodeRun(f, st, n, len, S, g)
    BY <1>2, <2>1, <2>2, <2>3, AddNodeSteps
  <2>5. AddNode(f, st, n) \in S
    BY <2>1, <2>4 DEF AddNodeRun
  <2> QED BY <2>5 DEF S
<1> QED BY <1>1, <1>2

LEMMA CutMade ==
  ASSUME GraphOK, NEW f, GoodIds(f)
  PROVE  CutSoFar(f, Len(graph), Full(Len(graph)), Pass5(f, {}))
<1> DEFINE n == Len(graph)
           S == Cuts
<1>1. n \in Nat /\ Nodes = 1..n
  BY GraphFacts
<1>2. CutSoFar(f, 0, Full(0), BeginCut(f, {}))
  BY CutBegins DEF Full
<1>3. BeginCut(f, {}) \in S /\ \A s \in S : \A i \in 1..n : AddNode(f, s, i) \in S
  BY <1>1, NodeType, BeginCutType
<1> HIDE DEF n, S
<1>4. PICK g : Pass5Run(f, {}, n, S, g)
  BY <1>1, <1>3, Pass5Steps
<1> DEFINE A == {k \in 0..n : CutSoFar(f, k, Full(k), g[k])}
<1>5. 0 \in A
  BY <1>1, <1>2, <1>4 DEF Pass5Run
<1>6. ASSUME NEW k \in 1..n, k - 1 \in A
      PROVE  k \in A
  <2>1. g[k] = AddNode(f, g[k - 1], k) /\ k \in Nodes
    BY <1>1, <1>4 DEF Pass5Run
  <2>2. CutSoFar(f, k, Full(k), g[k])
    BY <1>6, <2>1, NodeAdds
  <2> QED BY <2>2
<1> HIDE DEF A
<1>7. n \in A
  <2>1. \A k \in 0..n : k \in A
    BY <1>1, <1>5, <1>6, UpTo
  <2> QED BY <1>1, <2>1
<1> QED BY <1>4, <1>7 DEF A, n, Pass5Run

-----------------------------------------------------------------------------
(* The order: where the entries of each split are.                          *)
Entries == [kind : {"dep", "copy", "node"}, tensor : Tensors, backend : Backends]
Block(f, sp, k) == InputEntries(f, sp, k) \o NodeEntries(f, sp, k)
BlockAt(f, sp, ord, k, b) ==
  /\ b + Len(Block(f, sp, k)) <= Len(ord)
  /\ \A x \in 1..Len(Block(f, sp, k)) : ord[b + x] = Block(f, sp, k)[x]
InputsAt(f, sp, ord, k, b) ==
  \A i \in 1..Len(sp[k].inputs) :
    LET s == sp[k].inputs[i] IN
    /\ ord[b + 2 * i - 1] = Entry("dep", s, f[s])
    /\ ord[b + 2 * i] = Entry("copy", s, sp[k].backend)
NodesAt(f, sp, ord, k, b) ==
  \A n \in sp[k].first..SplitEnd(sp, k) :
    ord[b + 2 * Len(sp[k].inputs) + n - sp[k].first + 1] = Entry("node", n, f[n])
Starts(f, sp, ord, B) ==
  /\ ord \in Seq(Entries)
  /\ B \in [1..Len(sp) + 1 -> Nat] /\ B[1] = 0 /\ B[Len(sp) + 1] = Len(ord)
  /\ \A k \in 1..Len(sp) :
       /\ B[k + 1] = B[k] + 2 * Len(sp[k].inputs) + (SplitEnd(sp, k) - sp[k].first + 1)
       /\ InputsAt(f, sp, ord, k, B[k]) /\ NodesAt(f, sp, ord, k, B[k])

(* What splits are, whatever they were made from.                           *)
SplitsOK(sp) == sp \in Seq(Parts) /\ sp # <<>> /\ Ranked(sp)

LEMMA SplitFacts ==
  ASSUME GraphOK, NEW sp, SplitsOK(sp)
  PROVE  /\ Len(sp) \in Nat \ {0} /\ DOMAIN sp = 1..Len(sp)
         /\ \A k \in 1..Len(sp) :
              /\ sp[k].first \in Nodes /\ SplitEnd(sp, k) \in Nodes /\ sp[k].first <= SplitEnd(sp, k)
              /\ sp[k].backend \in Backends /\ sp[k].inputs \in Seq(Tensors)
              /\ Len(sp[k].inputs) \in Nat /\ DOMAIN sp[k].inputs = 1..Len(sp[k].inputs)
              /\ \A i \in 1..Len(sp[k].inputs) : sp[k].inputs[i] \in Tensors
<1>1. Len(sp) \in Nat \ {0} /\ DOMAIN sp = 1..Len(sp) /\ \A k \in 1..Len(sp) : sp[k] \in Parts
  BY DEF SplitsOK
<1>2. Nodes = 1..Len(graph) /\ Len(graph) \in Nat
  BY GraphFacts
<1>3. ASSUME NEW k \in 1..Len(sp)
      PROVE  /\ sp[k].first \in Nodes /\ sp[k].backend \in Backends /\ sp[k].inputs \in Seq(Tensors)
  BY <1>1, <1>3 DEF Parts
<1>4. ASSUME NEW k \in 1..Len(sp)
      PROVE  SplitEnd(sp, k) \in Nodes /\ sp[k].first <= SplitEnd(sp, k)
  <2>1. CASE k = Len(sp)
    BY <1>2, <1>3, <1>4, <2>1 DEF SplitEnd
  <2>2. CASE k # Len(sp)
    <3>1. k + 1 \in 1..Len(sp) /\ k < k + 1
      <4>1. Len(sp) \in Nat /\ k \in 1..Len(sp) /\ k # Len(sp)
        BY <1>1, <1>4, <2>2
      <4> QED BY <4>1
    <3>2. sp[k].first < sp[k + 1].first
      BY <1>1, <3>1 DEF SplitsOK, Ranked
    <3>3. sp[k].first \in 1..Len(graph) /\ sp[k + 1].first \in 1..Len(graph)
      BY <1>2, <1>3, <3>1
    <3>4. SplitEnd(sp, k) = sp[k + 1].first - 1
      BY <2>2 DEF SplitEnd
    <3> QED BY <1>2, <3>2, <3>3, <3>4
  <2> QED BY <2>1, <2>2
<1>5. ASSUME NEW k \in 1..Len(sp)
      PROVE  /\ Len(sp[k].inputs) \in Nat /\ DOMAIN sp[k].inputs = 1..Len(sp[k].inputs)
             /\ \A i \in 1..Len(sp[k].inputs) : sp[k].inputs[i] \in Tensors
  BY <1>3
<1> QED BY <1>1, <1>3, <1>4, <1>5

LEMMA NodesOfFacts ==
  ASSUME GraphOK, NEW sp, SplitsOK(sp), NEW k \in 1..Len(sp)
  PROVE  /\ Len(NodesOf(sp, k)) = SplitEnd(sp, k) - sp[k].first + 1
         /\ Len(NodesOf(sp, k)) \in Nat /\ DOMAIN NodesOf(sp, k) = 1..Len(NodesOf(sp, k))
         /\ NodesOf(sp, k) \in Seq(Nodes)
         /\ \A i \in 1..Len(NodesOf(sp, k)) : NodesOf(sp, k)[i] = sp[k].first + i - 1
<1> DEFINE l == SplitEnd(sp, k) - sp[k].first + 1
<1>1. NodesOf(sp, k) = [i \in 1..l |-> sp[k].first + i - 1]
  BY DEF NodesOf, SplitEnd
<1>2. /\ sp[k].first \in Nodes /\ SplitEnd(sp, k) \in Nodes /\ sp[k].first <= SplitEnd(sp, k)
      /\ Nodes = 1..Len(graph) /\ Len(graph) \in Nat
  BY SplitFacts, GraphFacts
<1>3. l \in Nat /\ \A i \in 1..l : sp[k].first + i - 1 \in Nodes
  BY <1>2, SMTT(60)
<1> HIDE DEF l
<1>4. NodesOf(sp, k) \in Seq(Nodes) /\ Len(NodesOf(sp, k)) = l /\ DOMAIN NodesOf(sp, k) = 1..l
  BY <1>1, <1>3
<1>5. \A i \in 1..l : NodesOf(sp, k)[i] = sp[k].first + i - 1
  BY <1>1
<1> QED BY <1>3, <1>4, <1>5 DEF l

LEMMA Concatenated ==
  ASSUME NEW S, NEW s \in Seq(S), NEW t \in Seq(S)
  PROVE  /\ s \o t \in Seq(S) /\ Len(s \o t) = Len(s) + Len(t)
         /\ \A i \in 1..Len(s) : (s \o t)[i] = s[i]
         /\ \A i \in 1..Len(t) : (s \o t)[Len(s) + i] = t[i]
<1>1. Len(s) \in Nat /\ Len(t) \in Nat /\ s \o t \in Seq(S) /\ Len(s \o t) = Len(s) + Len(t)
  OBVIOUS
<1>2. \A i \in 1..Len(s) : (s \o t)[i] = s[i]
  BY <1>1
<1>3. ASSUME NEW i \in 1..Len(t)
      PROVE  (s \o t)[Len(s) + i] = t[i]
  <2>1. Len(s) + i \in 1..Len(s) + Len(t) /\ Len(s) + i > Len(s) /\ (Len(s) + i) - Len(s) = i
    BY <1>1
  <2> QED BY <1>1, <2>1
<1> QED BY <1>1, <1>2, <1>3

BlockOK(f, sp, k) ==
  /\ Block(f, sp, k) \in Seq(Entries)
  /\ InputEntries(f, sp, k) \in Seq(Entries) /\ NodeEntries(f, sp, k) \in Seq(Entries)
  /\ Len(Block(f, sp, k)) = 2 * Len(sp[k].inputs) + (SplitEnd(sp, k) - sp[k].first + 1)
  /\ \A i \in 1..Len(sp[k].inputs) :
       LET s == sp[k].inputs[i] IN
       /\ Block(f, sp, k)[2 * i - 1] = Entry("dep", s, f[s])
       /\ Block(f, sp, k)[2 * i] = Entry("copy", s, sp[k].backend)
  /\ \A n \in sp[k].first..SplitEnd(sp, k) :
       Block(f, sp, k)[2 * Len(sp[k].inputs) + n - sp[k].first + 1] = Entry("node", n, f[n])

LEMMA BlockFacts ==
  ASSUME GraphOK, NEW f \in [Tensors -> Backends], NEW sp, SplitsOK(sp), NEW k \in 1..Len(sp)
  PROVE  BlockOK(f, sp, k)
<1> DEFINE ins == sp[k].inputs
           l == Len(sp[k].inputs)
           h == SplitEnd(sp, k) - sp[k].first + 1
           I == InputEntries(f, sp, k)
           N == NodeEntries(f, sp, k)
<1>1. /\ sp[k].first \in Nodes /\ SplitEnd(sp, k) \in Nodes /\ sp[k].first <= SplitEnd(sp, k)
      /\ Nodes = 1..Len(graph) /\ Len(graph) \in Nat /\ Nodes \subseteq Tensors
      /\ sp[k].backend \in Backends /\ l \in Nat /\ \A i \in 1..l : ins[i] \in Tensors
  BY SplitFacts, GraphFacts
<1>2. h \in Nat /\ DOMAIN NodesOf(sp, k) = 1..h
      /\ \A i \in 1..h : NodesOf(sp, k)[i] = sp[k].first + i - 1 /\ NodesOf(sp, k)[i] \in Nodes
  <2>1. Len(NodesOf(sp, k)) = h /\ h \in Nat /\ DOMAIN NodesOf(sp, k) = 1..h
    BY NodesOfFacts
  <2>2. \A i \in 1..h : NodesOf(sp, k)[i] = sp[k].first + i - 1
    BY <2>1, NodesOfFacts
  <2>3. NodesOf(sp, k) \in Seq(Nodes)
    BY NodesOfFacts
  <2> HIDE DEF h
  <2>4. \A i \in 1..h : NodesOf(sp, k)[i] \in Nodes
    BY <2>1, <2>3
  <2> QED BY <2>1, <2>2, <2>4
<1>3. I = [i \in 1..2 * l |-> IF i % 2 = 1 THEN Entry("dep", ins[(i + 1) \div 2], f[ins[(i + 1) \div 2]])
                              ELSE Entry("copy", ins[(i + 1) \div 2], sp[k].backend)]
  BY DEF InputEntries
<1>4. N = [i \in 1..h |-> Entry("node", NodesOf(sp, k)[i], f[NodesOf(sp, k)[i]])]
  BY <1>2 DEF NodeEntries
<1>5. \A i \in 1..2 * l : (i + 1) \div 2 \in 1..l
  BY <1>1
<1> HIDE DEF ins, l, h
<1>6. \A i \in 1..2 * l : I[i] \in Entries
  BY <1>1, <1>3, <1>5 DEF Entries, Entry
<1>7. \A i \in 1..h : N[i] \in Entries
  BY <1>1, <1>2, <1>4 DEF Entries, Entry
<1>8. I \in Seq(Entries) /\ Len(I) = 2 * l
  <2> DEFINE a == 2 * l
  <2>1. a \in Nat /\ I = [i \in 1..a |-> I[i]] /\ \A i \in 1..a : I[i] \in Entries
    BY <1>1, <1>3, <1>6
  <2> HIDE DEF I, a
  <2>2. I \in Seq(Entries) /\ Len(I) = a
    BY <2>1
  <2> QED BY <2>2 DEF a
<1>9. N \in Seq(Entries) /\ Len(N) = h
  <2>1. h \in Nat /\ N = [i \in 1..h |-> N[i]] /\ \A i \in 1..h : N[i] \in Entries
    BY <1>2, <1>4, <1>7
  <2> HIDE DEF N
  <2> QED BY <2>1
<1>10. \A i \in 1..l : I[2 * i - 1] = Entry("dep", ins[i], f[ins[i]]) /\ I[2 * i] = Entry("copy", ins[i], sp[k].backend)
  <2> SUFFICES ASSUME NEW i \in 1..l
               PROVE  I[2 * i - 1] = Entry("dep", ins[i], f[ins[i]]) /\ I[2 * i] = Entry("copy", ins[i], sp[k].backend)
    OBVIOUS
  <2>1. 2 * i - 1 \in 1..2 * l /\ 2 * i \in 1..2 * l
    BY <1>1
  <2>2. (2 * i - 1) % 2 = 1 /\ (2 * i) % 2 = 0
    BY <1>1
  <2>3. ((2 * i - 1) + 1) \div 2 = i /\ (2 * i + 1) \div 2 = i
    BY <1>1
  <2> QED BY <1>3, <2>1, <2>2, <2>3
<1>11. \A n \in sp[k].first..SplitEnd(sp, k) : n - sp[k].first + 1 \in 1..h /\ N[n - sp[k].first + 1] = Entry("node", n, f[n])
  <2> SUFFICES ASSUME NEW n \in sp[k].first..SplitEnd(sp, k)
               PROVE  n - sp[k].first + 1 \in 1..h /\ N[n - sp[k].first + 1] = Entry("node", n, f[n])
    OBVIOUS
  <2>1. n - sp[k].first + 1 \in 1..h /\ sp[k].first + (n - sp[k].first + 1) - 1 = n
    BY <1>1 DEF h
  <2> QED BY <1>2, <1>4, <2>1
<1> HIDE DEF I, N
<1>12. /\ I \o N \in Seq(Entries) /\ Len(I \o N) = 2 * l + h
       /\ \A i \in 1..2 * l : (I \o N)[i] = I[i]
       /\ \A i \in 1..h : (I \o N)[2 * l + i] = N[i]
  <2> DEFINE a == 2 * l
  <2>1. a \in Nat /\ h \in Nat /\ Len(I) = a /\ Len(N) = h /\ I \in Seq(Entries) /\ N \in Seq(Entries)
    BY <1>1, <1>2, <1>8, <1>9
  <2> HIDE DEF a
  <2>2. /\ I \o N \in Seq(Entries) /\ Len(I \o N) = a + h
        /\ \A i \in 1..a : (I \o N)[i] = I[i]
        /\ \A i \in 1..h : (I \o N)[a + i] = N[i]
    <3>1. /\ I \o N \in Seq(Entries) /\ Len(I \o N) = Len(I) + Len(N)
          /\ \A i \in 1..Len(I) : (I \o N)[i] = I[i]
          /\ \A i \in 1..Len(N) : (I \o N)[Len(I) + i] = N[i]
      <4>1. I \in Seq(Entries) /\ N \in Seq(Entries)
        BY <2>1
      <4> HIDE DEF ins, l, h
      <4> DEFINE T == Entries
      <4>2. I \in Seq(T) /\ N \in Seq(T)
        BY <4>1
      <4> HIDE DEF T
      <4>3. /\ I \o N \in Seq(T) /\ Len(I \o N) = Len(I) + Len(N)
            /\ \A i \in 1..Len(I) : (I \o N)[i] = I[i]
            /\ \A i \in 1..Len(N) : (I \o N)[Len(I) + i] = N[i]
        BY <4>2, Concatenated
      <4> QED BY <4>3 DEF T
    <3>2. Len(I) = a /\ Len(N) = h
      BY <2>1
    <3> HIDE DEF h
    <3> QED BY <3>1, <3>2
  <2> QED BY <2>2 DEF a
<1>13. \A i \in 1..l : (I \o N)[2 * i - 1] = I[2 * i - 1] /\ (I \o N)[2 * i] = I[2 * i]
  <2>1. \A i \in 1..l : 2 * i - 1 \in 1..2 * l /\ 2 * i \in 1..2 * l
    BY <1>1
  <2> QED BY <1>12, <2>1
<1>14. \A n \in sp[k].first..SplitEnd(sp, k) : (I \o N)[2 * l + n - sp[k].first + 1] = N[n - sp[k].first + 1]
  <2> SUFFICES ASSUME NEW n \in sp[k].first..SplitEnd(sp, k)
               PROVE  (I \o N)[2 * l + n - sp[k].first + 1] = N[n - sp[k].first + 1]
    OBVIOUS
  <2>1. n - sp[k].first + 1 \in 1..h
    BY <1>11
  <2>2. 2 * l + n - sp[k].first + 1 = 2 * l + (n - sp[k].first + 1)
    BY <1>1
  <2>3. (I \o N)[2 * l + (n - sp[k].first + 1)] = N[n - sp[k].first + 1]
    BY <1>12, <2>1
  <2> QED BY <2>2, <2>3
<1>15. Block(f, sp, k) = I \o N
  BY DEF Block, I, N
<1>16. \A i \in 1..l : /\ Block(f, sp, k)[2 * i - 1] = Entry("dep", ins[i], f[ins[i]])
                       /\ Block(f, sp, k)[2 * i] = Entry("copy", ins[i], sp[k].backend)
  BY <1>10, <1>13, <1>15
<1>17. \A n \in sp[k].first..SplitEnd(sp, k) :
         Block(f, sp, k)[2 * l + n - sp[k].first + 1] = Entry("node", n, f[n])
  BY <1>11, <1>14, <1>15
<1> QED BY <1>8, <1>9, <1>12, <1>15, <1>16, <1>17 DEF ins, l, h, I, N, BlockOK

LEMMA AppendedBlock ==
  ASSUME NEW S, NEW s \in Seq(S), NEW t \in Seq(S), NEW u \in Seq(S)
  PROVE  /\ (s \o t) \o u \in Seq(S) /\ Len((s \o t) \o u) = Len(s) + Len(t \o u)
         /\ \A x \in 1..Len(s) : ((s \o t) \o u)[x] = s[x]
         /\ \A x \in 1..Len(t \o u) : ((s \o t) \o u)[Len(s) + x] = (t \o u)[x]
<1> DEFINE v == s \o t
           w == t \o u
<1>1. /\ v \in Seq(S) /\ Len(v) = Len(s) + Len(t)
      /\ \A i \in 1..Len(s) : v[i] = s[i]
      /\ \A i \in 1..Len(t) : v[Len(s) + i] = t[i]
  BY Concatenated
<1>2. /\ w \in Seq(S) /\ Len(w) = Len(t) + Len(u)
      /\ \A i \in 1..Len(t) : w[i] = t[i]
      /\ \A i \in 1..Len(u) : w[Len(t) + i] = u[i]
  BY Concatenated
<1> HIDE DEF v, w
<1>3. /\ v \o u \in Seq(S) /\ Len(v \o u) = Len(v) + Len(u)
      /\ \A i \in 1..Len(v) : (v \o u)[i] = v[i]
      /\ \A i \in 1..Len(u) : (v \o u)[Len(v) + i] = u[i]
  <2>1. v \in Seq(S) /\ u \in Seq(S)
    BY <1>1
  <2> QED BY <2>1, Concatenated
<1> DEFINE y == v \o u
<1> HIDE DEF y
<1>4. /\ y \in Seq(S) /\ Len(y) = Len(v) + Len(u)
      /\ \A i \in 1..Len(v) : y[i] = v[i]
      /\ \A i \in 1..Len(u) : y[Len(v) + i] = u[i]
  BY <1>3 DEF y
<1>5. Len(s) \in Nat /\ Len(t) \in Nat /\ Len(u) \in Nat
  OBVIOUS
<1>6. ASSUME NEW x \in 1..Len(s) PROVE y[x] = s[x]
  BY <1>1, <1>4, <1>5
<1>7. ASSUME NEW x \in 1..Len(w) PROVE y[Len(s) + x] = w[x]
  <2>1. CASE x \in 1..Len(t)
    <3>1. Len(s) + x \in 1..Len(v)
      BY <1>1, <1>5, <2>1
    <3> QED BY <1>1, <1>2, <1>4, <2>1, <3>1
  <2>2. CASE x \notin 1..Len(t)
    <3> DEFINE i == x - Len(t)
    <3>1. i \in 1..Len(u) /\ Len(t) + i = x /\ Len(v) + i = Len(s) + x
      BY <1>1, <1>2, <1>5, <1>7, <2>2
    <3> HIDE DEF i
    <3> QED BY <1>2, <1>4, <3>1
  <2> QED BY <2>1, <2>2
<1>8. Len(y) = Len(s) + Len(w)
  BY <1>1, <1>2, <1>4, <1>5
<1>9. y = (s \o t) \o u
  BY DEF y, v
<1> QED BY <1>4, <1>6, <1>7, <1>8, <1>9 DEF w

LEMMA OrderStarts ==
  ASSUME GraphOK, NEW f \in [Tensors -> Backends], NEW sp, SplitsOK(sp)
  PROVE  \E B : Starts(f, sp, OrderOf(f, sp), B)
<1> DEFINE n == Len(sp)
           S == Seq(Entries)
           T == Entries
<1>1. n \in Nat \ {0} /\ DOMAIN sp = 1..n
  BY SplitFacts
<1>2. \A k \in 1..n : /\ InputEntries(f, sp, k) \in S /\ NodeEntries(f, sp, k) \in S
                      /\ Block(f, sp, k) \in S
  BY BlockFacts DEF BlockOK
<1>3. ASSUME NEW s \in S, NEW k \in 1..n
      PROVE  LET r == s \o InputEntries(f, sp, k) \o NodeEntries(f, sp, k) IN
             /\ r \in S /\ Len(r) = Len(s) + Len(Block(f, sp, k))
             /\ \A x \in 1..Len(s) : r[x] = s[x]
             /\ \A x \in 1..Len(Block(f, sp, k)) : r[Len(s) + x] = Block(f, sp, k)[x]
  <2>1. s \in Seq(T) /\ InputEntries(f, sp, k) \in Seq(T) /\ NodeEntries(f, sp, k) \in Seq(T)
    BY <1>2
  <2> HIDE DEF T
  <2>2. LET r == s \o InputEntries(f, sp, k) \o NodeEntries(f, sp, k) IN
        /\ r \in Seq(T) /\ Len(r) = Len(s) + Len(Block(f, sp, k))
        /\ \A x \in 1..Len(s) : r[x] = s[x]
        /\ \A x \in 1..Len(Block(f, sp, k)) : r[Len(s) + x] = Block(f, sp, k)[x]
    BY <2>1, AppendedBlock DEF Block
  <2> QED BY <2>2 DEF T
<1>4. <<>> \in S
  OBVIOUS
<1>5. \A s \in S : Len(s) \in Nat
  OBVIOUS
<1> HIDE DEF n, S
<1>6. PICK g : OrderRun(f, sp, n, S, g)
  <2>1. \A s \in S : \A i \in 1..n : s \o InputEntries(f, sp, i) \o NodeEntries(f, sp, i) \in S
    BY <1>3
  <2> QED BY <1>1, <1>4, <2>1, OrderSteps
<1>7. \A k \in 1..n :
        /\ g[k] \in S /\ g[k - 1] \in S /\ Len(g[k]) = Len(g[k - 1]) + Len(Block(f, sp, k))
        /\ \A x \in 1..Len(g[k - 1]) : g[k][x] = g[k - 1][x]
        /\ \A x \in 1..Len(Block(f, sp, k)) : g[k][Len(g[k - 1]) + x] = Block(f, sp, k)[x]
  <2> SUFFICES ASSUME NEW k \in 1..n
               PROVE  /\ g[k] \in S /\ g[k - 1] \in S /\ Len(g[k]) = Len(g[k - 1]) + Len(Block(f, sp, k))
                      /\ \A x \in 1..Len(g[k - 1]) : g[k][x] = g[k - 1][x]
                      /\ \A x \in 1..Len(Block(f, sp, k)) : g[k][Len(g[k - 1]) + x] = Block(f, sp, k)[x]
    OBVIOUS
  <2>1. g[k - 1] \in S /\ g[k] = g[k - 1] \o InputEntries(f, sp, k) \o NodeEntries(f, sp, k)
    BY <1>1, <1>6 DEF OrderRun
  <2> DEFINE r == g[k - 1] \o InputEntries(f, sp, k) \o NodeEntries(f, sp, k)
  <2>2. /\ r \in S /\ Len(r) = Len(g[k - 1]) + Len(Block(f, sp, k))
        /\ \A x \in 1..Len(g[k - 1]) : r[x] = g[k - 1][x]
        /\ \A x \in 1..Len(Block(f, sp, k)) : r[Len(g[k - 1]) + x] = Block(f, sp, k)[x]
    BY <1>3, <2>1
  <2>3. g[k] = r
    BY <2>1
  <2> HIDE DEF r
  <2> QED BY <2>1, <2>2, <2>3
<1>8. \A k \in 1..n : Len(Block(f, sp, k)) \in Nat /\ Len(g[k]) \in Nat /\ Len(g[k - 1]) \in Nat
  BY <1>2, <1>5, <1>7
<1> DEFINE A == {k \in 0..n : \A j \in 1..k : BlockAt(f, sp, g[k], j, Len(g[j - 1]))}
<1>9. 0 \in A
  BY <1>1
<1>10. ASSUME NEW k \in 1..n, k - 1 \in A
       PROVE  k \in A
  <2>1. ASSUME NEW j \in 1..k PROVE BlockAt(f, sp, g[k], j, Len(g[j - 1]))
    <3>1. CASE j = k
      BY <1>7, <1>8, <3>1 DEF BlockAt
    <3>2. CASE j # k
      <4>1. j \in 1..k - 1 /\ j \in 1..n
        BY <1>1, <3>2
      <4>2. BlockAt(f, sp, g[k - 1], j, Len(g[j - 1]))
        BY <1>10, <4>1
      <4>3. Len(g[j - 1]) + Len(Block(f, sp, j)) <= Len(g[k])
        BY <1>7, <1>8, <4>1, <4>2, SMTT(30) DEF BlockAt
      <4>4. ASSUME NEW x \in 1..Len(Block(f, sp, j))
            PROVE  g[k][Len(g[j - 1]) + x] = Block(f, sp, j)[x]
        <5>1. Len(g[j - 1]) + x \in 1..Len(g[k - 1])
          BY <1>8, <4>1, <4>2, SMTT(60) DEF BlockAt
        <5> QED BY <1>7, <4>2, <5>1 DEF BlockAt
      <4> QED BY <4>3, <4>4 DEF BlockAt
    <3> QED BY <3>1, <3>2
  <2> QED BY <2>1
<1> HIDE DEF A
<1>11. n \in A
  <2>1. \A k \in 0..n : k \in A
    BY <1>1, <1>9, <1>10, UpTo
  <2> QED BY <1>1, <2>1
<1> DEFINE ord == OrderOf(f, sp)
           B == [k \in 1..n + 1 |-> Len(g[k - 1])]
<1>12. ord = g[n] /\ \A j \in 1..n : BlockAt(f, sp, ord, j, Len(g[j - 1]))
  BY <1>6, <1>11 DEF A, OrderRun
<1> HIDE DEF ord
<1>13. /\ \A k \in 1..n : k \in 1..n + 1 /\ k + 1 \in 1..n + 1 /\ B[k] = Len(g[k - 1]) /\ B[k + 1] = Len(g[k])
       /\ B[1] = 0 /\ B[n + 1] = Len(ord) /\ B \in [1..n + 1 -> Nat]
  <2>1. \A k \in 1..n : k \in 1..n + 1 /\ k + 1 \in 1..n + 1 /\ (k + 1) - 1 = k
    BY <1>1
  <2>2. 1 \in 1..n + 1 /\ n + 1 \in 1..n + 1 /\ (n + 1) - 1 = n
    BY <1>1
  <2>3. g[0] = <<>> /\ Len(g[0]) = 0
    BY <1>6 DEF OrderRun
  <2>4. \A k \in 1..n + 1 : g[k - 1] \in S
    <3>1. \A k \in 1..n + 1 : k - 1 \in 0..n
      BY <1>1
    <3> QED BY <1>6, <3>1 DEF OrderRun
  <2>5. B \in [1..n + 1 -> Nat]
    BY <1>5, <2>4
  <2>6. B[1] = 0
    BY <2>2, <2>3
  <2>7. B[n + 1] = Len(ord)
    BY <1>12, <2>2
  <2>8. \A k \in 1..n : B[k] = Len(g[k - 1]) /\ B[k + 1] = Len(g[k])
    BY <2>1
  <2> QED BY <2>1, <2>5, <2>6, <2>7, <2>8
<1> HIDE DEF B
<1>14. ASSUME NEW k \in 1..n
       PROVE  /\ B[k + 1] = B[k] + 2 * Len(sp[k].inputs) + (SplitEnd(sp, k) - sp[k].first + 1)
              /\ InputsAt(f, sp, ord, k, B[k]) /\ NodesAt(f, sp, ord, k, B[k])
  <2> DEFINE l == Len(sp[k].inputs)
             X == Block(f, sp, k)
             a == sp[k].first
             z == SplitEnd(sp, k)
             b == B[k]
  <2>1. /\ Len(X) = 2 * l + (z - a + 1) /\ l \in Nat /\ a \in Nat /\ z \in Nat /\ a <= z /\ b \in Nat
        /\ \A i \in 1..l : LET s == sp[k].inputs[i] IN
             /\ X[2 * i - 1] = Entry("dep", s, f[s])
             /\ X[2 * i] = Entry("copy", s, sp[k].backend)
        /\ \A m \in a..z : X[2 * l + m - a + 1] = Entry("node", m, f[m])
    <3>1. k \in 1..Len(sp)
      BY DEF n
    <3>2. l \in Nat /\ a \in Nat /\ z \in Nat /\ a <= z
      BY <3>1, SplitFacts, GraphFacts
    <3>3. b \in Nat
      BY <1>13
    <3>7. BlockOK(f, sp, k)
      BY <3>1, BlockFacts
    <3>4. \A i \in 1..l : LET s == sp[k].inputs[i] IN
             /\ X[2 * i - 1] = Entry("dep", s, f[s])
             /\ X[2 * i] = Entry("copy", s, sp[k].backend)
      BY <3>7 DEF BlockOK
    <3>5. Len(X) = 2 * l + (z - a + 1)
      BY <3>7 DEF BlockOK
    <3>6. \A m \in a..z : X[2 * l + m - a + 1] = Entry("node", m, f[m])
      BY <3>7 DEF BlockOK
    <3> QED BY <3>2, <3>3, <3>4, <3>5, <3>6
  <2>2. \A x \in 1..Len(X) : ord[b + x] = X[x]
    BY <1>12, <1>13 DEF BlockAt
  <2>3. B[k + 1] = b + Len(X)
    BY <1>7, <1>13
  <2> HIDE DEF l, X, a, z, b
  <2>4. \A i \in 1..l : LET s == sp[k].inputs[i] IN
          /\ ord[b + 2 * i - 1] = Entry("dep", s, f[s])
          /\ ord[b + 2 * i] = Entry("copy", s, sp[k].backend)
    <3> SUFFICES ASSUME NEW i \in 1..l
                 PROVE  ord[b + 2 * i - 1] = X[2 * i - 1] /\ ord[b + 2 * i] = X[2 * i]
      BY <2>1
    <3>1. 2 * i - 1 \in 1..Len(X) /\ 2 * i \in 1..Len(X) /\ b + (2 * i - 1) = b + 2 * i - 1
      BY <2>1
    <3>2. ord[b + (2 * i - 1)] = X[2 * i - 1] /\ ord[b + 2 * i] = X[2 * i]
      BY <2>2, <3>1
    <3> QED BY <3>1, <3>2
  <2>5. \A m \in a..z : ord[b + 2 * l + m - a + 1] = Entry("node", m, f[m])
    <3> SUFFICES ASSUME NEW m \in a..z
                 PROVE  ord[b + 2 * l + m - a + 1] = X[2 * l + m - a + 1]
      BY <2>1
    <3>1. 2 * l + m - a + 1 \in 1..Len(X) /\ b + (2 * l + m - a + 1) = b + 2 * l + m - a + 1
      BY <2>1
    <3>2. ord[b + (2 * l + m - a + 1)] = X[2 * l + m - a + 1]
      BY <2>2, <3>1
    <3> QED BY <3>1, <3>2
  <2>6. InputsAt(f, sp, ord, k, b)
    BY <2>4 DEF InputsAt, l
  <2>7. NodesAt(f, sp, ord, k, b)
    BY <2>5 DEF NodesAt, l, a, z
  <2>8. B[k + 1] = b + 2 * l + (z - a + 1)
    BY <2>1, <2>3
  <2> QED BY <2>6, <2>7, <2>8 DEF b, l, a, z
<1>15. ord \in Seq(Entries)
  BY <1>1, <1>7, <1>12 DEF S
<1>16. Starts(f, sp, ord, B)
  BY <1>13, <1>14, <1>15 DEF Starts, n
<1> QED BY <1>16 DEF ord

(* Every node is in one split.                                              *)
LEMMA SplitOfNode ==
  ASSUME GraphOK, NEW sp, SplitsOK(sp), NEW n \in Nodes
  PROVE  /\ \E k \in 1..Len(sp) : Within(sp, k, n)
         /\ \A k, l \in 1..Len(sp) : \A m \in Nodes :
              /\ k < l => SplitEnd(sp, k) < sp[l].first
              /\ Within(sp, k, n) /\ Within(sp, l, n) => k = l
              /\ Within(sp, k, n) /\ Within(sp, l, m) /\ n <= m => k <= l
              /\ Within(sp, k, n) => (sp[l].first <= n <=> l <= k)
<1>1. /\ Len(sp) \in Nat \ {0} /\ DOMAIN sp = 1..Len(sp) /\ Nodes = 1..Len(graph) /\ Len(graph) \in Nat
      /\ \A k \in 1..Len(sp) : /\ sp[k].first \in Nat /\ SplitEnd(sp, k) \in Nat
                               /\ sp[k].first <= SplitEnd(sp, k)
  BY SplitFacts, GraphFacts
<1>2. \A k, l \in 1..Len(sp) : k < l => sp[k].first < sp[l].first
  BY <1>1 DEF SplitsOK, Ranked
<1>3. ASSUME NEW k \in 1..Len(sp), NEW l \in 1..Len(sp), k < l
      PROVE  SplitEnd(sp, k) < sp[l].first
  <2>0. Len(sp) \in Nat /\ Len(graph) \in Nat
    BY <1>1
  <2>1. k + 1 \in 1..Len(sp) /\ (k + 1 = l \/ k + 1 < l) /\ k # Len(sp)
    BY <1>3, <2>0
  <2>2. SplitEnd(sp, k) = sp[k + 1].first - 1
    BY <2>1 DEF SplitEnd
  <2>3. sp[k + 1].first <= sp[l].first
    <3>1. sp[k + 1].first \in Nat /\ sp[l].first \in Nat
      BY <1>1, <2>1
    <3>2. CASE k + 1 = l
      BY <3>1, <3>2
    <3>3. CASE k + 1 < l
      <4>1. sp[k + 1].first < sp[l].first
        BY <1>2, <2>1, <3>3
      <4> QED BY <3>1, <4>1
    <3> QED BY <2>1, <3>2, <3>3
  <2>4. sp[k + 1].first \in Nat /\ sp[l].first \in Nat
    BY <1>1, <2>1
  <2> QED BY <2>2, <2>3, <2>4
<1>4. \E k \in 1..Len(sp) : Within(sp, k, n)
  <2> DEFINE len == Len(sp)
             A == {k \in 0..len : k > 0 /\ n <= SplitEnd(sp, k) => \E j \in 1..k : Within(sp, j, n)}
  <2>1. 0 \in A
    BY <1>1
  <2>2. ASSUME NEW k \in 1..len, k - 1 \in A
        PROVE  k \in A
    <3>1. ASSUME n <= SplitEnd(sp, k)
          PROVE  \E j \in 1..k : Within(sp, j, n)
      <4>1. CASE sp[k].first <= n
        BY <3>1, <4>1 DEF Within
      <4>2. CASE ~(sp[k].first <= n)
        <5>1. k # 1
          BY <1>1, <4>2 DEF SplitsOK, Ranked
        <5>2. k - 1 \in 1..len /\ k - 1 # len /\ (k - 1) + 1 = k
          BY <1>1, <5>1
        <5>3. n <= SplitEnd(sp, k - 1)
          <6>1. SplitEnd(sp, k - 1) = sp[k].first - 1
            BY <5>2 DEF SplitEnd
          <6>2. sp[k].first \in Nat /\ n \in Nat
            BY <1>1
          <6> QED BY <4>2, <6>1, <6>2
        <5>4. PICK j \in 1..k - 1 : Within(sp, j, n)
          BY <2>2, <5>2, <5>3
        <5> QED BY <5>2, <5>4
      <4> QED BY <4>1, <4>2
    <3> QED BY <3>1
  <2>3. len \in Nat \ {0} /\ n <= SplitEnd(sp, len)
    <3>1. SplitEnd(sp, len) = Len(graph)
      BY DEF SplitEnd
    <3>2. len \in Nat \ {0} /\ n \in 1..Len(graph) /\ Len(graph) \in Nat
      BY <1>1
    <3> QED BY <3>1, <3>2
  <2> HIDE DEF A, len
  <2>4. \A k \in 0..len : k \in A
    BY <2>1, <2>2, <2>3, UpTo
  <2> QED BY <2>3, <2>4 DEF A, len
<1>5. ASSUME NEW k \in 1..Len(sp), NEW l \in 1..Len(sp), NEW m \in Nodes
      PROVE  /\ Within(sp, k, n) /\ Within(sp, l, m) /\ n <= m => k <= l
             /\ Within(sp, k, n) => (sp[l].first <= n <=> l <= k)
  <2>1. l < k => SplitEnd(sp, l) < sp[k].first
    BY <1>3
  <2>2. k < l => SplitEnd(sp, k) < sp[l].first
    BY <1>3
  <2>3. n \in Nat /\ m \in Nat /\ sp[k].first \in Nat /\ sp[l].first \in Nat
        /\ SplitEnd(sp, k) \in Nat /\ SplitEnd(sp, l) \in Nat
        /\ sp[l].first <= SplitEnd(sp, l)
    BY <1>1
  <2>4. Within(sp, k, n) /\ Within(sp, l, m) /\ n <= m => k <= l
    BY <2>1, <2>3 DEF Within
  <2>5. Within(sp, k, n) => (sp[l].first <= n <=> l <= k)
    BY <2>1, <2>2, <2>3 DEF Within
  <2> QED BY <2>4, <2>5
<1>6. ASSUME NEW k \in 1..Len(sp), NEW l \in 1..Len(sp), Within(sp, k, n), Within(sp, l, n)
      PROVE  k = l
  <2>1. n <= n
    BY <1>1
  <2>2. k <= l /\ l <= k
    BY <1>5, <1>6, <2>1
  <2> QED BY <2>2
<1> QED BY <1>3, <1>4, <1>5, <1>6

NodePos(sp, B, k, n) == B[k] + 2 * Len(sp[k].inputs) + n - sp[k].first + 1
CopyPos(B, k, i) == B[k] + 2 * i
InBlock(B, k, p) == B[k] < p /\ p <= B[k + 1]

(* Blocks follow one another, and every entry of the order is in one.       *)
LEMMA BlocksRanked ==
  ASSUME GraphOK, NEW f, NEW sp, SplitsOK(sp), NEW ord, NEW B, Starts(f, sp, ord, B)
  PROVE  /\ \A k \in 1..Len(sp) : B[k] \in Nat /\ B[k + 1] \in Nat
         /\ \A k, l \in 1..Len(sp) : \A p, q \in Int :
              InBlock(B, k, p) /\ InBlock(B, l, q) /\ k < l => p < q
         /\ DOMAIN ord = 1..Len(ord) /\ Len(ord) \in Nat
         /\ \A k \in 1..Len(sp) : \A p \in Int : InBlock(B, k, p) => p \in DOMAIN ord
         /\ \A p \in DOMAIN ord : \E k \in 1..Len(sp) : InBlock(B, k, p)
<1> DEFINE n == Len(sp)
<1>1. n \in Nat \ {0}
  BY SplitFacts
<1>2. /\ B \in [1..n + 1 -> Nat] /\ B[1] = 0 /\ B[n + 1] = Len(ord)
      /\ DOMAIN ord = 1..Len(ord) /\ Len(ord) \in Nat
  BY DEF Starts
<1>3. \A k \in 1..n : /\ k \in 1..n + 1 /\ k + 1 \in 1..n + 1
                      /\ B[k] \in Nat /\ B[k + 1] \in Nat /\ B[k] <= B[k + 1]
  <2> SUFFICES ASSUME NEW k \in 1..n
               PROVE  /\ k \in 1..n + 1 /\ k + 1 \in 1..n + 1
                      /\ B[k] \in Nat /\ B[k + 1] \in Nat /\ B[k] <= B[k + 1]
    OBVIOUS
  <2>1. k \in 1..n + 1 /\ k + 1 \in 1..n + 1
    BY <1>1
  <2>2. B[k] \in Nat /\ B[k + 1] \in Nat
    BY <1>2, <2>1
  <2>3. /\ Len(sp[k].inputs) \in Nat /\ SplitEnd(sp, k) \in Nat /\ sp[k].first \in Nat
        /\ sp[k].first <= SplitEnd(sp, k)
    BY SplitFacts, GraphFacts
  <2>4. B[k + 1] = B[k] + 2 * Len(sp[k].inputs) + (SplitEnd(sp, k) - sp[k].first + 1)
    BY DEF Starts
  <2>5. ASSUME NEW x \in Nat, NEW y \in Nat, NEW l \in Nat, NEW e \in Nat, NEW d \in Nat,
               d <= e, y = x + 2 * l + (e - d + 1)
        PROVE  x <= y
    BY <2>5
  <2>6. B[k] <= B[k + 1]
    BY <2>2, <2>3, <2>4, <2>5, SMTT(60)
  <2> QED BY <2>1, <2>2, <2>6
<1> HIDE DEF n
<1>4. \A l \in 0..n : \A k \in 1..n : k <= l => B[k + 1] <= B[l + 1]
  <2> DEFINE A == {l \in 0..n : \A k \in 1..n : k <= l => B[k + 1] <= B[l + 1]}
  <2>1. 0 \in A
    BY <1>1
  <2>2. ASSUME NEW l \in 1..n, l - 1 \in A
        PROVE  l \in A
    <3> SUFFICES ASSUME NEW k \in 1..n, k <= l PROVE B[k + 1] <= B[l + 1]
      BY <1>1
    <3>1. CASE k = l
      BY <1>3, <3>1
    <3>2. CASE k # l
      <4>1. k <= l - 1 /\ (l - 1) + 1 = l
        BY <1>1, <3>2
      <4>2. B[k + 1] <= B[l]
        BY <2>2, <4>1
      <4> QED BY <1>3, <4>2
    <3> QED BY <3>1, <3>2
  <2> HIDE DEF A
  <2>3. \A l \in 0..n : l \in A
    BY <1>1, <2>1, <2>2, UpTo
  <2> QED BY <2>3 DEF A
<1>5. \A k, l \in 1..n : k < l => B[k + 1] <= B[l]
  <2> SUFFICES ASSUME NEW k \in 1..n, NEW l \in 1..n, k < l PROVE B[k + 1] <= B[l]
    OBVIOUS
  <2>1. l - 1 \in 0..n /\ k <= l - 1 /\ (l - 1) + 1 = l
    BY <1>1
  <2> QED BY <1>4, <2>1
<1>6. \A k, l \in 1..n : \A p, q \in Int : InBlock(B, k, p) /\ InBlock(B, l, q) /\ k < l => p < q
  <2> SUFFICES ASSUME NEW k \in 1..n, NEW l \in 1..n, NEW p \in Int, NEW q \in Int,
                      InBlock(B, k, p), InBlock(B, l, q), k < l
               PROVE  p < q
    OBVIOUS
  <2>1. B[k + 1] <= B[l] /\ B[k + 1] \in Nat /\ B[l] \in Nat
    BY <1>3, <1>5
  <2> QED BY <2>1 DEF InBlock
<1>7. ASSUME NEW k \in 1..n, NEW p \in Int, InBlock(B, k, p)
      PROVE  p \in DOMAIN ord
  <2>1. B[k + 1] <= B[n + 1] /\ B[k] \in Nat /\ B[k + 1] \in Nat
    BY <1>1, <1>3, <1>4
  <2> QED BY <1>2, <1>7, <2>1 DEF InBlock
<1>8. ASSUME NEW p \in DOMAIN ord
      PROVE  \E k \in 1..n : InBlock(B, k, p)
  <2> DEFINE A == {k \in 0..n : p <= B[k + 1] => \E j \in 1..n : InBlock(B, j, p)}
  <2>1. 0 \in A
    BY <1>1, <1>2
  <2>2. ASSUME NEW k \in 1..n, k - 1 \in A
        PROVE  k \in A
    <3>1. (k - 1) + 1 = k /\ p \in Nat
      BY <1>1, <1>2
    <3>2. CASE p <= B[k]
      BY <2>2, <3>1, <3>2
    <3>3. CASE ~(p <= B[k])
      BY <1>3, <3>1, <3>3 DEF InBlock
    <3> QED BY <3>2, <3>3
  <2> HIDE DEF A
  <2>3. \A k \in 0..n : k \in A
    BY <1>1, <2>1, <2>2, UpTo
  <2>4. n \in A /\ p <= B[n + 1]
    BY <1>1, <1>2, <2>3
  <2> QED BY <2>4 DEF A
<1> QED BY <1>2, <1>3, <1>6, <1>7, <1>8 DEF n

(* What is at a place of a block.                                           *)
Positioned(f, sp, ord, B, k) ==
  /\ \A i \in 1..Len(sp[k].inputs) :
       /\ CopyPos(B, k, i) \in Int /\ InBlock(B, k, CopyPos(B, k, i))
       /\ InBlock(B, k, CopyPos(B, k, i) - 1)
       /\ ord[CopyPos(B, k, i)] = Entry("copy", sp[k].inputs[i], sp[k].backend)
       /\ ord[CopyPos(B, k, i) - 1] = Entry("dep", sp[k].inputs[i], f[sp[k].inputs[i]])
  /\ \A n \in Nodes : Within(sp, k, n) =>
       /\ NodePos(sp, B, k, n) \in Int /\ InBlock(B, k, NodePos(sp, B, k, n))
       /\ ord[NodePos(sp, B, k, n)] = Entry("node", n, f[n])
       /\ \A i \in 1..Len(sp[k].inputs) : CopyPos(B, k, i) < NodePos(sp, B, k, n)
  /\ \A p \in Int : InBlock(B, k, p) =>
       \/ \E i \in 1..Len(sp[k].inputs) : p = CopyPos(B, k, i) \/ p = CopyPos(B, k, i) - 1
       \/ \E n \in Nodes : Within(sp, k, n) /\ p = NodePos(sp, B, k, n)

LEMMA Positions ==
  ASSUME GraphOK, NEW f, NEW sp, SplitsOK(sp), NEW ord, NEW B, Starts(f, sp, ord, B),
         NEW k \in 1..Len(sp)
  PROVE  Positioned(f, sp, ord, B, k)
<1> DEFINE l == Len(sp[k].inputs)
           a == sp[k].first
           z == SplitEnd(sp, k)
           b == B[k]
<1>1. /\ l \in Nat /\ a \in Nat /\ z \in Nat /\ a <= z /\ a \in Nodes /\ z \in Nodes
      /\ Nodes = 1..Len(graph) /\ Len(graph) \in Nat
  BY SplitFacts, GraphFacts
<1>2. b \in Nat /\ B[k + 1] = b + 2 * l + (z - a + 1)
  BY BlocksRanked DEF Starts
<1>3. /\ \A i \in 1..l : /\ ord[b + 2 * i - 1] = Entry("dep", sp[k].inputs[i], f[sp[k].inputs[i]])
                         /\ ord[b + 2 * i] = Entry("copy", sp[k].inputs[i], sp[k].backend)
      /\ \A n \in a..z : ord[b + 2 * l + n - a + 1] = Entry("node", n, f[n])
  BY DEF Starts, InputsAt, NodesAt
<1> HIDE DEF l, a, z, b
<1>4. ASSUME NEW i \in 1..l
      PROVE  /\ CopyPos(B, k, i) \in Int /\ InBlock(B, k, CopyPos(B, k, i))
             /\ InBlock(B, k, CopyPos(B, k, i) - 1)
             /\ ord[CopyPos(B, k, i)] = Entry("copy", sp[k].inputs[i], sp[k].backend)
             /\ ord[CopyPos(B, k, i) - 1] = Entry("dep", sp[k].inputs[i], f[sp[k].inputs[i]])
  <2>1. CopyPos(B, k, i) = b + 2 * i
    BY DEF CopyPos, b
  <2>2. InBlock(B, k, b + 2 * i) /\ InBlock(B, k, b + 2 * i - 1)
    <3>1. b < b + 2 * i - 1 /\ b + 2 * i <= b + 2 * l + (z - a + 1)
      BY <1>1, <1>2
    <3> QED BY <1>1, <1>2, <3>1 DEF InBlock, b
  <2> QED BY <1>1, <1>2, <1>3, <2>1, <2>2
<1>5. ASSUME NEW n \in Nodes, Within(sp, k, n)
      PROVE  /\ NodePos(sp, B, k, n) \in Int /\ InBlock(B, k, NodePos(sp, B, k, n))
             /\ ord[NodePos(sp, B, k, n)] = Entry("node", n, f[n])
             /\ \A i \in 1..l : CopyPos(B, k, i) < NodePos(sp, B, k, n)
  <2>1. NodePos(sp, B, k, n) = b + 2 * l + n - a + 1 /\ n \in a..z
    BY <1>1, <1>5 DEF NodePos, Within, b, l, a, z
  <2>2. InBlock(B, k, b + 2 * l + n - a + 1)
    <3>1. b < b + 2 * l + n - a + 1 /\ b + 2 * l + n - a + 1 <= b + 2 * l + (z - a + 1)
      BY <1>1, <1>2, <2>1
    <3> QED BY <1>2, <3>1 DEF InBlock, b
  <2>3. \A i \in 1..l : CopyPos(B, k, i) < b + 2 * l + n - a + 1
    BY <1>1, <1>2, <2>1, SMTT(60) DEF CopyPos, b
  <2> QED BY <1>1, <1>2, <1>3, <2>1, <2>2, <2>3
<1>6. ASSUME NEW p \in Int, InBlock(B, k, p)
      PROVE  \/ \E i \in 1..l : p = CopyPos(B, k, i) \/ p = CopyPos(B, k, i) - 1
             \/ \E n \in Nodes : Within(sp, k, n) /\ p = NodePos(sp, B, k, n)
  <2> DEFINE x == p - b
  <2>1. x \in 1..2 * l + (z - a + 1)
    BY <1>1, <1>2, <1>6 DEF InBlock, b
  <2>2. CASE x <= 2 * l
    <3> DEFINE i == (x + 1) \div 2
    <3>1. ASSUME NEW y \in Int, NEW j \in Int, NEW m \in Nat,
                 j = (y + 1) \div 2, 1 <= y, y <= 2 * m
          PROVE  j \in 1..m /\ (y = 2 * j \/ y = 2 * j - 1)
      BY <3>1
    <3>2. x \in Int /\ 1 <= x /\ x <= 2 * l /\ l \in Nat
      BY <1>1, <2>1, <2>2
    <3> HIDE DEF x
    <3>3. i \in Int
      BY <3>2
    <3>4. i \in 1..l /\ (x = 2 * i \/ x = 2 * i - 1)
      BY <3>1, <3>2, <3>3
    <3> USE DEF x
    <3> HIDE DEF i
    <3>5. p = b + 2 * i \/ p = b + 2 * i - 1
      BY <1>2, <3>4
    <3>6. CopyPos(B, k, i) = b + 2 * i
      BY DEF CopyPos, b
    <3>7. p = CopyPos(B, k, i) \/ p = CopyPos(B, k, i) - 1
      <4>1. b \in Nat /\ i \in Int
        BY <1>1, <1>2, <3>4
      <4> QED BY <3>5, <3>6, <4>1
    <3>8. i \in 1..l
      BY <3>4
    <3> QED BY <3>7, <3>8
  <2>3. CASE ~(x <= 2 * l)
    <3> DEFINE n == x - 2 * l + a - 1
    <3>1. n \in a..z /\ n \in Nodes /\ p = b + 2 * l + n - a + 1
      BY <1>1, <1>2, <2>1, <2>3
    <3> HIDE DEF n
    <3>2. Within(sp, k, n) /\ p = NodePos(sp, B, k, n)
      BY <3>1 DEF Within, NodePos, b, l, a, z
    <3> QED BY <3>1, <3>2
  <2> QED BY <2>2, <2>3
<1> QED BY <1>4, <1>5, <1>6 DEF l, Positioned

-----------------------------------------------------------------------------
(* What a graph that is split has: the backends, the cut and the order.     *)
Cutting == [splits |-> splits, copies |-> copies, places |-> places]
IsCut == GraphOK /\ GoodIds(ids) /\ CutSoFar(ids, Len(graph), Full(Len(graph)), Cutting)
Laid  == IsCut /\ \E B : Starts(ids, splits, order, B)

HomesAll ==
  \A j \in 1..Len(splits) : \A m \in Nodes :
    ~IsView(m) /\ Within(splits, j, m) => ids[m] = splits[j].backend
FedAll ==
  \A j \in 1..Len(splits) : \A i \in 1..Len(splits[j].inputs) :
    LET s == splits[j].inputs[i] IN
    /\ s \in Tensors /\ Foreign(ids, s, splits[j].backend)
    /\ \E m \in Nodes : ~IsView(m) /\ Within(splits, j, m) /\ s \in Range(Src(m))
LinkedAll ==
  \A m \in Nodes :
    /\ DOMAIN places[m] = DOMAIN Src(m)
    /\ \A q \in DOMAIN Src(m) :
         LET s == Src(m)[q] IN
         IF ~IsView(m) /\ Foreign(ids, s, ids[m])
         THEN places[m][q] = <<s, ids[m]>> /\ CopiedBy(splits, <<s, ids[m]>>, m)
         ELSE places[m][q] = Original(s)

LEMMA CutFacts ==
  ASSUME IsCut
  PROVE  /\ GraphOK /\ GoodIds(ids) /\ ids \in [Tensors -> Backends]
         /\ SplitsOK(splits) /\ Once(splits) /\ HomesAll /\ FedAll /\ LinkedAll
<1> DEFINE N == Len(graph)
<1>1. /\ GraphOK /\ GoodIds(ids) /\ ids \in [Tensors -> Backends]
      /\ N \in Nat \ {0} /\ Nodes = 1..N
  BY GraphFacts DEF IsCut, GoodIds
<1>2. /\ Cutting \in Cuts /\ Ranked(splits) /\ Homes(ids, N, splits) /\ Fed(ids, N, Cutting)
      /\ Once(splits) /\ Filled(ids, N, Full(N), Cutting)
  BY DEF IsCut, CutSoFar, Cutting
<1>3. SplitsOK(splits)
  <2>1. splits \in Seq(Parts) \ {<<>>}
    BY <1>2 DEF Cuts, Cutting
  <2> QED BY <1>2, <2>1 DEF SplitsOK
<1>4. DOMAIN splits = 1..Len(splits) /\ \A j \in 1..Len(splits) : DOMAIN splits[j].inputs = 1..Len(splits[j].inputs)
  BY <1>1, <1>3, SplitFacts
<1>5. HomesAll
  BY <1>1, <1>2, <1>4 DEF HomesAll, Homes
<1>6. FedAll
  <2> SUFFICES ASSUME NEW j \in 1..Len(splits), NEW i \in 1..Len(splits[j].inputs)
               PROVE  LET s == splits[j].inputs[i] IN
                      /\ s \in Tensors /\ Foreign(ids, s, splits[j].backend)
                      /\ \E m \in Nodes : ~IsView(m) /\ Within(splits, j, m) /\ s \in Range(Src(m))
    BY DEF FedAll
  <2>1. splits[j].inputs[i] \in Tensors
    BY <1>1, <1>3, SplitFacts
  <2> QED BY <1>1, <1>2, <1>4, <2>1 DEF Fed, Cutting
<1>7. LinkedAll
  <2> SUFFICES ASSUME NEW m \in Nodes
               PROVE  /\ DOMAIN places[m] = DOMAIN Src(m)
                      /\ \A q \in DOMAIN Src(m) :
                           LET s == Src(m)[q] IN
                           IF ~IsView(m) /\ Foreign(ids, s, ids[m])
                           THEN places[m][q] = <<s, ids[m]>> /\ CopiedBy(splits, <<s, ids[m]>>, m)
                           ELSE places[m][q] = Original(s)
    BY DEF LinkedAll
  <2>1. CASE IsView(m)
    <3>1. places[m] = [j \in DOMAIN Src(m) |-> Original(Src(m)[j])]
      BY <1>2, <2>1 DEF Filled, ViewLinked, Cutting
    <3> QED BY <2>1, <3>1
  <2>2. CASE ~IsView(m)
    <3>1. Linked(ids, m, Len(Src(m)), Cutting)
      <4>1. m < N \/ m = N
        BY <1>1
      <4>2. m = N => Full(N) = Len(Src(m))
        BY <1>1 DEF Full
      <4> QED BY <1>2, <2>2, <4>1, <4>2 DEF Filled
    <3>2. DOMAIN Src(m) = 1..Len(Src(m))
      BY <1>1, SourceFacts
    <3>3. places[m] \in Seq(Tensors \X (Backends \union {-1}))
      BY <1>2 DEF Cuts, Cutting
    <3>4. Len(places[m]) = Len(Src(m))
      BY <3>1 DEF Linked, Cutting
    <3>5. DOMAIN places[m] = 1..Len(places[m])
      BY <3>3
    <3>6. DOMAIN places[m] = DOMAIN Src(m)
      BY <3>2, <3>4, <3>5
    <3> QED BY <2>2, <3>1, <3>2, <3>6 DEF Linked, Cutting
  <2> QED BY <2>1, <2>2
<1> QED BY <1>1, <1>2, <1>3, <1>5, <1>6, <1>7

(* Where a backend finds what it can use.                                   *)
LEMMA WithinReach ==
  ASSUME GraphOK, GoodIds(ids), NEW s \in Tensors, NEW b \in Backends, ~Foreign(ids, s, b)
  PROVE  IF Stored(s) THEN Buffer[Root(s)] \in Uses(b)
         ELSE Buft(ids[s]) \in Uses(b) /\ ids[s] = ids[Root(s)]
<1>1. ids[s] \in Backends /\ platform \in Platforms
  BY DEF GoodIds, GraphOK
<1>2. ids[s] # -1 /\ Buft(b) \in Uses(b)
  BY <1>1, MachineFacts
<1>3. ids[s] = b \/ BufferSupported(ids, s, b)
  BY DEF Foreign
<1>4. CASE Stored(s)
  BY <1>3, <1>4 DEF BufferSupported, GoodIds
<1>5. CASE ~Stored(s)
  BY <1>2, <1>3, <1>5 DEF BufferSupported, GoodIds
<1> QED BY <1>4, <1>5

(* A copied tensor is not in memory that the backend of the copy can use.   *)
LEMMA OutOfReach ==
  ASSUME GraphOK, GoodIds(ids), NEW s \in Tensors, NEW b \in Backends, Foreign(ids, s, b)
  PROVE  IF Stored(s) THEN Buffer[Root(s)] \notin Uses(b)
         ELSE Buft(ids[s]) \notin Uses(b) /\ ids[s] = ids[Root(s)] /\ ids[s] # b
<1>1. ids[s] \in Backends /\ platform \in Platforms
  BY DEF GoodIds, GraphOK
<1>2. ids[s] # -1
  BY <1>1, MachineFacts
<1>3. ids[s] # b /\ ~BufferSupported(ids, s, b)
  BY DEF Foreign
<1>4. CASE Stored(s)
  BY <1>3, <1>4 DEF BufferSupported
<1>5. CASE ~Stored(s)
  BY <1>2, <1>3, <1>5 DEF BufferSupported, GoodIds
<1> QED BY <1>4, <1>5

(* The entries of the order that own a place.                               *)
LEMMA OwnedEntry ==
  ASSUME Laid, NEW B, Starts(ids, splits, order, B), NEW p \in DOMAIN order, Owns(order, p)
  PROVE  \/ \E n \in Nodes : \E k \in 1..Len(splits) :
              /\ Root(n) = n /\ Within(splits, k, n) /\ p = NodePos(splits, B, k, n)
              /\ PlaceAt(order, p) = Original(n) /\ order[p].kind = "node"
         \/ \E k \in 1..Len(splits) : \E i \in 1..Len(splits[k].inputs) :
              /\ p = CopyPos(B, k, i) /\ order[p].kind = "copy"
              /\ PlaceAt(order, p) = <<splits[k].inputs[i], splits[k].backend>>
<1>1. GraphOK /\ SplitsOK(splits)
  BY CutFacts DEF Laid
<1>2. PICK k \in 1..Len(splits) : InBlock(B, k, p)
  BY <1>1, BlocksRanked
<1>3. p \in Int
  BY <1>1, BlocksRanked
<1>4. CASE \E i \in 1..Len(splits[k].inputs) : p = CopyPos(B, k, i) \/ p = CopyPos(B, k, i) - 1
  <2>1. PICK i \in 1..Len(splits[k].inputs) : p = CopyPos(B, k, i) \/ p = CopyPos(B, k, i) - 1
    BY <1>4
  <2> DEFINE s == splits[k].inputs[i]
  <2>2. /\ order[CopyPos(B, k, i)] = Entry("copy", s, splits[k].backend)
        /\ order[CopyPos(B, k, i) - 1] = Entry("dep", s, ids[s])
    BY <1>1, Positions DEF Positioned
  <2>3. p = CopyPos(B, k, i)
    BY <2>1, <2>2 DEF Owns, Entry
  <2> QED BY <2>2, <2>3 DEF PlaceAt, Entry
<1>5. CASE \E n \in Nodes : Within(splits, k, n) /\ p = NodePos(splits, B, k, n)
  <2>1. PICK n \in Nodes : Within(splits, k, n) /\ p = NodePos(splits, B, k, n)
    BY <1>5
  <2>2. order[p] = Entry("node", n, ids[n])
    <3>1. Positioned(ids, splits, order, B, k)
      BY <1>1, Positions
    <3> QED BY <2>1, <3>1 DEF Positioned
  <2>3. Root(n) = n /\ PlaceAt(order, p) = Original(n) /\ order[p].kind = "node"
    BY <2>2 DEF Owns, PlaceAt, Entry
  <2> QED BY <2>1, <2>3
<1>6. Positioned(ids, splits, order, B, k)
  BY <1>1, Positions
<1> QED BY <1>2, <1>3, <1>4, <1>5, <1>6 DEF Positioned

LEMMA PositionNode ==
  ASSUME Laid, NEW B, Starts(ids, splits, order, B), NEW n \in Nodes, Root(n) = n,
         NEW k \in 1..Len(splits), Within(splits, k, n)
  PROVE  /\ PositionOf(Original(n)) = NodePos(splits, B, k, n)
         /\ NodePos(splits, B, k, n) \in DOMAIN order
         /\ Owns(order, NodePos(splits, B, k, n))
         /\ PlaceAt(order, NodePos(splits, B, k, n)) = Original(n)
         /\ order[NodePos(splits, B, k, n)] = Entry("node", n, ids[n])
<1> DEFINE p == NodePos(splits, B, k, n)
           Is(r) == r \in DOMAIN order /\ Owns(order, r) /\ PlaceAt(order, r) = Original(n)
<1>1. GraphOK /\ SplitsOK(splits) /\ platform \in Platforms
  BY CutFacts DEF Laid, GraphOK
<1>2. p \in Int /\ InBlock(B, k, p) /\ order[p] = Entry("node", n, ids[n])
  <2>1. Positioned(ids, splits, order, B, k)
    BY <1>1, Positions
  <2> QED BY <2>1 DEF Positioned
<1>3. Is(p)
  <2>1. p \in DOMAIN order
    BY <1>1, <1>2, BlocksRanked
  <2> HIDE DEF p
  <2> QED BY <1>2, <2>1 DEF Owns, PlaceAt, Entry
<1>4. ASSUME NEW r, Is(r)
      PROVE  r = p
  <2>1. CASE \E m \in Nodes : \E l \in 1..Len(splits) :
              /\ Root(m) = m /\ Within(splits, l, m) /\ r = NodePos(splits, B, l, m)
              /\ PlaceAt(order, r) = Original(m)
    <3>1. PICK m \in Nodes, l \in 1..Len(splits) :
              /\ Within(splits, l, m) /\ r = NodePos(splits, B, l, m)
              /\ PlaceAt(order, r) = Original(m)
      BY <2>1
    <3>2. m = n
      BY <1>4, <3>1 DEF Original
    <3>3. l = k
      BY <1>1, <3>1, <3>2, SplitOfNode
    <3> QED BY <3>1, <3>2, <3>3
  <2>2. CASE \E l \in 1..Len(splits) : \E i \in 1..Len(splits[l].inputs) :
               PlaceAt(order, r) = <<splits[l].inputs[i], splits[l].backend>>
    <3>0. PICK l \in 1..Len(splits) : \E i \in 1..Len(splits[l].inputs) :
               PlaceAt(order, r) = <<splits[l].inputs[i], splits[l].backend>>
      BY <2>2
    <3>1. PICK i \in 1..Len(splits[l].inputs) :
               PlaceAt(order, r) = <<splits[l].inputs[i], splits[l].backend>>
      BY <3>0
    <3>2. splits[l].backend \in Backends
      BY <1>1, SplitFacts
    <3>3. splits[l].backend = -1
      BY <1>4, <3>1 DEF Original
    <3> QED BY <1>1, <3>2, <3>3, MachineFacts
  <2>3. r \in DOMAIN order /\ Owns(order, r)
    BY <1>4
  <2> QED BY <2>1, <2>2, <2>3, OwnedEntry
<1>5. n \notin Inputs
  BY <1>1, GraphFacts, SchedConstants
<1>6. PositionOf(Original(n)) = CHOOSE r : Is(r)
  <2>1. PositionOf(Original(n)) = CHOOSE r \in DOMAIN order : Owns(order, r) /\ PlaceAt(order, r) = Original(n)
    BY <1>5 DEF PositionOf, Original
  <2> QED BY <2>1
<1> HIDE DEF Is
<1>7. Is(CHOOSE r : Is(r))
  BY <1>3, Zenon
<1>8. PositionOf(Original(n)) = p
  BY <1>4, <1>6, <1>7
<1> QED BY <1>2, <1>3, <1>8 DEF Is

LEMMA PositionCopy ==
  ASSUME Laid, NEW B, Starts(ids, splits, order, B),
         NEW k \in 1..Len(splits), NEW i \in 1..Len(splits[k].inputs)
  PROVE  LET q == <<splits[k].inputs[i], splits[k].backend>> IN
         /\ PositionOf(q) = CopyPos(B, k, i)
         /\ CopyPos(B, k, i) \in DOMAIN order
         /\ Owns(order, CopyPos(B, k, i)) /\ PlaceAt(order, CopyPos(B, k, i)) = q
         /\ order[CopyPos(B, k, i)] = Entry("copy", q[1], q[2])
<1> DEFINE p == CopyPos(B, k, i)
           s == splits[k].inputs[i]
           b == splits[k].backend
           q == <<s, b>>
           Is(r) == r \in DOMAIN order /\ Owns(order, r) /\ PlaceAt(order, r) = q
<1>1. GraphOK /\ SplitsOK(splits) /\ Once(splits) /\ platform \in Platforms
  BY CutFacts DEF Laid, GraphOK
<1>2. p \in Int /\ InBlock(B, k, p) /\ order[p] = Entry("copy", s, b)
  <2>1. Positioned(ids, splits, order, B, k)
    BY <1>1, Positions
  <2> QED BY <2>1 DEF Positioned
<1>3. b \in Backends /\ b # -1
  BY <1>1, SplitFacts, MachineFacts
<1>4. DOMAIN splits = 1..Len(splits) /\ \A j \in 1..Len(splits) : DOMAIN splits[j].inputs = 1..Len(splits[j].inputs)
  BY <1>1, SplitFacts
<1>5. Is(p)
  <2>1. p \in DOMAIN order
    BY <1>1, <1>2, BlocksRanked
  <2> HIDE DEF p
  <2> QED BY <1>2, <2>1 DEF Owns, PlaceAt, Entry
<1> HIDE DEF s, b
<1>6. ASSUME NEW r, Is(r)
      PROVE  r = p
  <2>1. CASE \E m \in Nodes : PlaceAt(order, r) = Original(m)
    BY <1>3, <1>6, <2>1 DEF Original
  <2>2. CASE \E l \in 1..Len(splits) : \E h \in 1..Len(splits[l].inputs) :
               /\ r = CopyPos(B, l, h)
               /\ PlaceAt(order, r) = <<splits[l].inputs[h], splits[l].backend>>
    <3>0. PICK l \in 1..Len(splits) : \E h \in 1..Len(splits[l].inputs) :
               /\ r = CopyPos(B, l, h)
               /\ PlaceAt(order, r) = <<splits[l].inputs[h], splits[l].backend>>
      BY <2>2
    <3>1. PICK h \in 1..Len(splits[l].inputs) :
               /\ r = CopyPos(B, l, h)
               /\ PlaceAt(order, r) = <<splits[l].inputs[h], splits[l].backend>>
      BY <3>0
    <3>2. splits[l].inputs[h] = s /\ splits[l].backend = b
      BY <1>6, <3>1
    <3>3. l = k /\ h = i
      BY <1>1, <1>4, <3>2 DEF Once, s, b
    <3> QED BY <3>1, <3>3
  <2>3. r \in DOMAIN order /\ Owns(order, r)
    BY <1>6
  <2> QED BY <2>1, <2>2, <2>3, OwnedEntry
<1>7. PositionOf(q) = CHOOSE r : Is(r)
  <2>1. PositionOf(q) = CHOOSE r \in DOMAIN order : Owns(order, r) /\ PlaceAt(order, r) = q
    BY <1>3 DEF PositionOf
  <2> QED BY <2>1
<1> HIDE DEF Is
<1>8. Is(CHOOSE r : Is(r))
  BY <1>5, Zenon
<1>9. PositionOf(q) = p
  BY <1>6, <1>7, <1>8
<1> QED BY <1>2, <1>5, <1>9 DEF Is, s, b

LEMMA PositionInput ==
  ASSUME NEW t \in Inputs
  PROVE  PositionOf(Original(t)) = 0
BY DEF PositionOf, Original

(* The cut and the order stay while what they were made from does.          *)
CutVars == <<platform, graph, ids, copies, splits, places>>

LEMMA CutStays ==
  ASSUME UNCHANGED CutVars
  PROVE  /\ IsCut' = IsCut /\ GraphOK' = GraphOK
         /\ Backends' = Backends /\ Nodes' = Nodes /\ Cpu' = Cpu
         /\ \A b : Uses(b)' = Uses(b) /\ Buft(b)' = Buft(b)
         /\ \A j, n : Within(splits, j, n)' = Within(splits, j, n)
BY DEF CutVars, IsCut, GraphOK, Backends, Nodes, Cpu, Uses, Buft, Within, SplitEnd, GoodIds, Tensors,
   Stored, Root, IsLeaf, IsView, Runs, CutSoFar, Cuts, Parts, Homes, Fed, Foreign, BufferSupported,
   Filled, ViewLinked, Linked, Src, FirstSplit, Full, Cutting

LEMMA LaidStays ==
  ASSUME UNCHANGED CutVars, UNCHANGED order
  PROVE  Laid' = Laid
<1>1. IsCut' = IsCut
  BY CutStays
<1>2. \A B : Starts(ids, splits, order, B)' = Starts(ids, splits, order, B)
  BY DEF CutVars, Starts, Entries, Tensors, Nodes, Backends, Cpu, InputsAt, NodesAt, SplitEnd
<1> QED BY <1>1, <1>2 DEF Laid

(* What the allocator keeps of the last graph it made places for.           *)
Reserving ==
  /\ Len(reserved.nodes) \in Nat /\ DOMAIN reserved.nodes = 1..Len(reserved.nodes)
  /\ Len(order) = Len(reserved.nodes) /\ DOMAIN order = DOMAIN reserved.nodes
  /\ \A p \in DOMAIN order :
       reserved.nodes[p].buft = Buft(order[p].backend) /\ reserved.nodes[p].last \in Nat
  /\ order # <<>> => \A t \in Inputs :
       reserved.leafs[t].buft = Buft(Cpu) /\ reserved.leafs[t].last \in Nat

LEMMA OrderHasNodes ==
  ASSUME Laid
  PROVE  order # <<>> /\ DOMAIN order = 1..Len(order) /\ Len(order) \in Nat
<1>1. GraphOK /\ SplitsOK(splits)
  BY CutFacts DEF Laid
<1>2. PICK B : Starts(ids, splits, order, B)
  BY DEF Laid
<1>3. PICK n \in Nodes : TRUE
  BY <1>1, GraphFacts
<1>4. PICK k \in 1..Len(splits) : Within(splits, k, n)
  BY <1>1, SplitOfNode
<1>5. Positioned(ids, splits, order, B, k)
  BY <1>1, <1>2, Positions
<1>6. NodePos(splits, B, k, n) \in Int /\ InBlock(B, k, NodePos(splits, B, k, n))
  BY <1>4, <1>5 DEF Positioned
<1>7. NodePos(splits, B, k, n) \in DOMAIN order /\ DOMAIN order = 1..Len(order) /\ Len(order) \in Nat
  BY <1>1, <1>2, <1>6, BlocksRanked
<1> QED BY <1>7

LEMMA PlaceTypes ==
  ASSUME Laid, Reserving
  PROVE  /\ \A t \in Inputs : PlaceOf(Original(t)).buft = Buft(Cpu)
         /\ \A n \in Nodes : Root(n) = n => PlaceOf(Original(n)).buft = Buft(ids[n])
         /\ \A k \in 1..Len(splits) : \A i \in 1..Len(splits[k].inputs) :
              PlaceOf(<<splits[k].inputs[i], splits[k].backend>>).buft = Buft(splits[k].backend)
<1>1. GraphOK /\ SplitsOK(splits)
  BY CutFacts DEF Laid
<1>2. PICK B : Starts(ids, splits, order, B)
  BY DEF Laid
<1>3. order # <<>> /\ DOMAIN order = 1..Len(order) /\ Len(order) \in Nat
  BY OrderHasNodes
<1>4. \A p \in DOMAIN order : p # 0 /\ reserved.nodes[p].buft = Buft(order[p].backend)
  BY <1>3 DEF Reserving
<1>5. ASSUME NEW t \in Inputs
      PROVE  PlaceOf(Original(t)).buft = Buft(Cpu)
  BY <1>3, PositionInput DEF PlaceOf, Reserving, Original
<1>6. ASSUME NEW n \in Nodes, Root(n) = n
      PROVE  PlaceOf(Original(n)).buft = Buft(ids[n])
  <2>1. PICK k \in 1..Len(splits) : Within(splits, k, n)
    BY <1>1, SplitOfNode
  <2> DEFINE p == NodePos(splits, B, k, n)
  <2>2. PositionOf(Original(n)) = p /\ p \in DOMAIN order /\ order[p] = Entry("node", n, ids[n])
    BY <1>2, <1>6, <2>1, PositionNode
  <2> HIDE DEF p
  <2> QED BY <1>4, <2>2 DEF PlaceOf, Entry
<1>7. ASSUME NEW k \in 1..Len(splits), NEW i \in 1..Len(splits[k].inputs)
      PROVE  PlaceOf(<<splits[k].inputs[i], splits[k].backend>>).buft = Buft(splits[k].backend)
  <2> DEFINE p == CopyPos(B, k, i)
             q == <<splits[k].inputs[i], splits[k].backend>>
  <2>1. PositionOf(q) = p /\ p \in DOMAIN order /\ order[p] = Entry("copy", q[1], q[2])
    BY <1>2, PositionCopy
  <2>2. q[2] = splits[k].backend
    OBVIOUS
  <2> HIDE DEF p, q
  <2>3. PlaceOf(q).buft = Buft(splits[k].backend)
    BY <1>4, <2>1, <2>2 DEF PlaceOf, Entry
  <2> QED BY <2>3 DEF q
<1> QED BY <1>5, <1>6, <1>7

(* What a backend is given to read, it can use.                             *)
LEMMA Reach ==
  ASSUME Laid, Reserving, NEW s \in Tensors, NEW b \in Backends, ~Foreign(ids, s, b)
  PROVE  BuftOf(Original(s)) \in Uses(b)
<1>1. GraphOK /\ GoodIds(ids)
  BY CutFacts DEF Laid
<1>2. BuftOf(Original(s)) = IF InBuffer(Original(Root(s))) THEN Buffer[Root(s)] ELSE PlaceOf(Original(Root(s))).buft
  BY DEF BuftOf, Original
<1>3. InBuffer(Original(Root(s))) <=> Stored(s)
  BY DEF InBuffer, Original, Stored
<1>4. IF Stored(s) THEN Buffer[Root(s)] \in Uses(b)
      ELSE Buft(ids[s]) \in Uses(b) /\ ids[s] = ids[Root(s)]
  BY <1>1, WithinReach
<1>5. ASSUME ~Stored(s)
      PROVE  PlaceOf(Original(Root(s))).buft = Buft(ids[Root(s)])
  <2>1. Root(s) \in Inputs \/ (Root(s) \in Nodes /\ Root(Root(s)) = Root(s))
    BY <1>1, <1>5, RootFacts
  <2>2. \A t \in Inputs : ids[t] = Cpu
    BY <1>1 DEF GoodIds
  <2> QED BY <2>1, <2>2, PlaceTypes
<1> QED BY <1>2, <1>3, <1>4, <1>5

LEMMA ReadsReach ==
  ASSUME Laid, Reserving, NEW n \in Nodes, ~IsView(n)
  PROVE  /\ ids[n] \in Runs(n) /\ ids[n] \in Backends
         /\ \A q \in Range(places[n]) \union {Original(n)} : BuftOf(q) \in Uses(ids[n])
<1>1. GraphOK /\ GoodIds(ids) /\ SplitsOK(splits) /\ LinkedAll /\ platform \in Platforms
  BY CutFacts DEF Laid, GraphOK
<1>2. n \in Tensors /\ ids[n] \in Backends /\ ids[n] \in Runs(n)
  BY <1>1, GraphFacts DEF GoodIds
<1>3. BuftOf(Original(n)) \in Uses(ids[n])
  BY <1>2, Reach DEF Foreign
<1>4. ASSUME NEW j \in DOMAIN places[n]
      PROVE  BuftOf(places[n][j]) \in Uses(ids[n])
  <2>1. j \in DOMAIN Src(n) /\ Src(n)[j] \in Tensors
    BY <1>1, <1>4, SourceFacts DEF LinkedAll
  <2> DEFINE s == Src(n)[j]
             b == ids[n]
  <2>2. IF Foreign(ids, s, b)
        THEN places[n][j] = <<s, b>> /\ CopiedBy(splits, <<s, b>>, n)
        ELSE places[n][j] = Original(s)
    BY <1>1, <2>1 DEF LinkedAll
  <2> HIDE DEF s
  <2>3. CASE ~Foreign(ids, s, b)
    BY <1>2, <2>1, <2>2, <2>3, Reach DEF s
  <2>4. CASE Foreign(ids, s, b)
    <3> DEFINE q == <<s, b>>
    <3>1. DOMAIN splits = 1..Len(splits) /\ \A k \in 1..Len(splits) : DOMAIN splits[k].inputs = 1..Len(splits[k].inputs)
      BY <1>1, SplitFacts
    <3>2. PICK k \in 1..Len(splits) : splits[k].backend = b /\ \E i \in 1..Len(splits[k].inputs) : splits[k].inputs[i] = s
      BY <2>2, <2>4, <3>1 DEF CopiedBy
    <3>3. PlaceOf(q).buft = Buft(b)
      BY <3>2, PlaceTypes
    <3>4. b # -1 /\ Buft(b) \in Uses(b)
      BY <1>1, <1>2, MachineFacts
    <3>5. BuftOf(q) = PlaceOf(q).buft
      BY <3>4 DEF BuftOf, InBuffer
    <3> QED BY <2>2, <2>4, <3>3, <3>4, <3>5
  <2> QED BY <2>3, <2>4
<1>5. \A q \in Range(places[n]) : \E j \in DOMAIN places[n] : q = places[n][j]
  BY DEF Range
<1> QED BY <1>2, <1>3, <1>4, <1>5

-----------------------------------------------------------------------------
(* What the phases of a graph have established.                             *)
Machined ==
  platform \in Platforms /\ \E p \in Programs(platform) : program \in Seq(Range(p))

Steady ==
  /\ Machined
  /\ pc \in {"idle", "split", "alloc", "inputs", "compute", "failed", "aborted"}
  /\ status \in {"success", "failed"}
  /\ graph # <<>> \/ pc # "idle" => GraphOK
  /\ pc \in {"idle", "split"} => ids = <<>> /\ copies = {}
  /\ pc \in {"alloc", "inputs", "compute"} => IsCut
  /\ pc \in {"inputs", "compute"} => Laid
  /\ Reserving

LEMMA HeadTail ==
  ASSUME NEW S, NEW s \in Seq(S), s # <<>>
  PROVE  Head(s) \in S /\ Tail(s) \in Seq(S)
OBVIOUS

LEMMA LastUseNat ==
  ASSUME NEW ord, Len(ord) \in Nat, DOMAIN ord = 1..Len(ord), NEW pl, NEW place
  PROVE  LastUse(ord, pl, place) \in Nat
<1> DEFINE kin == {place} \union
             IF place[2] = -1
             THEN {Original(v) : v \in {u \in Nodes : Root(u) = place[1] /\ u # place[1]}}
             ELSE {}
           U == UNION {Users(ord, pl, k) : k \in kin}
<1>1. LastUse(ord, pl, place) = IF \E k \in kin : Users(ord, pl, k) = {} THEN Len(ord) + 1 ELSE Max(U)
  BY DEF LastUse
<1>2. U \in SUBSET (0..Len(ord)) /\ place \in kin
  BY DEF Users
<1>3. ~(\E k \in kin : Users(ord, pl, k) = {}) => U # {}
  BY <1>2
<1> HIDE DEF kin, U
<1>4. CASE \E k \in kin : Users(ord, pl, k) = {}
  BY <1>1, <1>4
<1>5. CASE ~\E k \in kin : Users(ord, pl, k) = {}
  <2> DEFINE z == Max(U)
  <2>1. z \in U /\ LastUse(ord, pl, place) = z
    BY <1>1, <1>2, <1>3, <1>5, LargestNat
  <2> HIDE DEF z
  <2> QED BY <1>2, <2>1
<1> QED BY <1>4, <1>5

LEMMA ReserveMade ==
  ASSUME IsCut, Reserving,
         order' = OrderOf(ids, splits), UNCHANGED <<platform, graph, ids, copies, splits, places>>,
         \/ ~BackendsChanged(order') /\ ~NeedsRealloc(order') /\ UNCHANGED reserved
         \/ reserved' = Reserve(ids, order', places)
  PROVE  Laid' /\ Reserving'
<1>1. PICK B : Starts(ids, splits, OrderOf(ids, splits), B)
  BY CutFacts, OrderStarts
<1>2. IsCut' /\ Starts(ids, splits, order, B)'
  <2>1. IsCut'
    BY CutStays DEF CutVars
  <2>2. Starts(ids, splits, order, B)' = Starts(ids, splits, order', B)
    BY DEF Starts, Entries, Tensors, Nodes, Backends, Cpu, InputsAt, NodesAt, SplitEnd
  <2> QED BY <1>1, <2>1, <2>2
<1>3. Laid'
  BY <1>2 DEF Laid
<1>4. order' # <<>> /\ DOMAIN order' = 1..Len(order') /\ Len(order') \in Nat
  <2> DEFINE ord == OrderOf(ids, splits)
             E == Entries
  <2>1. ord \in Seq(E) /\ ord # <<>>
    <3>1. ord \in Seq(E)
      BY <1>1 DEF Starts
    <3>2. PICK n \in Nodes : TRUE
      BY CutFacts, GraphFacts
    <3>3. GraphOK /\ SplitsOK(splits)
      BY CutFacts
    <3>4. PICK k \in 1..Len(splits) : Within(splits, k, n)
      BY <3>3, SplitOfNode
    <3>5. Positioned(ids, splits, ord, B, k)
      BY <1>1, <3>3, Positions
    <3>6. NodePos(splits, B, k, n) \in Int /\ InBlock(B, k, NodePos(splits, B, k, n))
      BY <3>4, <3>5 DEF Positioned
    <3> HIDE DEF ord
    <3>7. NodePos(splits, B, k, n) \in DOMAIN ord
      BY <1>1, <3>3, <3>6, BlocksRanked DEF ord
    <3> QED BY <3>1, <3>7
  <2> HIDE DEF ord, E
  <2>2. ord # <<>> /\ DOMAIN ord = 1..Len(ord) /\ Len(ord) \in Nat
    BY <2>1
  <2> QED BY <2>2 DEF ord
<1>5. Buft(Cpu)' = Buft(Cpu) /\ \A b : Buft(b)' = Buft(b)
  BY DEF Buft, Cpu
<1>6. CASE ~BackendsChanged(order') /\ ~NeedsRealloc(order') /\ UNCHANGED reserved
  <2>1. Len(reserved.nodes) = Len(order')
    BY <1>6 DEF NeedsRealloc
  <2>2. DOMAIN order' = DOMAIN order /\ order # <<>>
    BY <1>4, <2>1 DEF Reserving
  <2>3. \A p \in DOMAIN order' : Buft(order'[p].backend) = Buft(order[p].backend)
    BY <1>6, <2>2 DEF BackendsChanged
  <2>4. Reserving'
    BY <1>4, <1>5, <1>6, <2>1, <2>2, <2>3 DEF Reserving
  <2> QED BY <1>3, <2>4
<1>7. CASE reserved' = Reserve(ids, order', places)
  <2>1. /\ DOMAIN reserved'.nodes = 1..Len(order')
        /\ \A p \in DOMAIN order' : /\ reserved'.nodes[p].buft = Buft(order'[p].backend)
                                     /\ reserved'.nodes[p].last \in Nat
        /\ \A t \in Inputs : /\ reserved'.leafs[t].buft = Buft(ids[t])
                               /\ reserved'.leafs[t].last \in Nat
    BY <1>4, <1>7, LastUseNat DEF Reserve, Place
  <2>2. Len(reserved'.nodes) = Len(order')
    <3>1. reserved'.nodes = [p \in 1..Len(order') |-> reserved'.nodes[p]]
      BY <1>4, <1>7 DEF Reserve
    <3> QED BY <1>4, <3>1
  <2>3. \A t \in Inputs : ids[t] = Cpu
    BY CutFacts DEF GoodIds
  <2>4. Reserving'
    BY <1>4, <1>5, <2>1, <2>2, <2>3 DEF Reserving
  <2> QED BY <1>3, <2>4
<1> QED BY <1>6, <1>7

LEMMA SteadyInit == Init => Steady
<1> SUFFICES ASSUME Init PROVE Steady
  OBVIOUS
<1>1. program \in Seq(Range(program))
  BY SchedPrograms DEF Init
<1>2. Reserving
  <2>1. reserved.nodes = <<>> /\ order = <<>>
    BY DEF Init
  <2> QED BY <2>1 DEF Reserving
<1> QED BY <1>1, <1>2 DEF Init, Steady, Machined

LEMMA SteadyNext == Steady /\ [Next]_vars => Steady'
<1> SUFFICES ASSUME Steady, [Next]_vars PROVE Steady'
  OBVIOUS
<1> USE DEF Steady
<1>0. ASSUME UNCHANGED <<platform, graph, ids, copies, splits, places, order, reserved>>
      PROVE  GraphOK' = GraphOK /\ IsCut' = IsCut /\ Laid' = Laid /\ Reserving' = Reserving
  BY <1>0, CutStays, LaidStays DEF CutVars, Reserving, Buft, Cpu
<1>1. CASE BuildGraph
  <2>1. PICK p \in Programs(platform) : program \in Seq(Range(p))
    BY DEF Machined
  <2>2. Head(program) \in Range(p) /\ Tail(program) \in Seq(Range(p))
    BY <1>1, <2>1, HeadTail DEF BuildGraph
  <2>3. Machined'
    BY <1>1, <2>2 DEF BuildGraph, Machined
  <2>4. GraphOK'
    <3>1. WellFormed(platform, Head(program)) /\ platform \in Platforms
      BY <2>1, <2>2, SchedPrograms DEF Machined
    <3>2. platform' = platform /\ graph' = Head(program)
      BY <1>1 DEF BuildGraph
    <3>3. WellFormed(platform', graph') /\ platform' \in Platforms
      BY <3>1, <3>2
    <3> QED BY <3>3 DEF GraphOK
  <2>5. Reserving'
    BY <1>1 DEF BuildGraph, Reserving, Buft, Cpu, cut
  <2> QED BY <1>1, <2>3, <2>4, <2>5 DEF BuildGraph, hash
<1>2. CASE SplitGraph
  <2>1. GraphOK /\ ids = <<>> /\ copies = {}
    BY <1>2 DEF SplitGraph
  <2>2. GraphOK' /\ Machined' /\ Reserving'
    BY <1>2, <2>1 DEF SplitGraph, GraphOK, Machined, Reserving, Buft, Cpu, machine
  <2>3. pc' \in {"alloc", "aborted"} /\ status' = status
    BY <1>2 DEF SplitGraph
  <2>4. ASSUME pc' = "alloc"
        PROVE  IsCut'
    <3>1. NoneStuck
      BY <1>2, <2>4 DEF SplitGraph, NoneStuck
    <3>2. ids' = Assigned
      BY <1>2 DEF SplitGraph
    <3>3. GoodIds(ids')
      BY <2>1, <3>1, <3>2, AssignedGood
    <3> DEFINE f == ids'
               st == Pass5(f, {})
    <3>4. st.splits = splits' /\ st.copies = copies' /\ st.places = places'
      BY <1>2, <2>1 DEF SplitGraph
    <3>5. CutSoFar(f, Len(graph), Full(Len(graph)), st)
      BY <2>1, <3>3, CutMade
    <3>6. st \in Cuts
      BY <3>5 DEF CutSoFar
    <3> HIDE DEF st, f
    <3>7. st = [splits |-> splits', copies |-> copies', places |-> places']
      BY <3>4, <3>6 DEF Cuts
    <3>8. CutSoFar(ids, Len(graph), Full(Len(graph)), Cutting)' = CutSoFar(f, Len(graph), Full(Len(graph)), st)
      BY <1>2, <3>7 DEF SplitGraph, machine, f, Backends, Nodes, Cpu, Uses, Buft, Within, SplitEnd, Tensors,
   Stored, Root, IsLeaf, IsView, CutSoFar, Cuts, Parts, Homes, Fed, Foreign, BufferSupported,
   Filled, ViewLinked, Linked, Src, FirstSplit, Full, Cutting
    <3>9. GoodIds(ids)' = GoodIds(f)
      BY <1>2 DEF SplitGraph, machine, f, GoodIds, Tensors, Backends, Cpu, Stored, Root, IsLeaf, IsView, Runs, Nodes, Uses
    <3> QED BY <2>2, <3>3, <3>5, <3>8, <3>9 DEF IsCut, f
  <2> QED BY <2>2, <2>3, <2>4
<1>3. CASE AllocSplits
  <2>1. Laid' /\ Reserving'
    BY <1>3, ReserveMade DEF AllocSplits, machine, hash
  <2>2. GraphOK' /\ IsCut' /\ Machined'
    BY <1>3, <2>1 DEF AllocSplits, machine, Laid, Machined, IsCut
  <2> QED BY <1>3, <2>1, <2>2 DEF AllocSplits
<1>4. CASE SetInputs
  BY <1>0, <1>4 DEF SetInputs, machine, hash, cut, Machined
<1>5. CASE CopyInput
  BY <1>0, <1>5 DEF CopyInput, machine, hash, cut, Machined, Computing
<1>6. CASE ComputeSplit
  BY <1>0, <1>6 DEF ComputeSplit, machine, hash, cut, Machined, Computing
<1>7. CASE SplitFails
  BY <1>0, <1>7 DEF SplitFails, machine, hash, cut, Machined
<1>8. CASE Finish
  <2>1. UNCHANGED <<platform, graph, program>> /\ pc' = "idle" /\ pc = "compute" /\ UNCHANGED <<status, order, reserved>>
        /\ ids' = <<>> /\ copies' = {}
    BY <1>8 DEF Finish, machine, cut
  <2>2. GraphOK' /\ Reserving' /\ Machined'
    BY <2>1 DEF GraphOK, Reserving, Buft, Cpu, Machined
  <2> QED BY <2>1, <2>2
<1>9. ASSUME NEW b \in Backends, ComputeNode(b)
      PROVE  Steady'
  BY <1>0, <1>9 DEF ComputeNode, machine, hash, cut, Machined
<1>10. CASE UNCHANGED vars
  BY <1>0, <1>10 DEF vars, machine, hash, cut, Machined
<1> QED BY <1>1, <1>2, <1>3, <1>4, <1>5, <1>6, <1>7, <1>8, <1>9, <1>10 DEF Next

-----------------------------------------------------------------------------
(* Queues that ascend.                                                      *)
Ascending(s) == \A i, j \in DOMAIN s : i < j => s[i] < s[j]

LEMMA TailAscends ==
  ASSUME NEW s \in Seq(Nat), s # <<>>, Ascending(s)
  PROVE  /\ Tail(s) \in Seq(Nat) /\ Ascending(Tail(s))
         /\ Range(Tail(s)) = Range(s) \ {Head(s)}
         /\ Head(s) \in Range(s) /\ \A x \in Range(s) : Head(s) <= x
<1>1. /\ Len(s) \in Nat \ {0} /\ DOMAIN s = 1..Len(s) /\ Head(s) = s[1]
      /\ Tail(s) \in Seq(Nat) /\ DOMAIN Tail(s) = 1..Len(s) - 1
      /\ \A i \in 1..Len(s) - 1 : Tail(s)[i] = s[i + 1]
  OBVIOUS
<1> DEFINE t == Tail(s)
<1> HIDE DEF t
<1>2. Ascending(t)
  <2> SUFFICES ASSUME NEW i \in 1..Len(s) - 1, NEW j \in 1..Len(s) - 1, i < j
               PROVE  t[i] < t[j]
    BY <1>1 DEF Ascending, t
  <2>1. i + 1 \in DOMAIN s /\ j + 1 \in DOMAIN s /\ i + 1 < j + 1
    BY <1>1
  <2> QED BY <1>1, <2>1 DEF Ascending, t
<1>3. Head(s) \in Range(s) /\ \A x \in Range(s) : Head(s) <= x
  <2>1. \A i \in DOMAIN s : s[1] <= s[i]
    <3> SUFFICES ASSUME NEW i \in DOMAIN s PROVE s[1] <= s[i]
      OBVIOUS
    <3>1. s[i] \in Nat /\ s[1] \in Nat /\ i \in 1..Len(s) /\ 1 \in DOMAIN s
      BY <1>1
    <3>2. i = 1 \/ 1 < i
      BY <3>1
    <3> QED BY <3>1, <3>2 DEF Ascending
  <2> QED BY <1>1, <2>1 DEF Range
<1>4. ASSUME NEW x \in Range(s), x # Head(s)
      PROVE  x \in Range(t)
  <2>1. PICK i \in 1..Len(s) : x = s[i]
    BY <1>1 DEF Range
  <2>2. i - 1 \in 1..Len(s) - 1 /\ (i - 1) + 1 = i
    BY <1>1, <1>4, <2>1
  <2>3. t[i - 1] = s[i]
    BY <1>1, <2>2 DEF t
  <2> QED BY <1>1, <2>1, <2>2, <2>3 DEF Range, t
<1>5. ASSUME NEW x \in Range(t)
      PROVE  x \in Range(s) /\ x # Head(s)
  <2>1. PICK i \in 1..Len(s) - 1 : x = t[i]
    BY <1>1, <1>5 DEF Range, t
  <2>2. x = s[i + 1] /\ i + 1 \in DOMAIN s /\ 1 \in DOMAIN s /\ 1 < i + 1
    BY <1>1, <2>1 DEF t
  <2>3. s[1] < s[i + 1] /\ s[1] \in Nat /\ s[i + 1] \in Nat
    BY <2>2 DEF Ascending
  <2> QED BY <1>1, <2>2, <2>3 DEF Range
<1> QED BY <1>1, <1>2, <1>3, <1>4, <1>5 DEF t

LEMMA JoinAscends ==
  ASSUME NEW s \in Seq(Nat), NEW t \in Seq(Nat), Ascending(s), Ascending(t),
         \A x \in Range(s), y \in Range(t) : x < y
  PROVE  /\ s \o t \in Seq(Nat) /\ Ascending(s \o t)
         /\ Range(s \o t) = Range(s) \union Range(t)
<1> DEFINE u == s \o t
<1>1. /\ u \in Seq(Nat) /\ Len(u) = Len(s) + Len(t)
      /\ \A i \in 1..Len(s) : u[i] = s[i]
      /\ \A i \in 1..Len(t) : u[Len(s) + i] = t[i]
  BY Concatenated
<1> HIDE DEF u
<1>2. /\ DOMAIN u = 1..Len(s) + Len(t) /\ DOMAIN s = 1..Len(s) /\ DOMAIN t = 1..Len(t)
      /\ Len(s) \in Nat /\ Len(t) \in Nat
  BY <1>1
<1>3. ASSUME NEW i \in DOMAIN u
      PROVE  \/ i \in 1..Len(s) /\ u[i] = s[i] /\ s[i] \in Range(s)
             \/ i - Len(s) \in 1..Len(t) /\ u[i] = t[i - Len(s)] /\ t[i - Len(s)] \in Range(t)
  <2>1. i \in 1..Len(s) \/ (i - Len(s) \in 1..Len(t) /\ Len(s) + (i - Len(s)) = i)
    BY <1>2
  <2> QED BY <1>1, <1>2, <2>1 DEF Range
<1>4. Ascending(u)
  <2> SUFFICES ASSUME NEW i \in DOMAIN u, NEW j \in DOMAIN u, i < j
               PROVE  u[i] < u[j]
    BY DEF Ascending
  <2>1. CASE i \in 1..Len(s) /\ j \in 1..Len(s)
    BY <1>1, <1>2, <2>1 DEF Ascending
  <2>2. CASE i - Len(s) \in 1..Len(t) /\ j - Len(s) \in 1..Len(t)
    <3>1. u[i] = t[i - Len(s)] /\ u[j] = t[j - Len(s)]
      <4>1. Len(s) + (i - Len(s)) = i /\ Len(s) + (j - Len(s)) = j
        BY <1>2
      <4> QED BY <1>1, <2>2, <4>1
    <3>2. i - Len(s) < j - Len(s)
      BY <1>2
    <3> QED BY <1>2, <2>2, <3>1, <3>2 DEF Ascending
  <2>3. CASE i \in 1..Len(s) /\ j - Len(s) \in 1..Len(t)
    <3>1. u[i] = s[i] /\ u[j] = t[j - Len(s)]
      <4>1. Len(s) + (j - Len(s)) = j
        BY <1>2
      <4> QED BY <1>1, <2>3, <4>1
    <3> QED BY <1>2, <2>3, <3>1 DEF Range
  <2>4. ~(i - Len(s) \in 1..Len(t) /\ j \in 1..Len(s))
    BY <1>2
  <2> QED BY <1>3, <2>1, <2>2, <2>3, <2>4
<1>5. \A x \in Range(u) : x \in Range(s) \union Range(t)
  BY <1>3 DEF Range
<1>6. ASSUME NEW x \in Range(s)
      PROVE  x \in Range(u)
  <2>1. PICK i \in 1..Len(s) : x = s[i]
    BY <1>2 DEF Range
  <2>2. i \in DOMAIN u /\ u[i] = s[i]
    BY <1>1, <1>2
  <2> QED BY <2>1, <2>2 DEF Range
<1>7. ASSUME NEW x \in Range(t)
      PROVE  x \in Range(u)
  <2>1. PICK i \in 1..Len(t) : x = t[i]
    BY <1>2 DEF Range
  <2>2. Len(s) + i \in DOMAIN u /\ u[Len(s) + i] = t[i]
    BY <1>1, <1>2
  <2> QED BY <2>1, <2>2 DEF Range
<1> QED BY <1>1, <1>4, <1>5, <1>6, <1>7 DEF u

LEMMA NodesAscend ==
  ASSUME GraphOK, SplitsOK(splits), NEW k \in 1..Len(splits)
  PROVE  /\ NodesOf(splits, k) \in Seq(Nat) /\ Ascending(NodesOf(splits, k))
         /\ \A n : n \in Range(NodesOf(splits, k)) <=> n \in Nodes /\ Within(splits, k, n)
<1> DEFINE s == NodesOf(splits, k)
           a == splits[k].first
           z == SplitEnd(splits, k)
<1>1. /\ Len(s) = z - a + 1 /\ Len(s) \in Nat /\ DOMAIN s = 1..Len(s) /\ s \in Seq(Nodes)
      /\ \A i \in 1..Len(s) : s[i] = a + i - 1
  BY NodesOfFacts
<1>2. a \in Nodes /\ z \in Nodes /\ a \in Nat /\ z \in Nat /\ a <= z
  BY SplitFacts, GraphFacts
<1>3. Nodes = 1..Len(graph) /\ Len(graph) \in Nat
  BY GraphFacts
<1> HIDE DEF s, a, z
<1>4. s \in Seq(Nat)
  <2>1. \A i \in 1..Len(s) : s[i] \in Nat
    BY <1>1, <1>2
  <2> QED BY <1>1, <2>1
<1>5. Ascending(s)
  <2> SUFFICES ASSUME NEW i \in DOMAIN s, NEW j \in DOMAIN s, i < j
               PROVE  s[i] < s[j]
    BY DEF Ascending
  <2>1. s[i] = a + i - 1 /\ s[j] = a + j - 1
    BY <1>1
  <2> QED BY <1>1, <1>2, <2>1
<1>6. ASSUME NEW n \in Range(s)
      PROVE  n \in Nodes /\ a <= n /\ n <= z
  <2>1. PICK i \in 1..Len(s) : n = s[i]
    BY <1>1 DEF Range
  <2>2. n = a + i - 1
    BY <1>1, <2>1
  <2> QED BY <1>1, <1>2, <1>3, <2>2
<1>7. ASSUME NEW n \in Nodes, a <= n, n <= z
      PROVE  n \in Range(s)
  <2>1. n - a + 1 \in 1..Len(s) /\ a + (n - a + 1) - 1 = n
    BY <1>1, <1>2, <1>3, <1>7
  <2>2. s[n - a + 1] = n
    BY <1>1, <2>1
  <2> QED BY <1>1, <2>1, <2>2 DEF Range
<1> QED BY <1>4, <1>5, <1>6, <1>7 DEF Within, s, a, z

-----------------------------------------------------------------------------
(* What the backends still have to compute: nodes of splits of theirs that  *)
(* have been issued, from some node on; only the last split issued may keep *)
(* a backend that is not asynchronous busy; what is copied to a backend is  *)
(* copied when it has nothing left to compute.                              *)
CopyDone(k, i) == k < split \/ (k = split /\ i < input)
Counters ==
  /\ split \in 1..Len(splits) + 1 /\ input \in Nat \ {0}
  /\ split <= Len(splits) => input <= Len(splits[split].inputs) + 1
Queued(b) ==
  \A n \in Range(queue[b]) :
    n \in Nodes /\ \E j \in 1..Len(splits) :
                     j < split /\ splits[j].backend = b /\ Within(splits, j, n)
Rest(b) ==
  \A n \in Range(queue[b]) : \A j \in 1..Len(splits) : \A x \in Nodes :
    j < split /\ splits[j].backend = b /\ Within(splits, j, x) /\ n < x => x \in Range(queue[b])
InTurn(b) ==
  b \notin platform.async /\ queue[b] # <<>> =>
    /\ split > 1 /\ input = 1 /\ status = "success" /\ splits[split - 1].backend = b
    /\ \A n \in Range(queue[b]) : Within(splits, split - 1, n)
AfterCopies(b) ==
  \A n \in Range(queue[b]) : \A k \in 1..Len(splits) : \A i \in 1..Len(splits[k].inputs) :
    CopyDone(k, i) /\ splits[k].backend = b => splits[k].first <= n

Queues ==
  /\ queue \in [Backends -> Seq(Nat)]
  /\ \A b \in Backends : Ascending(queue[b])
  /\ pc # "compute" => \A b \in Backends : queue[b] = <<>>
  /\ pc = "compute" =>
       Counters /\ \A b \in Backends : Queued(b) /\ Rest(b) /\ InTurn(b) /\ AfterCopies(b)

LEMMA NothingLeft ==
  ASSUME Queues, pc = "compute", Returned, NEW b \in Backends, b \notin platform.async
  PROVE  queue[b] = <<>>
BY DEF Queues, InTurn, Returned

LEMMA InputsSet ==
  ASSUME Steady, Queues, SetInputs
  PROVE  Queues'
<1>1. /\ pc = "inputs" /\ pc' = "compute" /\ split' = 1 /\ input' = 1
      /\ UNCHANGED <<platform, splits, graph, queue>>
  BY DEF SetInputs, machine, cut
<1>2. SplitsOK(splits) /\ GraphOK
  BY <1>1, CutFacts DEF Steady
<1>3. /\ Len(splits) \in Nat \ {0}
      /\ \A k \in 1..Len(splits) : Len(splits[k].inputs) \in Nat /\ DOMAIN splits[k].inputs = 1..Len(splits[k].inputs)
  BY <1>2, SplitFacts
<1>4. Backends' = Backends
  BY <1>1 DEF Backends, Cpu
<1>5. \A b \in Backends : queue[b] = <<>> /\ Range(queue[b]) = {}
  BY <1>1 DEF Queues, Range
<1>6. Counters'
  BY <1>1, <1>3 DEF Counters
<1>7. queue' \in [Backends -> Seq(Nat)] /\ \A b \in Backends : Ascending(queue[b])'
  BY <1>1 DEF Queues, Ascending
<1>8. ASSUME NEW b \in Backends
      PROVE  Queued(b)' /\ Rest(b)' /\ InTurn(b)' /\ AfterCopies(b)'
  BY <1>1, <1>5 DEF Queued, Rest, InTurn, AfterCopies
<1> QED BY <1>1, <1>4, <1>6, <1>7, <1>8 DEF Queues

LEMMA InputCopied ==
  ASSUME Steady, Queues, CopyInput
  PROVE  Queues'
<1>1. /\ pc = "compute" /\ pc' = "compute" /\ split' = split /\ input' = input + 1
      /\ split <= Len(splits) /\ input <= Len(splits[split].inputs) /\ queue[splits[split].backend] = <<>>
      /\ UNCHANGED <<platform, splits, graph, queue, status>> /\ Returned
  BY DEF CopyInput, machine, hash, cut, Computing, SplitBackend, SplitInputs
<1>2. SplitsOK(splits) /\ GraphOK
  BY <1>1, CutFacts DEF Steady
<1>3. /\ Len(splits) \in Nat \ {0}
      /\ \A k \in 1..Len(splits) : Len(splits[k].inputs) \in Nat
  BY <1>2, SplitFacts
<1>4. Backends' = Backends /\ Nodes' = Nodes /\ \A j, n : Within(splits, j, n)' = Within(splits, j, n)
  BY <1>1 DEF Backends, Cpu, Nodes, Within, SplitEnd
<1>5. Counters /\ \A b \in Backends : Queued(b) /\ Rest(b) /\ InTurn(b) /\ AfterCopies(b)
  BY <1>1 DEF Queues
<1>6. split \in 1..Len(splits) /\ input \in Nat
  BY <1>1, <1>3, <1>5 DEF Counters
<1>7. Counters'
  BY <1>1, <1>3, <1>5, <1>6 DEF Counters
<1>8. queue' \in [Backends -> Seq(Nat)] /\ \A b \in Backends : Ascending(queue[b])'
  BY <1>1 DEF Queues, Ascending
<1>9. ASSUME NEW b \in Backends
      PROVE  Queued(b)' /\ Rest(b)' /\ InTurn(b)' /\ AfterCopies(b)'
  <2>1. Queued(b)' /\ Rest(b)'
    BY <1>1, <1>4, <1>5, SMTT(60) DEF Queued, Rest
  <2>2. InTurn(b)'
    BY <1>1, NothingLeft DEF InTurn
  <2>3. AfterCopies(b)'
    <3> SUFFICES ASSUME NEW n \in Range(queue[b]), NEW k \in 1..Len(splits),
                        NEW i \in 1..Len(splits[k].inputs), CopyDone(k, i)', splits[k].backend = b
                 PROVE  splits[k].first <= n
      BY <1>1 DEF AfterCopies
    <3>1. CASE CopyDone(k, i)
      BY <1>5, <3>1 DEF AfterCopies
    <3>2. CASE ~CopyDone(k, i)
      <4>1. k = split
        BY <1>1, <1>6, <3>2 DEF CopyDone
      <4>2. queue[b] = <<>>
        BY <1>1, <4>1
      <4> QED BY <4>2 DEF Range
    <3> QED BY <3>1, <3>2
  <2> QED BY <2>1, <2>2, <2>3
<1> QED BY <1>1, <1>4, <1>7, <1>8, <1>9 DEF Queues

LEMMA SplitComputed ==
  ASSUME Steady, Queues, ComputeSplit
  PROVE  Queues'
<1> DEFINE a == splits[split].backend
           new == NodesOf(splits, split)
<1>1. /\ pc = "compute" /\ pc' = "compute" /\ split' = split + 1 /\ input' = 1
      /\ split <= Len(splits) /\ input > Len(splits[split].inputs)
      /\ queue' = [queue EXCEPT ![a] = @ \o new]
      /\ UNCHANGED <<platform, splits, graph, status>> /\ Returned /\ status = "success"
  BY DEF ComputeSplit, machine, hash, cut, Computing, SplitBackend, SplitInputs
<1>2. SplitsOK(splits) /\ GraphOK
  BY <1>1, CutFacts DEF Steady
<1>3. /\ Len(splits) \in Nat \ {0}
      /\ \A k \in 1..Len(splits) : Len(splits[k].inputs) \in Nat /\ splits[k].backend \in Backends
  BY <1>2, SplitFacts
<1>4. Backends' = Backends /\ Nodes' = Nodes /\ \A j, n : Within(splits, j, n)' = Within(splits, j, n)
  BY <1>1 DEF Backends, Cpu, Nodes, Within, SplitEnd
<1>5. Counters /\ \A b \in Backends : Queued(b) /\ Rest(b) /\ InTurn(b) /\ AfterCopies(b)
  BY <1>1 DEF Queues
<1>6. split \in 1..Len(splits) /\ input \in Nat /\ input > Len(splits[split].inputs)
  BY <1>1, <1>3, <1>5 DEF Counters
<1>7. Counters'
  BY <1>1, <1>3, <1>6 DEF Counters
<1>8. new \in Seq(Nat) /\ Ascending(new) /\ \A n : n \in Range(new) <=> n \in Nodes /\ Within(splits, split, n)
  BY <1>2, <1>6, NodesAscend
<1>9. a \in Backends /\ queue[a] \in Seq(Nat) /\ Ascending(queue[a]) /\ queue \in [Backends -> Seq(Nat)]
  BY <1>3, <1>6 DEF Queues
<1> HIDE DEF a, new
<1>10. ASSUME NEW n \in Nodes, NEW m \in Nodes, NEW j \in 1..Len(splits), j < split,
              Within(splits, j, n), Within(splits, split, m)
       PROVE  n < m
  <2>1. n \in Nat /\ m \in Nat
    BY <1>2, GraphFacts
  <2>2. m <= n => split <= j
    BY <1>2, <1>6, <1>10, SplitOfNode
  <2> QED BY <1>6, <1>10, <2>1, <2>2
<1>11. \A x \in Range(queue[a]), y \in Range(new) : x < y
  BY <1>5, <1>8, <1>9, <1>10 DEF Queued
<1>12. /\ queue[a] \o new \in Seq(Nat) /\ Ascending(queue[a] \o new)
       /\ Range(queue[a] \o new) = Range(queue[a]) \union Range(new)
  BY <1>8, <1>9, <1>11, JoinAscends
<1>13. \A b \in Backends : queue'[b] = IF b = a THEN queue[a] \o new ELSE queue[b]
  BY <1>1, <1>9
<1>14. queue' \in [Backends -> Seq(Nat)] /\ \A b \in Backends : Ascending(queue[b])'
  <2>1. queue' \in [Backends -> Seq(Nat)]
    BY <1>1, <1>9, <1>12
  <2>2. \A b \in Backends : Ascending(queue'[b])
    BY <1>12, <1>13 DEF Queues
  <2> QED BY <2>1, <2>2 DEF Ascending
<1>15. ASSUME NEW b \in Backends, NEW n
       PROVE  n \in Range(queue'[b]) <=> n \in Range(queue[b]) \/ (b = a /\ n \in Nodes /\ Within(splits, split, n))
  BY <1>8, <1>12, <1>13
<1>16. a = splits[split].backend
  BY DEF a
<1>17. ASSUME NEW b \in Backends
       PROVE  Queued(b)' /\ Rest(b)' /\ InTurn(b)' /\ AfterCopies(b)'
  <2>1. Queued(b)'
    <3> SUFFICES ASSUME NEW n \in Range(queue'[b])
                 PROVE  n \in Nodes /\ \E j \in 1..Len(splits) :
                          j < split + 1 /\ splits[j].backend = b /\ Within(splits, j, n)
      BY <1>1, <1>4 DEF Queued
    <3>1. CASE n \in Range(queue[b])
      <4>1. PICK j \in 1..Len(splits) : j < split /\ splits[j].backend = b /\ Within(splits, j, n)
        BY <1>5, <3>1 DEF Queued
      <4>2. j < split + 1
        BY <1>6, <4>1
      <4> QED BY <1>5, <3>1, <4>1, <4>2 DEF Queued
    <3>2. CASE b = a /\ n \in Nodes /\ Within(splits, split, n)
      <4>1. split < split + 1
        BY <1>6
      <4> QED BY <1>6, <1>16, <3>2, <4>1
    <3> QED BY <1>15, <3>1, <3>2
  <2>2. Rest(b)'
    <3> SUFFICES ASSUME NEW n \in Range(queue'[b]), NEW j \in 1..Len(splits), NEW x \in Nodes,
                        j < split + 1, splits[j].backend = b, Within(splits, j, x), n < x
                 PROVE  x \in Range(queue'[b])
      BY <1>1, <1>4 DEF Rest
    <3>1. j = split \/ j < split
      BY <1>6
    <3>2. CASE j = split
      BY <1>15, <1>16, <3>2
    <3>3. CASE j < split /\ n \in Range(queue[b])
      BY <1>5, <1>15, <3>3 DEF Rest
    <3>4. CASE j < split /\ n \in Nodes /\ Within(splits, split, n)
      <4>1. x < n /\ x \in Nat /\ n \in Nat
        BY <1>2, <1>10, <3>4, GraphFacts
      <4> QED BY <4>1
    <3> QED BY <1>15, <3>1, <3>2, <3>3, <3>4
  <2>3. InTurn(b)'
    <3> SUFFICES ASSUME b \notin platform.async, queue'[b] # <<>>
                 PROVE  /\ split' > 1 /\ splits[split].backend = b
                        /\ \A n \in Range(queue'[b]) : Within(splits, split, n)
      <4>1. split' - 1 = split
        BY <1>1, <1>6
      <4> QED BY <1>1, <1>4, <4>1 DEF InTurn
    <3>1. queue[b] = <<>> /\ Range(queue[b]) = {}
      BY <1>1, NothingLeft DEF Range
    <3>2. b = a
      BY <1>13, <3>1
    <3>3. split' > 1
      BY <1>1, <1>6
    <3> QED BY <1>15, <1>16, <3>1, <3>2, <3>3
  <2>4. AfterCopies(b)'
    <3> SUFFICES ASSUME NEW n \in Range(queue'[b]), NEW k \in 1..Len(splits),
                        NEW i \in 1..Len(splits[k].inputs), CopyDone(k, i)', splits[k].backend = b
                 PROVE  splits[k].first <= n
      BY <1>1 DEF AfterCopies
    <3>1. k <= split
      BY <1>1, <1>6 DEF CopyDone
    <3>2. CopyDone(k, i)
      <4>1. k < split \/ (k = split /\ i < input)
        BY <1>3, <1>6, <3>1
      <4> QED BY <4>1 DEF CopyDone
    <3>3. CASE n \in Range(queue[b])
      BY <1>5, <3>2, <3>3 DEF AfterCopies
    <3>4. CASE n \in Nodes /\ Within(splits, split, n)
      BY <1>2, <1>6, <3>1, <3>4, SplitOfNode
    <3> QED BY <1>15, <3>3, <3>4
  <2> QED BY <2>1, <2>2, <2>3, <2>4
<1> QED BY <1>1, <1>4, <1>7, <1>14, <1>17 DEF Queues

LEMMA ComputeFails ==
  ASSUME Steady, Queues, SplitFails
  PROVE  Queues'
<1>1. /\ pc = "compute" /\ pc' = "compute" /\ split' = split /\ input' = input
      /\ UNCHANGED <<platform, splits, graph>>
  BY DEF SplitFails, machine, hash, cut
<1>2. Backends' = Backends /\ Nodes' = Nodes /\ \A j, n : Within(splits, j, n)' = Within(splits, j, n)
  BY <1>1 DEF Backends, Cpu, Nodes, Within, SplitEnd
<1>3. Counters /\ \A b \in Backends : Queued(b) /\ Rest(b) /\ InTurn(b) /\ AfterCopies(b)
  BY <1>1 DEF Queues
<1>4. Counters'
  BY <1>1, <1>3 DEF Counters
<1>5. queue' \in [Backends -> Seq(Nat)] /\ \A b \in Backends : queue'[b] = queue[b] \/ queue'[b] = <<>>
  <2>1. CASE UNCHANGED queue
    BY <2>1 DEF Queues
  <2>2. CASE queue' = [queue EXCEPT ![splits[split - 1].backend] = <<>>]
    <3> DEFINE x == splits[split - 1].backend
               s == <<>>
    <3>1. s \in Seq(Nat) /\ queue' = [queue EXCEPT ![x] = s]
      BY <2>2
    <3>2. queue \in [Backends -> Seq(Nat)]
      BY DEF Queues
    <3> HIDE DEF x, s
    <3>3. queue' \in [Backends -> Seq(Nat)] /\ \A b \in Backends : queue'[b] = queue[b] \/ queue'[b] = s
      BY <3>1, <3>2
    <3> QED BY <3>3 DEF s
  <2> QED BY <2>1, <2>2 DEF SplitFails
<1>6. \A b \in Backends : b \notin platform.async => queue'[b] = <<>>
  <2> SUFFICES ASSUME NEW b \in Backends, b \notin platform.async PROVE queue'[b] = <<>>
    OBVIOUS
  <2>1. CASE Computing /\ UNCHANGED queue
    BY <1>1, <2>1, NothingLeft DEF Computing
  <2>2. CASE ~Returned /\ queue' = [queue EXCEPT ![splits[split - 1].backend] = <<>>]
    <3>1. queue[b] # <<>> => b = splits[split - 1].backend
      BY <1>3 DEF InTurn
    <3> QED BY <2>2, <3>1 DEF Queues
  <2> QED BY <2>1, <2>2 DEF SplitFails
<1>7. ASSUME NEW b \in Backends
      PROVE  Ascending(queue[b])' /\ Queued(b)' /\ Rest(b)' /\ InTurn(b)' /\ AfterCopies(b)'
  <2>1. InTurn(b)'
    BY <1>1, <1>6 DEF InTurn
  <2>2. CASE queue'[b] = queue[b]
    BY <1>1, <1>2, <1>3, <2>1, <2>2 DEF Queues, Ascending, Queued, Rest, AfterCopies, CopyDone
  <2>3. CASE queue'[b] = <<>>
    <3>1. Range(queue'[b]) = {}
      BY <2>3 DEF Range
    <3>2. Ascending(queue[b])'
      BY <2>3 DEF Ascending
    <3> QED BY <2>1, <3>1, <3>2 DEF Queued, Rest, AfterCopies
  <2> QED BY <1>5, <2>2, <2>3
<1> QED BY <1>1, <1>2, <1>4, <1>5, <1>7 DEF Queues

LEMMA NodeComputed ==
  ASSUME Steady, Queues, NEW c \in Backends, ComputeNode(c)
  PROVE  Queues'
<1>1. /\ queue[c] # <<>> /\ queue' = [queue EXCEPT ![c] = Tail(@)]
      /\ UNCHANGED <<pc, status, split, input, platform, splits, graph>>
  BY DEF ComputeNode, machine, hash, cut
<1>2. pc = "compute" /\ pc' = "compute"
  BY <1>1 DEF Queues
<1>3. Backends' = Backends /\ Nodes' = Nodes /\ \A j, n : Within(splits, j, n)' = Within(splits, j, n)
  BY <1>1 DEF Backends, Cpu, Nodes, Within, SplitEnd
<1>4. Counters /\ \A b \in Backends : Queued(b) /\ Rest(b) /\ InTurn(b) /\ AfterCopies(b)
  BY <1>2 DEF Queues
<1>5. Counters'
  BY <1>1, <1>4 DEF Counters
<1>6. queue \in [Backends -> Seq(Nat)] /\ Ascending(queue[c]) /\ queue[c] \in Seq(Nat)
  BY DEF Queues
<1>7. /\ Tail(queue[c]) \in Seq(Nat) /\ Ascending(Tail(queue[c]))
      /\ Range(Tail(queue[c])) = Range(queue[c]) \ {Head(queue[c])}
      /\ Head(queue[c]) \in Range(queue[c]) /\ \A x \in Range(queue[c]) : Head(queue[c]) <= x
  BY <1>1, <1>6, TailAscends
<1>8. \A b \in Backends : queue'[b] = IF b = c THEN Tail(queue[c]) ELSE queue[b]
  BY <1>1, <1>6
<1>9. queue' \in [Backends -> Seq(Nat)]
  BY <1>1, <1>6, <1>7
<1>10. ASSUME NEW b \in Backends
       PROVE  Ascending(queue[b])' /\ Queued(b)' /\ Rest(b)' /\ InTurn(b)' /\ AfterCopies(b)'
  <2>1. CASE b # c
    <3>1. queue'[b] = queue[b]
      BY <1>8, <2>1
    <3> QED BY <1>1, <1>3, <1>4, <3>1 DEF Queues, Ascending, Queued, Rest, InTurn, AfterCopies, CopyDone
  <2>2. CASE b = c
    <3>1. queue'[b] = Tail(queue[b]) /\ Range(queue'[b]) = Range(queue[b]) \ {Head(queue[b])}
      BY <1>7, <1>8, <2>2
    <3>2. Ascending(queue[b])'
      <4>1. Ascending(queue'[b])
        BY <1>7, <2>2, <3>1
      <4> QED BY <4>1 DEF Ascending
    <3>3. Queued(b)'
      BY <1>1, <1>3, <1>4, <3>1 DEF Queued
    <3>4. Rest(b)'
      <4> SUFFICES ASSUME NEW n \in Range(queue'[b]), NEW j \in 1..Len(splits), NEW x \in Nodes,
                          j < split, splits[j].backend = b, Within(splits, j, x), n < x
                   PROVE  x \in Range(queue'[b])
        BY <1>1, <1>3 DEF Rest
      <4>1. x \in Range(queue[b]) /\ Head(queue[b]) <= n
        BY <1>4, <1>7, <2>2, <3>1 DEF Rest
      <4>2. n \in Nat /\ x \in Nat /\ Head(queue[b]) \in Nat
        <5>1. Range(queue[b]) \subseteq Nat
          BY <1>6, <2>2 DEF Range
        <5> QED BY <1>7, <2>2, <3>1, <4>1, <5>1
      <4>3. x # Head(queue[b])
        BY <4>1, <4>2
      <4> QED BY <3>1, <4>1, <4>3
    <3>5. InTurn(b)' /\ AfterCopies(b)'
      BY <1>1, <1>3, <1>4, <2>2, <3>1 DEF InTurn, AfterCopies, CopyDone
    <3> QED BY <3>2, <3>3, <3>4, <3>5
  <2> QED BY <2>1, <2>2
<1> QED BY <1>2, <1>3, <1>5, <1>9, <1>10 DEF Queues

LEMMA QueuesInit == Init => Queues
<1> SUFFICES ASSUME Init PROVE Queues
  OBVIOUS
<1>1. queue = [b \in Backends |-> <<>>] /\ pc = "idle"
  BY DEF Init
<1> QED BY <1>1 DEF Queues, Ascending

LEMMA QueuesNext == Steady /\ Queues /\ [Next]_vars => Queues'
<1> SUFFICES ASSUME Steady, Queues, [Next]_vars PROVE Queues'
  OBVIOUS
<1>1. ASSUME UNCHANGED <<platform, queue>>, pc # "compute", pc' # "compute"
      PROVE  Queues'
  BY <1>1 DEF Queues, Ascending, Backends, Cpu
<1>2. CASE BuildGraph
  BY <1>1, <1>2 DEF BuildGraph
<1>3. CASE SplitGraph
  BY <1>1, <1>3 DEF SplitGraph, machine
<1>4. CASE AllocSplits
  BY <1>1, <1>4 DEF AllocSplits, machine
<1>5. CASE Finish
  BY <1>5 DEF Finish, machine, Queues, Ascending, Backends, Cpu
<1>6. CASE UNCHANGED vars
  <2>1. UNCHANGED <<platform, graph, pc, status, splits, split, input, queue>>
    BY <1>6 DEF vars, machine, cut
  <2>2. Backends' = Backends /\ Nodes' = Nodes /\ \A j, n : Within(splits, j, n)' = Within(splits, j, n)
    BY <2>1 DEF Backends, Cpu, Nodes, Within, SplitEnd
  <2>3. \A b : Ascending(queue[b])' = Ascending(queue[b])
    BY <2>1 DEF Ascending
  <2>4. \A k, i : CopyDone(k, i)' = CopyDone(k, i)
    BY <2>1 DEF CopyDone
  <2>5. Counters' = Counters
    BY <2>1 DEF Counters
  <2>6. \A b : Queued(b)' = Queued(b) /\ Rest(b)' = Rest(b)
    BY <2>1, <2>2 DEF Queued, Rest
  <2>7. \A b : InTurn(b)' = InTurn(b) /\ AfterCopies(b)' = AfterCopies(b)
    BY <2>1, <2>2, <2>4 DEF InTurn, AfterCopies
  <2> QED BY <2>1, <2>2, <2>3, <2>5, <2>6, <2>7 DEF Queues
<1> QED BY <1>2, <1>3, <1>4, <1>5, <1>6, InputsSet, InputCopied, SplitComputed, ComputeFails, NodeComputed DEF Next

-----------------------------------------------------------------------------
LEMMA TypesFollow == Steady /\ Queues => TypeOK
<1> SUFFICES ASSUME Steady, Queues PROVE TypeOK
  OBVIOUS
<1>1. pc \in {"idle", "split", "alloc", "inputs", "compute", "failed", "aborted"}
  BY DEF Steady
<1>2. ASSUME pc \in {"alloc", "inputs", "compute"}
      PROVE  /\ DOMAIN ids = Tensors /\ Range(ids) \subseteq Backends
             /\ \A k \in 1..Len(splits) - 1 : splits[k].first < splits[k + 1].first
  <2>1. GraphOK /\ SplitsOK(splits) /\ ids \in [Tensors -> Backends]
    BY <1>2, CutFacts DEF Steady
  <2>2. DOMAIN splits = 1..Len(splits) /\ Len(splits) \in Nat
    BY <2>1, SplitFacts
  <2>3. ASSUME NEW k \in 1..Len(splits) - 1
        PROVE  splits[k].first < splits[k + 1].first
    <3>1. k \in DOMAIN splits /\ k + 1 \in DOMAIN splits /\ k < k + 1
      BY <2>2
    <3> QED BY <2>1, <3>1 DEF SplitsOK, Ranked
  <2> QED BY <2>1, <2>3 DEF Range
<1>3. ASSUME NEW b \in Backends, NEW j \in 1..Len(queue[b]) - 1
      PROVE  queue[b][j] < queue[b][j + 1]
  <2>1. queue[b] \in Seq(Nat) /\ Ascending(queue[b])
    BY DEF Queues
  <2>2. j \in DOMAIN queue[b] /\ j + 1 \in DOMAIN queue[b] /\ j < j + 1
    BY <2>1
  <2> QED BY <2>1, <2>2 DEF Ascending
<1> QED BY <1>1, <1>2, <1>3 DEF TypeOK

LEMMA SchedInductive == Spec => [](Steady /\ Queues)
<1>1. Init => Steady /\ Queues
  BY SteadyInit, QueuesInit
<1>2. (Steady /\ Queues) /\ [Next]_vars => (Steady /\ Queues)'
  BY SteadyNext, QueuesNext
<1> QED BY <1>1, <1>2, PTL DEF Spec

(* Once a graph is allocated every tensor has a backend of the machine, the *)
(* splits follow each other in the order of the nodes, and each backend     *)
(* computes its nodes in that order, whatever the machine, the graphs and   *)
(* the limit of inputs are (passes 1 to 5 of                                *)
(* ggml_backend_sched_split_graph and compute_splits).                      *)
THEOREM TypeCorrect == Spec => []TypeOK
BY SchedInductive, TypesFollow, PTL

(* An operation is only ever given to a backend that supports it, and finds *)
(* the tensors it reads and the one it writes in buffers of types which     *)
(* that backend can use, where the graph allocator has really placed them,  *)
(* also when it has taken over the places of an earlier graph.              *)
THEOREM OperationsRunWhereTheyCan == Spec => []RunsWhereItCan
<1>1. Steady => RunsWhereItCan
  <2> SUFFICES ASSUME Steady, pc \in {"inputs", "compute"}, NEW n \in Nodes, ~IsView(n)
               PROVE  /\ ids[n] \in Runs(n)
                      /\ \A q \in Range(places[n]) \union {Original(n)} : BuftOf(q) \in Uses(ids[n])
    BY DEF RunsWhereItCan
  <2>1. Laid /\ Reserving
    BY DEF Steady
  <2> QED BY <2>1, ReadsReach
<1> QED BY <1>1, SchedInductive, PTL

-----------------------------------------------------------------------------
(* Who writes what, before a node.                                          *)
Writers(n, r) == {m \in 1..n - 1 : ~IsView(m) /\ Root(m) = r}
LastOf(S, v)  == (S = {} /\ v = 0) \/ (v \in S /\ \A w \in S : w <= v)

LEMMA LastOfSame ==
  ASSUME NEW S \in SUBSET Nat, NEW u, NEW v, LastOf(S, u), LastOf(S, v)
  PROVE  u = v
<1>1. CASE S = {}
  BY <1>1 DEF LastOf
<1>2. CASE S # {}
  <2>1. u \in S /\ v \in S /\ u <= v /\ v <= u
    BY <1>2 DEF LastOf
  <2> QED BY <2>1
<1> QED BY <1>1, <1>2

LEMMA WriterLast ==
  ASSUME GraphOK, NEW n \in 1..Len(graph) + 1, NEW t
  PROVE  LastOf(Writers(n, Root(t)), Writer(n, t)) /\ Writers(n, Root(t)) \in SUBSET Nat
         /\ Writers(n, Root(t)) \subseteq Nodes
<1>1. Len(graph) \in Nat /\ Nodes = 1..Len(graph) /\ n - 1 \in Nat
  BY GraphFacts
<1>2. \A m \in 1..n - 1 : m \in Nodes /\ (IsView(m) <=> graph[m].op = "view")
  BY <1>1, GraphFacts DEF IsView, IsLeaf
<1> DEFINE S == {m \in 1..n - 1 : graph[m].op # "view" /\ Root(m) = Root(t)}
<1>3. S = Writers(n, Root(t))
  BY <1>2 DEF Writers
<1>4. Writer(n, t) = IF S = {} THEN 0 ELSE Max(S)
  BY DEF Writer
<1>5. S \in SUBSET (0..n - 1) /\ S \in SUBSET Nat /\ S \subseteq Nodes
  BY <1>1, <1>2
<1> HIDE DEF S
<1>6. LastOf(S, Writer(n, t))
  <2>1. CASE S = {}
    BY <1>4, <2>1 DEF LastOf
  <2>2. CASE S # {}
    BY <1>1, <1>4, <1>5, <2>2, LargestNat DEF LastOf
  <2> QED BY <2>1, <2>2
<1> QED BY <1>3, <1>5, <1>6

LEMMA OperationWrites ==
  ASSUME GraphOK, NEW n \in 1..Len(graph) + 1, NEW t \in Tensors, ~Stored(t)
  PROVE  /\ Root(t) \in Inputs => Writer(n, t) = 0
         /\ Root(t) \in Nodes /\ Root(t) < n => Writer(n, t) = Root(t)
<1>1. Len(graph) \in Nat /\ Nodes = 1..Len(graph) /\ \A m \in Nodes : m \notin Leaves
  BY GraphFacts
<1>2. \A m \in 1..n - 1 : m \in Nodes
  BY <1>1
<1>3. ASSUME NEW m \in Writers(n, Root(t))
      PROVE  m = Root(t)
  <2>1. m \in Nodes /\ ~IsView(m) /\ Root(m) = Root(t)
    BY <1>2 DEF Writers
  <2>2. ~Stored(m)
    BY <2>1 DEF Stored
  <2> QED BY <2>1, <2>2, KindFacts
<1>4. LastOf(Writers(n, Root(t)), Writer(n, t))
  BY WriterLast
<1>5. ASSUME Root(t) \in Inputs
      PROVE  Writer(n, t) = 0
  <2>1. Root(t) \notin Nodes
    BY <1>1, <1>5, SchedConstants
  <2>2. Writers(n, Root(t)) = {}
    BY <1>2, <1>3, <2>1 DEF Writers
  <2> QED BY <1>4, <2>2 DEF LastOf
<1>6. ASSUME Root(t) \in Nodes, Root(t) < n
      PROVE  Writer(n, t) = Root(t)
  <2>1. Root(t) \in 1..n - 1
    BY <1>1, <1>6
  <2>2. ~IsView(Root(t)) /\ Root(Root(t)) = Root(t)
    BY RootFacts
  <2>3. Root(t) \in Writers(n, Root(t))
    BY <2>1, <2>2 DEF Writers
  <2> QED BY <1>3, <1>4, <2>3 DEF LastOf
<1> QED BY <1>5, <1>6

(* The root of what is copied to a split is older than the split, or not    *)
(* computed at all; and no node of the split before its readers writes it.  *)
LEMMA CopiedRoot ==
  ASSUME IsCut, NEW k \in 1..Len(splits), NEW i \in 1..Len(splits[k].inputs)
  PROVE  LET s == splits[k].inputs[i] IN
         /\ s \in Tensors /\ splits[k].backend \in Backends /\ Foreign(ids, s, splits[k].backend)
         /\ Root(s) \in Nodes => Root(s) < splits[k].first
         /\ \A w \in Nodes : ~IsView(w) /\ Root(w) = Root(s) => ~Within(splits, k, w)
         /\ s < Len(graph)
<1> DEFINE s == splits[k].inputs[i]
           b == splits[k].backend
<1>1. GraphOK /\ GoodIds(ids) /\ SplitsOK(splits) /\ HomesAll /\ FedAll
  BY CutFacts
<1>2. b \in Backends /\ Len(graph) \in Nat /\ Nodes = 1..Len(graph) /\ splits[k].first \in Nodes
  BY <1>1, SplitFacts, GraphFacts
<1>3. s \in Tensors /\ Foreign(ids, s, b)
  BY <1>1 DEF FedAll
<1>4. PICK m \in Nodes : ~IsView(m) /\ Within(splits, k, m) /\ s \in Range(Src(m))
  BY <1>1 DEF FedAll
<1> HIDE DEF s, b
<1>5. s < m /\ s \in Int /\ s < Len(graph)
  <2>1. s < m
    BY <1>1, <1>4, SourceFacts DEF Range
  <2>2. s \in Int
    BY <1>1, <1>2, <1>3, GraphFacts DEF Tensors
  <2> QED BY <1>2, <2>1, <2>2
<1>6. IF Stored(s) THEN Buffer[Root(s)] \notin Uses(b)
      ELSE Buft(ids[s]) \notin Uses(b) /\ ids[s] = ids[Root(s)] /\ ids[s] # b
  BY <1>1, <1>2, <1>3, OutOfReach
<1>7. ASSUME NEW w \in Nodes, ~IsView(w), Root(w) = Root(s)
      PROVE  ~Within(splits, k, w)
  <2> SUFFICES ASSUME Within(splits, k, w) PROVE FALSE
    OBVIOUS
  <2>1. ids[w] = b /\ w \in Tensors
    BY <1>1, <1>2, <1>7, GraphFacts DEF HomesAll, b
  <2>2. CASE Stored(s)
    <3>1. Stored(w) /\ Buffer[Root(w)] \in Uses(ids[w])
      BY <1>1, <1>7, <2>1, <2>2 DEF Stored, GoodIds
    <3> QED BY <1>6, <1>7, <2>1, <2>2, <3>1
  <2>3. CASE ~Stored(s)
    <3>1. ~Stored(w) /\ ids[w] = ids[Root(w)]
      BY <1>1, <1>7, <2>1, <2>3 DEF Stored, GoodIds
    <3> QED BY <1>6, <1>7, <2>1, <2>3, <3>1
  <2> QED BY <2>2, <2>3
<1>8. ASSUME Root(s) \in Nodes
      PROVE  Root(s) < splits[k].first
  <2>1. ~IsView(Root(s)) /\ Root(Root(s)) = Root(s) /\ Root(s) <= s
    BY <1>1, <1>3, RootFacts
  <2>2. ~Within(splits, k, Root(s))
    BY <1>7, <1>8, <2>1
  <2>3. Root(s) <= m /\ m <= SplitEnd(splits, k) /\ SplitEnd(splits, k) \in Nodes
    BY <1>1, <1>2, <1>4, <1>5, <1>8, <2>1, SplitFacts DEF Within
  <2> QED BY <1>2, <1>8, <2>2, <2>3 DEF Within
<1> QED BY <1>2, <1>3, <1>5, <1>7, <1>8 DEF s, b

(* A copy has what its readers, also those in later splits, would read.     *)
LEMMA CopyReads ==
  ASSUME IsCut, NEW k \in 1..Len(splits), NEW i \in 1..Len(splits[k].inputs),
         NEW n \in Nodes, ~IsView(n), NEW j \in Read(n), Src(n)[j] = splits[k].inputs[i],
         ids[n] = splits[k].backend, splits[k].first <= n
  PROVE  Writer(splits[k].first, splits[k].inputs[i]) = Writer(n, splits[k].inputs[i])
<1> DEFINE s == splits[k].inputs[i]
           b == splits[k].backend
           a == splits[k].first
<1>1. GraphOK /\ GoodIds(ids) /\ SplitsOK(splits) /\ FedAll
  BY CutFacts
<1>2. /\ b \in Backends /\ Len(graph) \in Nat /\ Nodes = 1..Len(graph)
      /\ a \in Nodes /\ SplitEnd(splits, k) \in Nodes
  BY <1>1, SplitFacts, GraphFacts
<1>3. /\ s \in Tensors /\ Foreign(ids, s, b)
      /\ \A w \in Nodes : ~IsView(w) /\ Root(w) = Root(s) => ~Within(splits, k, w)
      /\ Root(s) \in Nodes => Root(s) < a
  BY CopiedRoot
<1>4. PICK m \in Nodes : ~IsView(m) /\ Within(splits, k, m) /\ s \in Range(Src(m))
  BY <1>1 DEF FedAll
<1> HIDE DEF s, b, a
<1>5. ASSUME NEW x \in Nodes
      PROVE  /\ IsView(x) <=> graph[x].op = "view"
             /\ Root(x) = graph[x].root /\ Src(x) = graph[x].src
  BY <1>1, <1>5, GraphFacts, SourceFacts DEF IsView, IsLeaf, Root
<1>6. s \in ReadsIn(graph, n)
  <2>1. Src(n) = graph[n].src /\ Src(n)[j] = s
    BY <1>5 DEF s
  <2>2. CASE graph[n].op = "write"
    <3>1. j = 1
      BY <2>2 DEF Read
    <3> QED BY <2>1, <2>2, <3>1 DEF ReadsIn
  <2>3. CASE graph[n].op # "write"
    <3>1. j \in DOMAIN Src(n)
      BY <2>3 DEF Read
    <3> QED BY <2>1, <2>3, <3>1 DEF ReadsIn, Range
  <2> QED BY <2>2, <2>3
<1>7. s \in ReadsIn(graph, m)
  <2>1. Src(m) = graph[m].src
    BY <1>5
  <2>2. CASE graph[m].op = "write"
    <3>1. Len(Src(m)) = 2 /\ Root(m) = Root(Src(m)[2])
      BY <1>1, <2>2, KindFacts
    <3>2. s # Src(m)[2]
      BY <1>3, <1>4, <3>1
    <3>3. DOMAIN Src(m) = 1..Len(Src(m))
      BY <1>1, SourceFacts
    <3>4. s = Src(m)[1]
      BY <1>4, <3>1, <3>2, <3>3 DEF Range
    <3> QED BY <2>1, <2>2, <3>4 DEF ReadsIn
  <2>3. CASE graph[m].op # "write"
    BY <1>4, <2>1, <2>3 DEF ReadsIn
  <2> QED BY <2>2, <2>3
<1>8. ASSUME NEW w \in Nodes, a <= w, w < n, ~IsView(w), Root(w) = Root(s)
      PROVE  FALSE
  <2>1. ~Within(splits, k, w)
    BY <1>3, <1>8
  <2>2. w > SplitEnd(splits, k) /\ SplitEnd(splits, k) >= m /\ m < w
    BY <1>2, <1>4, <1>8, <2>1 DEF Within, a
  <2>3. graph[w].op = "write"
    <3>1. CASE graph[w].op = "op"
      <4>1. Root(w) = w
        BY <1>1, <1>8, <3>1, KindFacts
      <4> QED BY <1>2, <1>3, <1>8, <4>1
    <3> QED BY <1>1, <1>5, <1>8, <3>1, KindFacts
  <2>4. RootIn(graph, s) = Root(s)
    BY DEF RootIn, Root, IsLeaf
  <2>5. graph[w].root = Root(s)
    BY <1>5, <1>8
  <2>6. graph[m].op # "view" /\ graph[n].op # "view"
    BY <1>4, <1>5
  <2>7. WellFormed(platform, graph)
    BY <1>1 DEF GraphOK
  <2>8. m \in DOMAIN graph /\ n \in DOMAIN graph /\ w \in DOMAIN graph
    BY DEF Nodes
  <2> QED BY <1>6, <1>7, <1>8, <2>2, <2>3, <2>4, <2>5, <2>6, <2>7, <2>8 DEF WellFormed
<1>9. Writers(a, Root(s)) = Writers(n, Root(s))
  <2>1. \A w \in 1..a - 1 : w \in 1..n - 1
    BY <1>2 DEF a
  <2>2. ASSUME NEW w \in Writers(n, Root(s))
        PROVE  w \in 1..a - 1
    <3>1. w \in Nodes /\ w < n /\ ~IsView(w) /\ Root(w) = Root(s)
      BY <1>2 DEF Writers
    <3>2. ~(a <= w)
      BY <1>8, <3>1
    <3> QED BY <1>2, <3>1, <3>2
  <2> QED BY <2>1, <2>2 DEF Writers
<1>10. n \in 1..Len(graph) + 1 /\ a \in 1..Len(graph) + 1
  BY <1>2
<1>11. /\ LastOf(Writers(a, Root(s)), Writer(a, s)) /\ LastOf(Writers(n, Root(s)), Writer(n, s))
       /\ Writers(a, Root(s)) \in SUBSET Nat
  BY <1>1, <1>10, WriterLast
<1>12. Writer(a, s) = Writer(n, s)
  BY <1>9, <1>11, LastOfSame
<1> QED BY <1>12 DEF a, s

-----------------------------------------------------------------------------
(* The positions of an order.                                               *)
LEMMA EntryIs ==
  ASSUME Laid, NEW B, Starts(ids, splits, order, B), NEW p \in DOMAIN order
  PROVE  \/ \E k \in 1..Len(splits) : \E i \in 1..Len(splits[k].inputs) :
              p = CopyPos(B, k, i) /\ order[p] = Entry("copy", splits[k].inputs[i], splits[k].backend)
         \/ \E k \in 1..Len(splits) : \E i \in 1..Len(splits[k].inputs) :
              /\ p = CopyPos(B, k, i) - 1 /\ InBlock(B, k, p)
              /\ order[p] = Entry("dep", splits[k].inputs[i], ids[splits[k].inputs[i]])
         \/ \E k \in 1..Len(splits) : \E n \in Nodes :
              /\ Within(splits, k, n) /\ p = NodePos(splits, B, k, n)
              /\ order[p] = Entry("node", n, ids[n])
<1>1. GraphOK /\ SplitsOK(splits)
  BY CutFacts DEF Laid
<1>2. PICK k \in 1..Len(splits) : InBlock(B, k, p)
  BY <1>1, BlocksRanked
<1>3. p \in Int
  BY OrderHasNodes
<1>4. Positioned(ids, splits, order, B, k)
  BY <1>1, Positions
<1>5. CASE \E i \in 1..Len(splits[k].inputs) : p = CopyPos(B, k, i) \/ p = CopyPos(B, k, i) - 1
  <2>1. PICK i \in 1..Len(splits[k].inputs) : p = CopyPos(B, k, i) \/ p = CopyPos(B, k, i) - 1
    BY <1>5
  <2>2. /\ order[CopyPos(B, k, i)] = Entry("copy", splits[k].inputs[i], splits[k].backend)
        /\ order[CopyPos(B, k, i) - 1] = Entry("dep", splits[k].inputs[i], ids[splits[k].inputs[i]])
    BY <1>4 DEF Positioned
  <2> QED BY <1>2, <2>1, <2>2
<1>6. CASE \E n \in Nodes : Within(splits, k, n) /\ p = NodePos(splits, B, k, n)
  <2>1. PICK n \in Nodes : Within(splits, k, n) /\ p = NodePos(splits, B, k, n)
    BY <1>6
  <2>2. order[p] = Entry("node", n, ids[n])
    BY <1>4, <2>1 DEF Positioned
  <2> QED BY <2>1, <2>2
<1> QED BY <1>2, <1>3, <1>4, <1>5, <1>6 DEF Positioned

LEMMA NodesInOrder ==
  ASSUME Laid, NEW B, Starts(ids, splits, order, B),
         NEW k \in 1..Len(splits), NEW l \in 1..Len(splits), NEW n \in Nodes, NEW m \in Nodes,
         Within(splits, k, n), Within(splits, l, m), n < m
  PROVE  NodePos(splits, B, k, n) < NodePos(splits, B, l, m)
<1>1. GraphOK /\ SplitsOK(splits) /\ n \in Nat /\ m \in Nat
  BY CutFacts, GraphFacts DEF Laid
<1>2. k <= l
  BY <1>1, SplitOfNode
<1>3. Positioned(ids, splits, order, B, k) /\ Positioned(ids, splits, order, B, l)
  BY <1>1, Positions
<1>4. /\ NodePos(splits, B, k, n) \in Int /\ InBlock(B, k, NodePos(splits, B, k, n))
      /\ NodePos(splits, B, l, m) \in Int /\ InBlock(B, l, NodePos(splits, B, l, m))
  BY <1>3 DEF Positioned
<1>5. CASE k < l
  BY <1>1, <1>4, <1>5, BlocksRanked
<1>6. CASE k = l
  <2>1. B[k] \in Nat /\ Len(splits[k].inputs) \in Nat /\ splits[k].first \in Nat
    <3>1. B[k] \in Nat
      BY <1>1, BlocksRanked
    <3> QED BY <1>1, <3>1, SplitFacts, GraphFacts
  <2> QED BY <1>1, <1>6, <2>1, SMTT(60) DEF NodePos
<1>7. Len(splits) \in Nat
  BY <1>1, SplitFacts
<1> QED BY <1>2, <1>5, <1>6, <1>7

LEMMA CopyBeforeNode ==
  ASSUME Laid, NEW B, Starts(ids, splits, order, B),
         NEW k \in 1..Len(splits), NEW l \in 1..Len(splits), NEW i \in 1..Len(splits[k].inputs),
         NEW m \in Nodes, Within(splits, l, m)
  PROVE  /\ k <= l => CopyPos(B, k, i) < NodePos(splits, B, l, m)
         /\ l < k => NodePos(splits, B, l, m) < CopyPos(B, k, i) - 1
<1>1. GraphOK /\ SplitsOK(splits) /\ Len(splits) \in Nat
  BY CutFacts, SplitFacts DEF Laid
<1>2. Positioned(ids, splits, order, B, k) /\ Positioned(ids, splits, order, B, l)
  BY <1>1, Positions
<1>3. /\ CopyPos(B, k, i) \in Int /\ InBlock(B, k, CopyPos(B, k, i)) /\ InBlock(B, k, CopyPos(B, k, i) - 1)
      /\ NodePos(splits, B, l, m) \in Int /\ InBlock(B, l, NodePos(splits, B, l, m))
  BY <1>2 DEF Positioned
<1>4. k = l => CopyPos(B, k, i) < NodePos(splits, B, l, m)
  BY <1>2 DEF Positioned
<1>6. k < l => CopyPos(B, k, i) < NodePos(splits, B, l, m)
  BY <1>1, <1>3, BlocksRanked
<1>7. ASSUME l < k
      PROVE  NodePos(splits, B, l, m) < CopyPos(B, k, i) - 1
  <2> DEFINE x == CopyPos(B, k, i) - 1
             y == NodePos(splits, B, l, m)
  <2>1. x \in Int /\ y \in Int /\ InBlock(B, k, x) /\ InBlock(B, l, y)
    BY <1>3
  <2> HIDE DEF x, y
  <2>2. y < x
    BY <1>1, <1>7, <2>1, BlocksRanked
  <2> QED BY <2>2 DEF x, y
<1> QED BY <1>1, <1>4, <1>6, <1>7

LEMMA CopiesInOrder ==
  ASSUME Laid, NEW B, Starts(ids, splits, order, B),
         NEW k \in 1..Len(splits), NEW l \in 1..Len(splits),
         NEW i \in 1..Len(splits[k].inputs), NEW h \in 1..Len(splits[l].inputs),
         k < l \/ (k = l /\ i < h)
  PROVE  CopyPos(B, k, i) < CopyPos(B, l, h) - 1
<1>1. GraphOK /\ SplitsOK(splits) /\ Len(splits) \in Nat
  BY CutFacts, SplitFacts DEF Laid
<1>2. Positioned(ids, splits, order, B, k) /\ Positioned(ids, splits, order, B, l)
  BY <1>1, Positions
<1>3. /\ CopyPos(B, k, i) \in Int /\ InBlock(B, k, CopyPos(B, k, i))
      /\ CopyPos(B, l, h) \in Int /\ InBlock(B, l, CopyPos(B, l, h) - 1)
  BY <1>2 DEF Positioned
<1>4. CASE k < l
  <2> DEFINE x == CopyPos(B, l, h) - 1
             y == CopyPos(B, k, i)
  <2>1. x \in Int /\ y \in Int /\ InBlock(B, l, x) /\ InBlock(B, k, y)
    BY <1>3
  <2> HIDE DEF x, y
  <2>2. y < x
    BY <1>1, <1>4, <2>1, BlocksRanked
  <2> QED BY <2>2 DEF x, y
<1>5. CASE k = l /\ i < h
  <2>1. B[k] \in Nat
    BY <1>1, BlocksRanked
  <2> QED BY <1>5, <2>1 DEF CopyPos
<1> QED BY <1>4, <1>5

-----------------------------------------------------------------------------
(* How long a tensor keeps its place.                                       *)
Family(place) ==
  {place} \union
    IF place[2] = -1
    THEN {Original(v) : v \in {u \in Nodes : Root(u) = place[1] /\ u # place[1]}}
    ELSE {}
Lasts(place) == LastUse(order, places, place)
UsedAt(place) == Users(order, places, place)

LEMMA LastsAre ==
  ASSUME Laid, NEW place
  PROVE  /\ place \in Family(place)
         /\ \A k \in Family(place) : \A p \in UsedAt(k) : p <= Lasts(place)
         /\ \A k \in Family(place) : UsedAt(k) = {} => Lasts(place) = Len(order) + 1
         /\ Lasts(place) = Len(order) + 1 \/ \E k \in Family(place) : Lasts(place) \in UsedAt(k)
         /\ Lasts(place) \in Nat
<1>1. DOMAIN order = 1..Len(order) /\ Len(order) \in Nat
  BY OrderHasNodes
<1>2. \A k : UsedAt(k) \subseteq 1..Len(order)
  BY <1>1 DEF UsedAt, Users
<1>3. place \in Family(place)
  BY DEF Family
<1>4. Lasts(place) = IF \E k \in Family(place) : UsedAt(k) = {} THEN Len(order) + 1
                     ELSE Max(UNION {UsedAt(k) : k \in Family(place)})
  BY DEF Lasts, LastUse, Family, UsedAt
<1> HIDE DEF Lasts, UsedAt, Family
<1>5. CASE \E k \in Family(place) : UsedAt(k) = {}
  BY <1>1, <1>2, <1>3, <1>4, <1>5
<1>6. CASE ~\E k \in Family(place) : UsedAt(k) = {}
  <2> DEFINE U == UNION {UsedAt(k) : k \in Family(place)}
  <2>1. U \in SUBSET (0..Len(order)) /\ U # {}
    BY <1>1, <1>2, <1>3, <1>6
  <2>2. Lasts(place) = Max(U)
    BY <1>4, <1>6
  <2>3. \A k \in Family(place) : \A p \in UsedAt(k) : p \in U
    OBVIOUS
  <2>4. \A p \in U : \E k \in Family(place) : p \in UsedAt(k)
    OBVIOUS
  <2> HIDE DEF U
  <2>5. Max(U) \in U /\ \A x \in U : x <= Max(U)
    BY <1>1, <2>1, LargestNat
  <2> DEFINE z == Max(U)
  <2>6. z \in U /\ Lasts(place) = z /\ \A x \in U : x <= z
    BY <2>2, <2>5
  <2> HIDE DEF z
  <2>7. z \in Nat
    BY <1>1, <2>1, <2>6
  <2>8. \E k \in Family(place) : Lasts(place) \in UsedAt(k)
    BY <2>4, <2>6
  <2>9. \A k \in Family(place) : \A p \in UsedAt(k) : p <= Lasts(place)
    BY <2>3, <2>6
  <2> QED BY <1>3, <1>6, <2>6, <2>7, <2>8, <2>9
<1> QED BY <1>5, <1>6

(* Where a place is, in a tensor with memory of its own.                    *)
Base(place) == IF place[2] = -1 THEN Original(Root(place[1])) ELSE place

LEMMA InFamily ==
  ASSUME GraphOK, NEW s \in Tensors
  PROVE  Original(s) \in Family(Original(Root(s)))
<1>1. s \in Nodes \/ Root(s) = s
  BY GraphFacts DEF Root, Tensors
<1>2. CASE Root(s) = s
  BY <1>2 DEF Family
<1>3. CASE Root(s) # s
  BY <1>1, <1>3 DEF Family, Original
<1> QED BY <1>2, <1>3

LEMMA Reads ==
  ASSUME GraphOK, NEW n \in Nodes, NEW j \in Read(n)
  PROVE  j \in DOMAIN Src(n) /\ Src(n)[j] \in Tensors /\ Src(n)[j] < n
<1>1. DOMAIN Src(n) = 1..Len(Src(n)) /\ \A x \in DOMAIN Src(n) : Src(n)[x] \in Tensors /\ Src(n)[x] < n
  BY SourceFacts
<1>2. graph[n].op = "write" => Len(Src(n)) = 2
  BY KindFacts
<1>3. j \in DOMAIN Src(n)
  BY <1>1, <1>2 DEF Read
<1> QED BY <1>1, <1>3

LEMMA ReaderUses ==
  ASSUME Laid, NEW B, Starts(ids, splits, order, B), NEW k \in 1..Len(splits),
         NEW n \in Nodes, Within(splits, k, n), ~IsView(n), NEW j \in Read(n)
  PROVE  NodePos(splits, B, k, n) <= Lasts(Base(places[n][j]))
<1> DEFINE p == NodePos(splits, B, k, n)
           s == Src(n)[j]
<1>1. GraphOK /\ SplitsOK(splits) /\ LinkedAll /\ GoodIds(ids) /\ platform \in Platforms
  BY CutFacts DEF Laid, GraphOK
<1>2. j \in DOMAIN Src(n) /\ s \in Tensors /\ j \in DOMAIN places[n]
  BY <1>1, Reads DEF LinkedAll
<1>3. p \in DOMAIN order /\ order[p] = Entry("node", n, ids[n])
  <2>1. Positioned(ids, splits, order, B, k)
    BY <1>1, Positions
  <2>2. p \in Int /\ InBlock(B, k, p) /\ order[p] = Entry("node", n, ids[n])
    BY <2>1 DEF Positioned
  <2>3. p \in DOMAIN order
    BY <1>1, <2>2, BlocksRanked
  <2> QED BY <2>2, <2>3
<1>4. p \in UsedAt(places[n][j])
  <2>1. places[n][j] \in Range(places[n])
    BY <1>2 DEF Range
  <2> HIDE DEF p
  <2> QED BY <1>3, <2>1 DEF UsedAt, Users, Entry
<1>5. places[n][j] \in Family(Base(places[n][j]))
  <2>1. places[n][j] = <<s, ids[n]>> \/ places[n][j] = Original(s)
    BY <1>1, <1>2 DEF LinkedAll
  <2>2. ids[n] # -1
    <3>1. ids[n] \in Backends
      BY <1>1, GraphFacts DEF GoodIds
    <3> QED BY <1>1, <3>1, MachineFacts
  <2>3. CASE places[n][j] = <<s, ids[n]>>
    BY <2>2, <2>3 DEF Base, Family
  <2>4. CASE places[n][j] = Original(s)
    BY <1>1, <1>2, <2>4, InFamily DEF Base, Original
  <2> QED BY <2>1, <2>3, <2>4
<1> HIDE DEF p
<1>6. p <= Lasts(Base(places[n][j]))
  BY <1>4, <1>5, LastsAre
<1> QED BY <1>6 DEF p

LEMMA CopyUses ==
  ASSUME Laid, NEW B, Starts(ids, splits, order, B), NEW k \in 1..Len(splits),
         NEW i \in 1..Len(splits[k].inputs)
  PROVE  CopyPos(B, k, i) - 1 <= Lasts(Original(Root(splits[k].inputs[i])))
<1> DEFINE p == CopyPos(B, k, i) - 1
           s == splits[k].inputs[i]
<1>1. GraphOK /\ SplitsOK(splits) /\ s \in Tensors
  BY CutFacts, SplitFacts DEF Laid
<1>2. p \in DOMAIN order /\ order[p] = Entry("dep", s, ids[s])
  <2>1. Positioned(ids, splits, order, B, k)
    BY <1>1, Positions
  <2>2. p \in Int /\ InBlock(B, k, p) /\ order[p] = Entry("dep", s, ids[s])
    BY <2>1 DEF Positioned
  <2>3. p \in DOMAIN order
    BY <1>1, <2>2, BlocksRanked
  <2> QED BY <2>2, <2>3
<1> HIDE DEF p, s
<1>3. p \in UsedAt(Original(s))
  BY <1>2 DEF UsedAt, Users, Entry
<1>4. p <= Lasts(Original(Root(s)))
  BY <1>1, <1>3, InFamily, LastsAre
<1> QED BY <1>4 DEF p, s

(* Nothing but the copies uses a copy, and nobody uses the last node.       *)
LEMMA UserIs ==
  ASSUME Laid, NEW B, Starts(ids, splits, order, B), NEW place, NEW p \in UsedAt(place)
  PROVE  \/ \E k \in 1..Len(splits) : \E i \in 1..Len(splits[k].inputs) :
              /\ p = CopyPos(B, k, i) - 1 /\ InBlock(B, k, p)
              /\ place = Original(splits[k].inputs[i])
         \/ \E k \in 1..Len(splits) : \E m \in Nodes :
              /\ Within(splits, k, m) /\ p = NodePos(splits, B, k, m)
              /\ place \in Range(places[m])
<1>1. p \in DOMAIN order
  BY DEF UsedAt, Users
<1>2. \/ order[p].kind = "dep" /\ Original(order[p].tensor) = place
      \/ order[p].kind = "node" /\ place \in Range(places[order[p].tensor])
  BY DEF UsedAt, Users
<1> QED BY <1>1, <1>2, EntryIs DEF Entry

LEMMA PlaceIs ==
  ASSUME Laid, NEW m \in Nodes, NEW place \in Range(places[m])
  PROVE  \E s \in Range(Src(m)) :
           \/ place = Original(s)
           \/ place = <<s, ids[m]>> /\ CopiedBy(splits, <<s, ids[m]>>, m)
<1>1. LinkedAll
  BY CutFacts DEF Laid
<1>2. PICK q \in DOMAIN places[m] : place = places[m][q]
  BY DEF Range
<1>3. q \in DOMAIN Src(m)
  BY <1>1, <1>2 DEF LinkedAll
<1>4. Src(m)[q] \in Range(Src(m))
  BY <1>3 DEF Range
<1> QED BY <1>1, <1>2, <1>3, <1>4 DEF LinkedAll

LEMMA ResultLasts ==
  ASSUME Laid
  PROVE  Lasts(Original(Root(Len(graph)))) = Len(order) + 1
<1> DEFINE N == Len(graph)
<1>1. GraphOK /\ SplitsOK(splits) /\ GoodIds(ids) /\ platform \in Platforms
  BY CutFacts DEF Laid, GraphOK
<1>2. N \in Nat \ {0} /\ Nodes = 1..N /\ Nodes \subseteq Tensors
  BY <1>1, GraphFacts
<1>3. PICK B : Starts(ids, splits, order, B)
  BY DEF Laid
<1>4. ASSUME NEW p \in UsedAt(Original(N))
      PROVE  FALSE
  <2>1. CASE \E k \in 1..Len(splits) : \E i \in 1..Len(splits[k].inputs) :
               Original(N) = Original(splits[k].inputs[i])
    <3>1. PICK k \in 1..Len(splits) : \E i \in 1..Len(splits[k].inputs) :
               Original(N) = Original(splits[k].inputs[i])
      BY <2>1
    <3>2. PICK i \in 1..Len(splits[k].inputs) : Original(N) = Original(splits[k].inputs[i])
      BY <3>1
    <3>3. splits[k].inputs[i] < N
      BY CopiedRoot DEF Laid
    <3> QED BY <1>2, <3>2, <3>3 DEF Original
  <2>2. CASE \E m \in Nodes : Original(N) \in Range(places[m])
    <3>1. PICK m \in Nodes : Original(N) \in Range(places[m])
      BY <2>2
    <3>2. PICK s \in Range(Src(m)) : Original(N) = Original(s) \/ Original(N) = <<s, ids[m]>>
      BY <3>1, PlaceIs
    <3>3. s < m /\ N = s
      BY <1>1, <3>2, SourceFacts DEF Range, Original
    <3> QED BY <1>2, <3>3
  <2> QED BY <1>3, <2>1, <2>2, UserIs
<1>5. Original(N) \in Family(Original(Root(N)))
  BY <1>1, <1>2, InFamily
<1> QED BY <1>4, <1>5, LastsAre

(* A tensor keeps its place for longer than it takes to compute it.         *)
LEMMA NodeLasts ==
  ASSUME Laid, NEW B, Starts(ids, splits, order, B), NEW k \in 1..Len(splits),
         NEW n \in Nodes, Within(splits, k, n), Root(n) = n
  PROVE  NodePos(splits, B, k, n) < Lasts(Original(n))
<1> DEFINE r == NodePos(splits, B, k, n)
<1>1. GraphOK /\ SplitsOK(splits) /\ GoodIds(ids) /\ platform \in Platforms
  BY CutFacts DEF Laid, GraphOK
<1>2. r \in Int /\ InBlock(B, k, r) /\ r \in DOMAIN order /\ DOMAIN order = 1..Len(order)
      /\ Len(order) \in Nat
  <2>1. Positioned(ids, splits, order, B, k)
    BY <1>1, Positions
  <2>2. r \in Int /\ InBlock(B, k, r)
    BY <2>1 DEF Positioned
  <2>3. r \in DOMAIN order
    BY <1>1, <2>2, BlocksRanked
  <2> QED BY <2>2, <2>3, OrderHasNodes
<1>3. ASSUME NEW v \in Nodes, Root(v) = n, NEW p \in UsedAt(Original(v))
      PROVE  r < p
  <2>1. CASE \E l \in 1..Len(splits) : \E i \in 1..Len(splits[l].inputs) :
               p = CopyPos(B, l, i) - 1 /\ Original(v) = Original(splits[l].inputs[i])
    <3>1. PICK l \in 1..Len(splits) : \E i \in 1..Len(splits[l].inputs) :
               p = CopyPos(B, l, i) - 1 /\ Original(v) = Original(splits[l].inputs[i])
      BY <2>1
    <3>2. PICK i \in 1..Len(splits[l].inputs) :
               p = CopyPos(B, l, i) - 1 /\ Original(v) = Original(splits[l].inputs[i])
      BY <3>1
    <3>3. v = splits[l].inputs[i]
      BY <3>2 DEF Original
    <3>4. n < splits[l].first
      BY <1>3, <3>3, CopiedRoot DEF Laid
    <3>5. splits[l].first \in Nat /\ n \in Nat /\ Len(splits) \in Nat
      BY <1>1, SplitFacts, GraphFacts
    <3>6. ~(l <= k)
      BY <1>1, <3>4, <3>5, SplitOfNode
    <3> HIDE DEF r
    <3> QED BY <3>2, <3>5, <3>6, CopyBeforeNode DEF r
  <2>2. CASE \E l \in 1..Len(splits) : \E m \in Nodes :
               Within(splits, l, m) /\ p = NodePos(splits, B, l, m) /\ Original(v) \in Range(places[m])
    <3>1. PICK l \in 1..Len(splits), m \in Nodes :
               Within(splits, l, m) /\ p = NodePos(splits, B, l, m) /\ Original(v) \in Range(places[m])
      BY <2>2
    <3>2. PICK s \in Range(Src(m)) : Original(v) = Original(s) \/ Original(v) = <<s, ids[m]>>
      BY <3>1, PlaceIs
    <3>3. v < m /\ v \in Tensors
      BY <1>1, <1>3, <3>2, SourceFacts, GraphFacts DEF Range, Original
    <3>4. n <= v
      BY <1>1, <1>3, <3>3, RootFacts
    <3>5. n \in Nat /\ v \in Nat /\ m \in Nat
      BY <1>1, GraphFacts
    <3>6. n < m
      BY <3>3, <3>4, <3>5
    <3> QED BY <3>1, <3>6, NodesInOrder
  <2> QED BY <2>1, <2>2, UserIs
<1>4. \A f \in Family(Original(n)) : \E v \in Nodes : Root(v) = n /\ f = Original(v)
  BY DEF Family, Original
<1> HIDE DEF r
<1>5. CASE Lasts(Original(n)) = Len(order) + 1
  <2>1. r < Lasts(Original(n))
    BY <1>2, <1>5
  <2> QED BY <2>1 DEF r
<1>6. CASE \E f \in Family(Original(n)) : Lasts(Original(n)) \in UsedAt(f)
  <2>1. r < Lasts(Original(n))
    BY <1>3, <1>4, <1>6
  <2> QED BY <2>1 DEF r
<1> QED BY <1>5, <1>6, LastsAre

LEMMA CopyLasts ==
  ASSUME Laid, NEW B, Starts(ids, splits, order, B), NEW k \in 1..Len(splits),
         NEW i \in 1..Len(splits[k].inputs)
  PROVE  CopyPos(B, k, i) < Lasts(<<splits[k].inputs[i], splits[k].backend>>)
<1> DEFINE r == CopyPos(B, k, i)
           s == splits[k].inputs[i]
           b == splits[k].backend
           q == <<s, b>>
<1>1. GraphOK /\ SplitsOK(splits) /\ Once(splits) /\ platform \in Platforms
  BY CutFacts DEF Laid, GraphOK
<1>2. r \in DOMAIN order /\ DOMAIN order = 1..Len(order) /\ Len(order) \in Nat
  BY PositionCopy, OrderHasNodes
<1>3. b \in Backends /\ b # -1
  BY <1>1, SplitFacts, MachineFacts
<1>4. DOMAIN splits = 1..Len(splits) /\ \A j \in 1..Len(splits) : DOMAIN splits[j].inputs = 1..Len(splits[j].inputs)
  BY <1>1, SplitFacts
<1>5. Family(q) = {q}
  BY <1>3 DEF Family
<1> HIDE DEF r, s, b
<1>6. ASSUME NEW p \in UsedAt(q)
      PROVE  r < p
  <2>1. ~\E l \in 1..Len(splits) : \E h \in 1..Len(splits[l].inputs) : q = Original(splits[l].inputs[h])
    BY <1>3 DEF Original
  <2>2. PICK l \in 1..Len(splits), m \in Nodes :
          Within(splits, l, m) /\ p = NodePos(splits, B, l, m) /\ q \in Range(places[m])
    BY <2>1, UserIs
  <2>3. CopiedBy(splits, q, m)
    <3>1. PICK t \in Range(Src(m)) :
            q = Original(t) \/ (q = <<t, ids[m]>> /\ CopiedBy(splits, <<t, ids[m]>>, m))
      BY <2>2, PlaceIs
    <3> QED BY <1>3, <3>1 DEF Original
  <2>4. splits[k].first <= m
    <3>1. PICK j \in DOMAIN splits : splits[j].first <= m /\ splits[j].backend = b
                                     /\ \E h \in DOMAIN splits[j].inputs : splits[j].inputs[h] = s
      BY <2>3 DEF CopiedBy
    <3>2. j = k
      BY <1>1, <1>4, <3>1 DEF Once, s, b
    <3> QED BY <3>1, <3>2
  <2>5. k <= l
    BY <1>1, <2>2, <2>4, SplitOfNode
  <2> QED BY <2>2, <2>5, CopyBeforeNode DEF r
<1>7. r < Lasts(q)
  <2>1. Lasts(q) = Len(order) + 1 \/ Lasts(q) \in UsedAt(q)
    BY <1>5, LastsAre
  <2> HIDE DEF q
  <2> QED BY <1>2, <1>6, <2>1
<1> QED BY <1>7 DEF r, s, b

-----------------------------------------------------------------------------
(* What has been computed of a graph, and what is still to be read.  What a *)
(* backend drops when it fails counts as computed.                          *)
Issued(n)  == \E j \in 1..Len(splits) : j < split /\ Within(splits, j, n)
Waiting(n) == \E b \in Backends : n \in Range(queue[b])
Ran(n)     == Issued(n) /\ ~Waiting(n)
ToCome(n)  == Waiting(n) \/ (status = "success" /\ ~Issued(n))

Copy(k, i) == <<splits[k].inputs[i], splits[k].backend>>
Made(q) ==
  \/ \E t \in Inputs : q = Original(t)
  \/ \E n \in Nodes : Root(n) = n /\ q = Original(n) /\ Ran(n)
  \/ \E k \in 1..Len(splits) : \E i \in 1..Len(splits[k].inputs) : q = Copy(k, i) /\ CopyDone(k, i)

ReadBy(q, n) == ~IsView(n) /\ ToCome(n) /\ \E j \in Read(n) : Base(places[n][j]) = q
CopiedTo(q, k, i) ==
  status = "success" /\ ~CopyDone(k, i) /\ q = Original(Root(splits[k].inputs[i]))
Returns(q) == status = "success" /\ q = Original(Root(Len(graph)))

MemoryIs ==
  DOMAIN memory = {Original(t) : t \in Leaves} \union
                  {PlaceAt(order, p) : p \in {r \in DOMAIN order : Owns(order, r)}}

Running == Steady /\ Queues /\ pc = "compute"

LEMMA RunningFacts ==
  ASSUME Running
  PROVE  /\ Laid /\ IsCut /\ Reserving /\ GraphOK /\ GoodIds(ids) /\ SplitsOK(splits) /\ HomesAll
         /\ platform \in Platforms /\ Counters
         /\ \A b \in Backends : /\ Queued(b) /\ Rest(b) /\ InTurn(b) /\ AfterCopies(b)
                                /\ queue[b] \in Seq(Nat) /\ Ascending(queue[b])
         /\ Len(splits) \in Nat \ {0} /\ split \in 1..Len(splits) + 1 /\ input \in Nat
         /\ \A k \in 1..Len(splits) : splits[k].backend \in Backends
<1>1. Laid /\ IsCut /\ Reserving
  BY DEF Running, Steady, Laid
<1>2. GraphOK /\ GoodIds(ids) /\ SplitsOK(splits) /\ HomesAll /\ platform \in Platforms
  BY <1>1, CutFacts DEF GraphOK
<1>3. Counters /\ \A b \in Backends : /\ Queued(b) /\ Rest(b) /\ InTurn(b) /\ AfterCopies(b)
                                      /\ queue[b] \in Seq(Nat) /\ Ascending(queue[b])
  BY DEF Running, Queues
<1> QED BY <1>1, <1>2, <1>3, SplitFacts DEF Counters

LEMMA IssuedSplit ==
  ASSUME Running, NEW n \in Nodes, NEW k \in 1..Len(splits), Within(splits, k, n)
  PROVE  Issued(n) <=> k < split
BY RunningFacts, SplitOfNode DEF Issued

LEMMA QueuedFacts ==
  ASSUME Running, NEW b \in Backends, NEW n \in Range(queue[b])
  PROVE  /\ n \in Nodes /\ Issued(n) /\ Waiting(n) /\ queue[b] # <<>>
         /\ \E k \in 1..Len(splits) : k < split /\ splits[k].backend = b /\ Within(splits, k, n)
         /\ ~IsView(n) => ids[n] = b
<1>1. Queued(b) /\ HomesAll
  BY RunningFacts
<1>2. queue[b] # <<>>
  BY DEF Range
<1> QED BY <1>1, <1>2 DEF Queued, Issued, Waiting, HomesAll

(* Two backends that can use the same memory do not compute at once.        *)
LEMMA Apart ==
  ASSUME Running, NEW b \in Backends, NEW c \in Backends, b # c,
         NEW x, x \in Uses(b), x \in Uses(c), queue[b] # <<>>
  PROVE  /\ queue[c] = <<>> /\ b \notin platform.async /\ c \notin platform.async
         /\ split > 1 /\ input = 1 /\ status = "success" /\ splits[split - 1].backend = b
         /\ \A n \in Range(queue[b]) : Within(splits, split - 1, n)
<1>1. b \notin platform.async /\ c \notin platform.async
  BY RunningFacts, MachineFacts
<1>2. InTurn(b) /\ InTurn(c)
  BY RunningFacts
<1> QED BY <1>1, <1>2 DEF InTurn

LEMMA MemoryPlaces ==
  ASSUME Laid, MemoryIs
  PROVE  /\ \A t \in Leaves : Original(t) \in DOMAIN memory
         /\ \A t \in Inputs : Original(t) \in DOMAIN memory /\ ~InBuffer(Original(t))
         /\ \A n \in Nodes : Root(n) = n => Original(n) \in DOMAIN memory /\ ~InBuffer(Original(n))
         /\ \A k \in 1..Len(splits) : \A i \in 1..Len(splits[k].inputs) :
              Copy(k, i) \in DOMAIN memory /\ ~InBuffer(Copy(k, i))
<1>1. GraphOK /\ SplitsOK(splits) /\ platform \in Platforms
  BY CutFacts DEF Laid, GraphOK
<1>2. PICK B : Starts(ids, splits, order, B)
  BY DEF Laid
<1>3. \A t \in Inputs : t \in Leaves /\ t \notin DOMAIN Buffer
  BY SchedConstants
<1>4. ASSUME NEW n \in Nodes, Root(n) = n
      PROVE  Original(n) \in DOMAIN memory /\ ~InBuffer(Original(n))
  <2>1. PICK k \in 1..Len(splits) : Within(splits, k, n)
    BY <1>1, SplitOfNode
  <2> DEFINE p == NodePos(splits, B, k, n)
  <2>2. p \in DOMAIN order /\ Owns(order, p) /\ PlaceAt(order, p) = Original(n)
    BY <1>2, <1>4, <2>1, PositionNode
  <2> HIDE DEF p
  <2>3. n \notin DOMAIN Buffer
    BY <1>1, GraphFacts, SchedConstants
  <2> QED BY <2>2, <2>3 DEF MemoryIs, InBuffer, Original
<1>5. ASSUME NEW k \in 1..Len(splits), NEW i \in 1..Len(splits[k].inputs)
      PROVE  Copy(k, i) \in DOMAIN memory /\ ~InBuffer(Copy(k, i))
  <2> DEFINE p == CopyPos(B, k, i)
  <2>1. p \in DOMAIN order /\ Owns(order, p) /\ PlaceAt(order, p) = Copy(k, i)
    BY <1>2, PositionCopy DEF Copy
  <2> HIDE DEF p
  <2>2. splits[k].backend # -1
    BY <1>1, SplitFacts, MachineFacts
  <2> QED BY <2>1, <2>2 DEF MemoryIs, InBuffer, Copy
<1> QED BY <1>3, <1>4, <1>5 DEF MemoryIs, InBuffer, Original

(* Memory that is still to be read is that of a backend that can use it.    *)
LEMMA ReaderReaches ==
  ASSUME Running, NEW q, ~InBuffer(q), NEW m \in Nodes, ReadBy(q, m)
  PROVE  ids[m] \in Backends /\ PlaceOf(q).buft \in Uses(ids[m])
<1>1. PICK j \in Read(m) : Base(places[m][j]) = q
  BY DEF ReadBy
<1>2. Laid /\ Reserving /\ GraphOK /\ LinkedAll /\ ~IsView(m)
  BY RunningFacts, CutFacts DEF ReadBy
<1>3. j \in DOMAIN places[m]
  BY <1>2, Reads DEF LinkedAll
<1>4. places[m][j] \in Range(places[m])
  BY <1>3 DEF Range
<1>5. ids[m] \in Backends /\ BuftOf(places[m][j]) \in Uses(ids[m])
  BY <1>2, <1>4, ReadsReach
<1>6. BuftOf(places[m][j]) = PlaceOf(q).buft
  BY <1>1 DEF BuftOf, Base
<1> QED BY <1>5, <1>6

(* Whether two places overlap, in positions of this order.                  *)
LEMMA Overlaps ==
  ASSUME Laid, Reserving, PlacesServe, MemoryIs, pc = "compute",
         NEW q \in DOMAIN memory, NEW r \in DOMAIN memory, ~InBuffer(q), ~InBuffer(r),
         Made(q), \/ \E n \in Nodes : Root(n) = n /\ r = Original(n)
                  \/ \E k \in 1..Len(splits) : \E i \in 1..Len(splits[k].inputs) : r = Copy(k, i),
         MayOverlap(q, r)
  PROVE  /\ PlaceOf(q).buft = PlaceOf(r).buft
         /\ Lasts(q) <= PositionOf(r) \/ Lasts(r) <= PositionOf(q)
<1> DEFINE Known(x) == \/ \E t \in Inputs : x = Original(t)
                       \/ \E n \in Nodes : Root(n) = n /\ x = Original(n)
                       \/ \E k \in 1..Len(splits) : \E i \in 1..Len(splits[k].inputs) : x = Copy(k, i)
<1>1. PICK B : Starts(ids, splits, order, B)
  BY DEF Laid
<1>2. GraphOK /\ SplitsOK(splits) /\ DOMAIN order = 1..Len(order) /\ Len(order) \in Nat /\ order # <<>>
  BY CutFacts, OrderHasNodes DEF Laid
<1>3. ASSUME NEW x, Known(x)
      PROVE  PositionOf(x) \in Nat /\ PlaceOf(x).last \in Nat
  <2>1. CASE \E t \in Inputs : x = Original(t)
    BY <1>2, <2>1, PositionInput DEF PlaceOf, Original, Reserving
  <2>2. CASE \E n \in Nodes : Root(n) = n /\ x = Original(n)
    <3>1. PICK n \in Nodes : Root(n) = n /\ x = Original(n)
      BY <2>2
    <3>2. PICK k \in 1..Len(splits) : Within(splits, k, n)
      BY <1>2, SplitOfNode
    <3>3. PositionOf(x) \in DOMAIN order
      BY <1>1, <3>1, <3>2, PositionNode
    <3> QED BY <1>2, <3>3 DEF PlaceOf, Reserving
  <2>3. CASE \E k \in 1..Len(splits) : \E i \in 1..Len(splits[k].inputs) : x = Copy(k, i)
    <3>0. PICK k \in 1..Len(splits) : \E i \in 1..Len(splits[k].inputs) : x = Copy(k, i)
      BY <2>3
    <3>1. PICK i \in 1..Len(splits[k].inputs) : x = Copy(k, i)
      BY <3>0
    <3>2. PositionOf(Copy(k, i)) = CopyPos(B, k, i) /\ CopyPos(B, k, i) \in DOMAIN order
      BY <1>1, PositionCopy DEF Copy
    <3>3. PositionOf(x) \in DOMAIN order
      BY <3>1, <3>2
    <3> QED BY <1>2, <3>3 DEF PlaceOf, Reserving
  <2> QED BY <1>3, <2>1, <2>2, <2>3
<1>4. Known(q) /\ Known(r)
  BY DEF Made
<1> HIDE DEF Known
<1>5. /\ PositionOf(q) \in Nat /\ PositionOf(r) \in Nat
      /\ PlaceOf(q).last \in Nat /\ PlaceOf(r).last \in Nat
  BY <1>3, <1>4
<1>6. PlaceOf(q).last >= Lasts(q) /\ PlaceOf(r).last >= Lasts(r)
  BY DEF PlacesServe, Lasts
<1>7. Lasts(q) \in Nat /\ Lasts(r) \in Nat
  BY LastsAre
<1> QED BY <1>5, <1>6, <1>7 DEF MayOverlap

-----------------------------------------------------------------------------
(* What a node writes is not what somebody has still to read.               *)
LEMMA MadeBuffers ==
  ASSUME Running, NEW B, Starts(ids, splits, order, B), NEW q, Made(q)
  PROVE  \/ PositionOf(q) = 0
         \/ \E m \in Nodes : \E l \in 1..Len(splits) :
              /\ Root(m) = m /\ q = Original(m) /\ Ran(m) /\ Within(splits, l, m) /\ l < split
              /\ PositionOf(q) = NodePos(splits, B, l, m) /\ PlaceOf(q).buft = Buft(splits[l].backend)
         \/ \E k \in 1..Len(splits) : \E i \in 1..Len(splits[k].inputs) :
              /\ q = Copy(k, i) /\ CopyDone(k, i) /\ PositionOf(q) = CopyPos(B, k, i)
              /\ PlaceOf(q).buft = Buft(splits[k].backend)
<1>1. Laid /\ Reserving /\ GraphOK /\ SplitsOK(splits) /\ HomesAll
  BY RunningFacts
<1>2. CASE \E t \in Inputs : q = Original(t)
  BY <1>2, PositionInput
<1>3. CASE \E m \in Nodes : Root(m) = m /\ q = Original(m) /\ Ran(m)
  <2>1. PICK m \in Nodes : Root(m) = m /\ q = Original(m) /\ Ran(m)
    BY <1>3
  <2>2. PICK l \in 1..Len(splits) : Within(splits, l, m)
    BY <1>1, SplitOfNode
  <2>3. l < split
    BY <2>1, <2>2, IssuedSplit DEF Ran
  <2>4. PositionOf(q) = NodePos(splits, B, l, m)
    BY <1>1, <2>1, <2>2, PositionNode
  <2>5. m \in Tensors /\ ~IsView(Root(m))
    BY <1>1, GraphFacts, RootFacts
  <2>6. ids[m] = splits[l].backend
    BY <1>1, <2>1, <2>2, <2>5 DEF HomesAll
  <2>7. PlaceOf(q).buft = Buft(splits[l].backend)
    BY <1>1, <2>1, <2>6, PlaceTypes
  <2> QED BY <2>1, <2>2, <2>3, <2>4, <2>7
<1>4. CASE \E k \in 1..Len(splits) : \E i \in 1..Len(splits[k].inputs) : q = Copy(k, i) /\ CopyDone(k, i)
  <2>1. PICK k \in 1..Len(splits) : \E i \in 1..Len(splits[k].inputs) : q = Copy(k, i) /\ CopyDone(k, i)
    BY <1>4
  <2>2. PICK i \in 1..Len(splits[k].inputs) : q = Copy(k, i) /\ CopyDone(k, i)
    BY <2>1
  <2>3. PositionOf(Copy(k, i)) = CopyPos(B, k, i)
    BY <1>1, PositionCopy DEF Copy
  <2>4. PlaceOf(Copy(k, i)).buft = Buft(splits[k].backend)
    BY <1>1, PlaceTypes DEF Copy
  <2> QED BY <2>2, <2>3, <2>4
<1> QED BY <1>2, <1>3, <1>4 DEF Made

LEMMA NodeClash ==
  ASSUME Running, PlacesServe, MemoryIs, NEW c \in Backends, queue[c] # <<>>,
         NEW n \in Nodes, n = Head(queue[c]), Root(n) = n, ~IsView(n),
         NEW q \in DOMAIN memory, ~InBuffer(q), q # Original(n), Made(q),
         \/ \E m \in Nodes \ {n} : ReadBy(q, m)
         \/ \E k \in 1..Len(splits) : \E i \in 1..Len(splits[k].inputs) : CopiedTo(q, k, i)
         \/ Returns(q)
  PROVE  ~MayOverlap(q, Original(n))
<1> SUFFICES ASSUME MayOverlap(q, Original(n)) PROVE FALSE
  OBVIOUS
<1> DEFINE P == Original(n)
<1>1. /\ Laid /\ Reserving /\ GraphOK /\ SplitsOK(splits) /\ platform \in Platforms /\ HomesAll
      /\ Len(splits) \in Nat /\ split \in Nat /\ input \in Nat
      /\ \A k \in 1..Len(splits) : splits[k].backend \in Backends
  BY RunningFacts
<1>2. PICK B : Starts(ids, splits, order, B)
  BY <1>1 DEF Laid
<1>3. n \in Range(queue[c]) /\ \A x \in Range(queue[c]) : n <= x
  BY RunningFacts, TailAscends
<1>4. PICK k \in 1..Len(splits) : k < split /\ splits[k].backend = c /\ Within(splits, k, n)
  BY <1>3, QueuedFacts
<1>5. ids[n] = c
  BY <1>3, QueuedFacts
<1>6. /\ PositionOf(P) = NodePos(splits, B, k, n) /\ PositionOf(P) \in DOMAIN order
      /\ DOMAIN order = 1..Len(order) /\ Len(order) \in Nat
  BY <1>1, <1>2, <1>4, PositionNode, OrderHasNodes
<1>7. P \in DOMAIN memory /\ ~InBuffer(P)
  BY <1>1, MemoryPlaces
<1>8. /\ PlaceOf(q).buft = PlaceOf(P).buft
      /\ Lasts(q) <= PositionOf(P) \/ Lasts(P) <= PositionOf(q)
  BY <1>1, <1>7, Overlaps DEF Running
<1>9. PlaceOf(q).buft = Buft(c) /\ Buft(c) \in Uses(c)
  BY <1>1, <1>5, <1>8, PlaceTypes, MachineFacts
<1>10. \A x \in Nodes : x \in Nat
  BY <1>1, GraphFacts
<1>11. PositionOf(P) \in Nat /\ Lasts(q) \in Nat /\ Lasts(P) \in Nat
  BY <1>1, <1>6, LastsAre
<1> HIDE DEF P
<1>12. CASE Lasts(q) <= PositionOf(P)
  <2>1. ASSUME NEW m \in Nodes \ {n}, ReadBy(q, m)
        PROVE  FALSE
    <3>1. PICK l \in 1..Len(splits) : Within(splits, l, m)
      BY <1>1, SplitOfNode
    <3>2. PICK j \in Read(m) : Base(places[m][j]) = q
      BY <2>1 DEF ReadBy
    <3>3. ~IsView(m) /\ ToCome(m)
      BY <2>1 DEF ReadBy
    <3>4. NodePos(splits, B, l, m) <= Lasts(q)
      BY <1>1, <1>2, <3>1, <3>2, <3>3, ReaderUses
    <3>5. ~(n < m)
      <4>1. n < m => NodePos(splits, B, k, n) < NodePos(splits, B, l, m)
        BY <1>1, <1>2, <1>4, <3>1, NodesInOrder
      <4>2. NodePos(splits, B, l, m) \in Int
        <5>1. Positioned(ids, splits, order, B, l)
          BY <1>1, <1>2, Positions
        <5> QED BY <3>1, <5>1 DEF Positioned
      <4> QED BY <1>6, <1>11, <1>12, <3>4, <4>1, <4>2
    <3>6. m < n
      BY <1>10, <3>5
    <3>7. l <= k
      BY <1>1, <1>4, <3>1, <3>6, <1>10, SplitOfNode
    <3>8. Waiting(m)
      <4>1. l < split
        BY <1>1, <1>4, <3>7
      <4> QED BY <3>1, <3>3, <4>1, IssuedSplit DEF ToCome
    <3>9. PICK d \in Backends : m \in Range(queue[d])
      BY <3>8 DEF Waiting
    <3>10. d # c
      BY <1>3, <1>10, <3>6, <3>9
    <3>11. ids[m] = d
      BY <3>3, <3>9, QueuedFacts
    <3>12. Buft(c) \in Uses(d)
      BY <1>9, <2>1, <3>11, ReaderReaches
    <3>13. queue[d] = <<>>
      BY <1>9, <3>10, <3>12, Apart
    <3> QED BY <3>9, <3>13, QueuedFacts
  <2>2. ASSUME NEW l \in 1..Len(splits), NEW i \in 1..Len(splits[l].inputs), CopiedTo(q, l, i)
        PROVE  FALSE
    <3>1. CopyPos(B, l, i) - 1 <= Lasts(q) /\ ~CopyDone(l, i)
      BY <1>1, <1>2, <2>2, CopyUses DEF CopiedTo
    <3>2. ~(l < split)
      BY <3>1 DEF CopyDone
    <3>3. k < l
      BY <1>1, <1>4, <3>2
    <3>4. NodePos(splits, B, k, n) < CopyPos(B, l, i) - 1
      BY <1>1, <1>2, <1>4, <3>3, CopyBeforeNode
    <3>5. CopyPos(B, l, i) \in Int
      <4>1. Positioned(ids, splits, order, B, l)
        BY <1>1, <1>2, Positions
      <4> QED BY <4>1 DEF Positioned
    <3> QED BY <1>6, <1>11, <1>12, <3>1, <3>4, <3>5
  <2>3. ASSUME Returns(q)
        PROVE  FALSE
    <3>1. Lasts(q) = Len(order) + 1
      BY <1>1, <2>3, ResultLasts DEF Returns
    <3> QED BY <1>6, <1>12, <3>1
  <2> QED BY <2>1, <2>2, <2>3
<1>13. CASE Lasts(P) <= PositionOf(q)
  <2>1. NodePos(splits, B, k, n) < Lasts(P)
    BY <1>1, <1>2, <1>4, NodeLasts DEF P
  <2>2. ASSUME PositionOf(q) = 0
        PROVE  FALSE
    BY <1>6, <1>11, <1>13, <2>1, <2>2
  <2>3. ASSUME NEW m \in Nodes, NEW l \in 1..Len(splits), q = Original(m), Ran(m), Within(splits, l, m),
               l < split, Root(m) = m,
               PositionOf(q) = NodePos(splits, B, l, m), PlaceOf(q).buft = Buft(splits[l].backend)
        PROVE  FALSE
    <3>1. NodePos(splits, B, l, m) \in Int
      <4>1. Positioned(ids, splits, order, B, l)
        BY <1>1, <1>2, Positions
      <4> QED BY <2>3, <4>1 DEF Positioned
    <3>2. NodePos(splits, B, k, n) < NodePos(splits, B, l, m)
      BY <1>6, <1>11, <1>13, <2>1, <2>3, <3>1
    <3>3. ~(m < n)
      <4>1. m < n => NodePos(splits, B, l, m) < NodePos(splits, B, k, n)
        BY <1>1, <1>2, <1>4, <2>3, NodesInOrder
      <4> QED BY <1>6, <1>11, <3>1, <3>2, <4>1
    <3>4. n < m
      <4>1. m # n
        BY <2>3
      <4> QED BY <1>10, <3>3, <4>1
    <3> DEFINE d == splits[l].backend
    <3>5. d \in Backends /\ Buft(d) \in Uses(d)
      BY <1>1, MachineFacts
    <3>6. CASE d = c
      <4>1. m \in Range(queue[c])
        BY <1>3, <2>3, <3>4, <3>6, RunningFacts DEF Rest
      <4> QED BY <2>3, <4>1 DEF Ran, Waiting
    <3>7. CASE d # c
      <4>1. Buft(c) \in Uses(d)
        BY <1>9, <2>3, <3>5
      <4> HIDE DEF d
      <4>2. /\ split > 1 /\ splits[split - 1].backend = c
            /\ Within(splits, split - 1, n)
        BY <1>3, <1>9, <3>5, <3>7, <4>1, Apart
      <4>3. split - 1 \in 1..Len(splits)
        BY <1>1, <4>2, RunningFacts, SMTT(60)
      <4>4. k = split - 1
        BY <1>1, <1>4, <4>2, <4>3, SplitOfNode
      <4>5. k <= l
        BY <1>1, <1>4, <1>10, <2>3, <3>4, SplitOfNode
      <4>6. l = split - 1
        BY <1>1, <2>3, <4>3, <4>4, <4>5
      <4> QED BY <3>7, <4>2, <4>6 DEF d
    <3> QED BY <3>6, <3>7
  <2>4. ASSUME NEW l \in 1..Len(splits), NEW i \in 1..Len(splits[l].inputs), q = Copy(l, i),
               CopyDone(l, i), PositionOf(q) = CopyPos(B, l, i), PlaceOf(q).buft = Buft(splits[l].backend)
        PROVE  FALSE
    <3>1. CopyPos(B, l, i) \in Int
      <4>1. Positioned(ids, splits, order, B, l)
        BY <1>1, <1>2, Positions
      <4> QED BY <4>1 DEF Positioned
    <3>2. NodePos(splits, B, k, n) < CopyPos(B, l, i)
      BY <1>6, <1>11, <1>13, <2>1, <2>4, <3>1
    <3>3. ~(l <= k)
      <4>1. l <= k => CopyPos(B, l, i) < NodePos(splits, B, k, n)
        BY <1>1, <1>2, <1>4, CopyBeforeNode
      <4> QED BY <1>6, <1>11, <3>1, <3>2, <4>1
    <3> DEFINE d == splits[l].backend
    <3>4. d \in Backends /\ Buft(d) \in Uses(d)
      BY <1>1, MachineFacts
    <3>5. CASE d = c
      <4>1. splits[l].first <= n
        BY <1>3, <2>4, <3>5, RunningFacts DEF AfterCopies
      <4> QED BY <1>1, <1>4, <3>3, <4>1, SplitOfNode
    <3>6. CASE d # c
      <4>1. Buft(c) \in Uses(d)
        BY <1>9, <2>4, <3>4
      <4> HIDE DEF d
      <4>2. split > 1 /\ input = 1 /\ Within(splits, split - 1, n)
        BY <1>3, <1>9, <3>4, <3>6, <4>1, Apart
      <4>3. split - 1 \in 1..Len(splits)
        BY <1>1, <4>2, RunningFacts, SMTT(60)
      <4>4. k = split - 1
        BY <1>1, <1>4, <4>2, <4>3, SplitOfNode
      <4>5. l < split
        BY <2>4, <4>2 DEF CopyDone
      <4> QED BY <1>1, <3>3, <4>4, <4>5
    <3> QED BY <3>5, <3>6
  <2> QED BY <1>2, <2>2, <2>3, <2>4, MadeBuffers
<1> QED BY <1>8, <1>12, <1>13

LEMMA CopyClash ==
  ASSUME Running, PlacesServe, MemoryIs, Returned, NEW k \in 1..Len(splits), k = split,
         NEW i \in 1..Len(splits[k].inputs), i = input, queue[splits[k].backend] = <<>>,
         NEW q \in DOMAIN memory, ~InBuffer(q), q # Copy(k, i), Made(q),
         \/ \E m \in Nodes : ReadBy(q, m)
         \/ \E l \in 1..Len(splits) : \E h \in 1..Len(splits[l].inputs) :
              (l # k \/ h # i) /\ CopiedTo(q, l, h)
         \/ Returns(q)
  PROVE  ~MayOverlap(q, Copy(k, i))
<1> SUFFICES ASSUME MayOverlap(q, Copy(k, i)) PROVE FALSE
  OBVIOUS
<1> DEFINE P == Copy(k, i)
           b == splits[k].backend
<1>1. /\ Laid /\ Reserving /\ GraphOK /\ SplitsOK(splits) /\ platform \in Platforms
      /\ Len(splits) \in Nat /\ split \in Nat /\ input \in Nat /\ b \in Backends
  BY RunningFacts
<1>2. PICK B : Starts(ids, splits, order, B)
  BY <1>1 DEF Laid
<1>3. /\ PositionOf(P) = CopyPos(B, k, i) /\ PositionOf(P) \in DOMAIN order
      /\ DOMAIN order = 1..Len(order) /\ Len(order) \in Nat
  BY <1>1, <1>2, PositionCopy, OrderHasNodes DEF Copy
<1>4. P \in DOMAIN memory /\ ~InBuffer(P)
  BY <1>1, MemoryPlaces
<1>5. /\ PlaceOf(q).buft = PlaceOf(P).buft
      /\ Lasts(q) <= PositionOf(P) \/ Lasts(P) <= PositionOf(q)
  BY <1>1, <1>4, Overlaps DEF Running
<1>6. PlaceOf(q).buft = Buft(b) /\ Buft(b) \in Uses(b)
  BY <1>1, <1>5, PlaceTypes, MachineFacts DEF Copy
<1>7. PositionOf(P) \in Nat /\ Lasts(q) \in Nat /\ Lasts(P) \in Nat
  BY <1>1, <1>3, LastsAre
<1>8. CopyPos(B, k, i) < Lasts(P)
  BY <1>1, <1>2, CopyLasts DEF Copy
<1>9. /\ \A l \in 1..Len(splits) : \A m \in Nodes : Within(splits, l, m) => NodePos(splits, B, l, m) \in Int
      /\ \A l \in 1..Len(splits) : \A h \in 1..Len(splits[l].inputs) : CopyPos(B, l, h) \in Int
  BY <1>1, <1>2, Positions DEF Positioned
<1> HIDE DEF P, b
<1>10. CASE Lasts(q) <= PositionOf(P)
  <2>1. ASSUME NEW m \in Nodes, ReadBy(q, m)
        PROVE  FALSE
    <3>1. PICK l \in 1..Len(splits) : Within(splits, l, m)
      BY <1>1, SplitOfNode
    <3>2. PICK j \in Read(m) : Base(places[m][j]) = q
      BY <2>1 DEF ReadBy
    <3>3. ~IsView(m) /\ ToCome(m)
      BY <2>1 DEF ReadBy
    <3>4. NodePos(splits, B, l, m) <= Lasts(q)
      BY <1>1, <1>2, <3>1, <3>2, <3>3, ReaderUses
    <3>5. ~(k <= l)
      <4>1. k <= l => CopyPos(B, k, i) < NodePos(splits, B, l, m)
        BY <1>1, <1>2, <3>1, CopyBeforeNode
      <4> QED BY <1>3, <1>7, <1>9, <1>10, <3>1, <3>4, <4>1
    <3>6. Waiting(m)
      <4>1. l < split
        BY <1>1, <3>5
      <4> QED BY <3>1, <3>3, <4>1, IssuedSplit DEF ToCome
    <3>7. PICK d \in Backends : m \in Range(queue[d])
      BY <3>6 DEF Waiting
    <3>8. ids[m] = d /\ queue[d] # <<>>
      BY <3>3, <3>7, QueuedFacts
    <3>9. d # b
      BY <3>8 DEF b
    <3>10. Buft(b) \in Uses(d)
      BY <1>6, <2>1, <3>8, ReaderReaches
    <3>11. d \notin platform.async
      BY <1>1, <1>6, <3>8, <3>9, <3>10, Apart
    <3>12. queue[d] = <<>>
      BY <3>11, NothingLeft DEF Running
    <3> QED BY <3>8, <3>12
  <2>2. ASSUME NEW l \in 1..Len(splits), NEW h \in 1..Len(splits[l].inputs), l # k \/ h # i, CopiedTo(q, l, h)
        PROVE  FALSE
    <3>1. CopyPos(B, l, h) - 1 <= Lasts(q) /\ ~CopyDone(l, h)
      BY <1>1, <1>2, <2>2, CopyUses DEF CopiedTo
    <3>2. k < l \/ (k = l /\ i < h)
      <4>1. Len(splits[l].inputs) \in Nat
        BY <1>1, SplitFacts
      <4> QED BY <1>1, <2>2, <3>1, <4>1 DEF CopyDone
    <3>3. CopyPos(B, k, i) < CopyPos(B, l, h) - 1
      BY <1>1, <1>2, <3>2, CopiesInOrder
    <3> QED BY <1>3, <1>7, <1>9, <1>10, <3>1, <3>3
  <2>3. ASSUME Returns(q)
        PROVE  FALSE
    <3>1. Lasts(q) = Len(order) + 1
      BY <1>1, <2>3, ResultLasts DEF Returns
    <3> QED BY <1>3, <1>10, <3>1
  <2> QED BY <2>1, <2>2, <2>3
<1>11. CASE Lasts(P) <= PositionOf(q)
  <2>1. ASSUME PositionOf(q) = 0
        PROVE  FALSE
    BY <1>3, <1>7, <1>8, <1>11, <2>1
  <2>2. ASSUME NEW m \in Nodes, NEW l \in 1..Len(splits), Within(splits, l, m), l < split,
               PositionOf(q) = NodePos(splits, B, l, m)
        PROVE  FALSE
    <3>1. NodePos(splits, B, l, m) < CopyPos(B, k, i) - 1
      BY <1>1, <1>2, <2>2, CopyBeforeNode
    <3> QED BY <1>3, <1>7, <1>8, <1>9, <1>11, <2>2, <3>1
  <2>3. ASSUME NEW l \in 1..Len(splits), NEW h \in 1..Len(splits[l].inputs), q = Copy(l, h),
               CopyDone(l, h), PositionOf(q) = CopyPos(B, l, h)
        PROVE  FALSE
    <3>1. l < k \/ (l = k /\ h < i)
      BY <2>3 DEF CopyDone
    <3>2. CopyPos(B, l, h) < CopyPos(B, k, i) - 1
      BY <1>1, <1>2, <3>1, CopiesInOrder
    <3> QED BY <1>3, <1>7, <1>8, <1>9, <1>11, <2>3, <3>2
  <2> QED BY <1>2, <2>1, <2>2, <2>3, MadeBuffers
<1> QED BY <1>5, <1>10, <1>11

-----------------------------------------------------------------------------
(* What memory holds, of what is still to be read.                          *)
Wanted(q) ==
  \/ \E m \in Nodes : ReadBy(q, m)
  \/ \E k \in 1..Len(splits) : \E i \in 1..Len(splits[k].inputs) : CopiedTo(q, k, i)
  \/ Returns(q)
Right(q) ==
  /\ \A t \in Inputs : q = Original(t) => memory[q] = 0
  /\ \A n \in Nodes : Root(n) = n /\ q = Original(n) /\ Ran(n) => memory[q] = n
  /\ \A k \in 1..Len(splits) : \A i \in 1..Len(splits[k].inputs) :
       q = Copy(k, i) /\ CopyDone(k, i) =>
         memory[q] = Writer(splits[k].first, splits[k].inputs[i])
Kept == \A q \in DOMAIN memory : ~InBuffer(q) /\ Wanted(q) => Right(q)

WritesRan(r) == {w \in Nodes : ~IsView(w) /\ Root(w) = r /\ Ran(w)}
Visible(r) ==
  status = "success" \/ \E b \in Backends : queue[b] # <<>> /\ Buffer[r] \in Uses(b)
Caches == \A r \in DOMAIN Buffer : Visible(r) => LastOf(WritesRan(r), memory[Original(r)])

(* Backends that can use the same memory compute in the order of the graph. *)
LEMMA InSequence ==
  ASSUME Running, NEW c \in Backends, queue[c] # <<>>, NEW n, n = Head(queue[c]),
         NEW m \in Nodes, ~IsView(m), NEW x, x \in Uses(c), x \in Uses(ids[m])
  PROVE  Ran(m) <=> m < n
<1>1. /\ GraphOK /\ SplitsOK(splits) /\ HomesAll /\ Len(splits) \in Nat /\ split \in 1..Len(splits) + 1
      /\ \A k \in 1..Len(splits) : splits[k].backend \in Backends
  BY RunningFacts
<1>2. n \in Range(queue[c]) /\ \A y \in Range(queue[c]) : n <= y
  BY RunningFacts, TailAscends
<1>3. n \in Nodes /\ n \in Nat /\ m \in Nat
  BY <1>1, <1>2, QueuedFacts, GraphFacts
<1>4. PICK k \in 1..Len(splits) : k < split /\ splits[k].backend = c /\ Within(splits, k, n)
  BY <1>2, QueuedFacts
<1>5. PICK l \in 1..Len(splits) : Within(splits, l, m)
  BY <1>1, SplitOfNode
<1> DEFINE d == splits[l].backend
<1>6. ids[m] = d /\ d \in Backends
  BY <1>1, <1>5 DEF HomesAll
<1> HIDE DEF d
<1>7. ASSUME m < n
      PROVE  Ran(m)
  <2>1. l <= k
    BY <1>1, <1>4, <1>5, <1>3, <1>7, SplitOfNode
  <2>2. Issued(m)
    BY <1>1, <1>4, <1>5, <2>1, IssuedSplit
  <2>3. ASSUME Waiting(m)
        PROVE  FALSE
    <3>1. PICK e \in Backends : m \in Range(queue[e])
      BY <2>3 DEF Waiting
    <3>2. ids[m] = e /\ queue[e] # <<>>
      BY <3>1, QueuedFacts
    <3>3. e # c
      BY <1>2, <1>3, <1>7, <3>1
    <3>4. queue[e] = <<>>
      BY <3>2, <3>3, Apart
    <3> QED BY <3>2, <3>4
  <2> QED BY <2>2, <2>3 DEF Ran
<1>8. ASSUME Ran(m)
      PROVE  m < n
  <2> SUFFICES ASSUME ~(m < n) PROVE FALSE
    OBVIOUS
  <2>1. l < split
    BY <1>5, <1>8, IssuedSplit DEF Ran
  <2>2. m # n
    BY <1>2, <1>8 DEF Ran, Waiting
  <2>3. n < m
    BY <1>3, <2>2
  <2>4. CASE d = c
    <3>1. m \in Range(queue[c])
      BY <1>2, <1>5, <2>1, <2>3, <2>4, RunningFacts DEF Rest, d
    <3> QED BY <1>8, <3>1 DEF Ran, Waiting
  <2>5. CASE d # c
    <3>1. split > 1 /\ splits[split - 1].backend = c /\ Within(splits, split - 1, n)
      BY <1>2, <1>6, <2>5, Apart
    <3>2. split - 1 \in 1..Len(splits)
      BY <1>1, <3>1
    <3>3. k = split - 1
      BY <1>1, <1>3, <1>4, <3>1, <3>2, SplitOfNode, SMTT(60)
    <3>4. k <= l
      BY <1>1, <1>3, <1>4, <1>5, <2>3, SplitOfNode, SMTT(60)
    <3>5. l = split - 1
      BY <1>1, <2>1, <3>2, <3>3, <3>4
    <3> QED BY <2>5, <3>1, <3>5 DEF d
  <2> QED BY <2>4, <2>5
<1> QED BY <1>7, <1>8

LEMMA CacheHolds ==
  ASSUME Running, MemoryIs, Caches, NEW s \in Tensors, Stored(s), Visible(Root(s)),
         NEW n \in 1..Len(graph) + 1,
         \A w \in Nodes : ~IsView(w) /\ Root(w) = Root(s) => (Ran(w) <=> w < n)
  PROVE  Holds(Original(s)) = Writer(n, s)
<1>1. GraphOK /\ Laid /\ Len(graph) \in Nat /\ Nodes = 1..Len(graph)
  BY RunningFacts, GraphFacts
<1>2. Root(s) \in Leaves /\ Root(s) \in DOMAIN Buffer
  BY <1>1, RootFacts DEF Stored
<1>3. Holds(Original(s)) = memory[Original(Root(s))]
  BY <1>1, <1>2, MemoryPlaces DEF Holds, Original
<1>4. WritesRan(Root(s)) = Writers(n, Root(s))
  <2>1. \A w \in Nodes : w < n <=> w \in 1..n - 1
    BY <1>1
  <2>2. \A w \in 1..n - 1 : w \in Nodes
    BY <1>1
  <2> QED BY <2>1, <2>2 DEF WritesRan, Writers
<1>5. LastOf(Writers(n, Root(s)), memory[Original(Root(s))])
  BY <1>2, <1>4 DEF Caches
<1>6. LastOf(Writers(n, Root(s)), Writer(n, s)) /\ Writers(n, Root(s)) \in SUBSET Nat
  BY <1>1, WriterLast
<1> QED BY <1>3, <1>5, <1>6, LastOfSame

LEMMA OperationHolds ==
  ASSUME Running, MemoryIs, Kept, NEW s \in Tensors, ~Stored(s), Wanted(Original(Root(s))),
         NEW n \in 1..Len(graph) + 1, Root(s) \in Nodes => Root(s) < n /\ Ran(Root(s))
  PROVE  Holds(Original(s)) = Writer(n, s)
<1>1. GraphOK /\ Laid
  BY RunningFacts
<1>2. Root(s) \in Inputs \/ (Root(s) \in Nodes /\ Root(Root(s)) = Root(s))
  BY <1>1, RootFacts
<1> DEFINE q == Original(Root(s))
<1>3. q \in DOMAIN memory /\ ~InBuffer(q)
  BY <1>1, <1>2, MemoryPlaces
<1>4. Holds(Original(s)) = memory[q]
  BY <1>3 DEF Holds, Original
<1>5. Right(q)
  BY <1>3 DEF Kept
<1> QED BY <1>1, <1>2, <1>4, <1>5, OperationWrites DEF Right

(* A node that is computed next reads what it would read in order.          *)
LEMMA NodeReads ==
  ASSUME Running, MemoryIs, Kept, Caches, NEW c \in Backends, queue[c] # <<>>,
         NEW n, n = Head(queue[c]), ~IsView(n), NEW j \in Read(n)
  PROVE  Holds(places[n][j]) = Writer(n, Src(n)[j])
<1> DEFINE s == Src(n)[j]
<1>1. /\ GraphOK /\ IsCut /\ Laid /\ SplitsOK(splits) /\ GoodIds(ids) /\ platform \in Platforms
      /\ LinkedAll
  BY RunningFacts, CutFacts
<1>2. n \in Range(queue[c])
  BY RunningFacts, TailAscends
<1>3. n \in Nodes /\ Waiting(n) /\ ids[n] = c
  BY <1>2, QueuedFacts
<1>4. /\ j \in DOMAIN Src(n) /\ s \in Tensors /\ s < n /\ n \in 1..Len(graph) + 1
      /\ n \in Nat /\ Nodes \subseteq Tensors /\ \A m \in Nodes : m \in Nat
  BY <1>1, <1>3, Reads, GraphFacts
<1> HIDE DEF s
<1>5. ReadBy(Base(places[n][j]), n)
  BY <1>3 DEF ReadBy, ToCome
<1>6. CASE Foreign(ids, s, c)
  <2>1. places[n][j] = <<s, c>> /\ CopiedBy(splits, <<s, c>>, n)
    BY <1>1, <1>3, <1>4, <1>6 DEF LinkedAll, s
  <2>2. DOMAIN splits = 1..Len(splits) /\ \A k \in 1..Len(splits) : DOMAIN splits[k].inputs = 1..Len(splits[k].inputs)
    BY <1>1, SplitFacts
  <2>3. PICK k \in 1..Len(splits) : /\ splits[k].first <= n /\ splits[k].backend = c
                                    /\ \E i \in 1..Len(splits[k].inputs) : splits[k].inputs[i] = s
    BY <2>1, <2>2 DEF CopiedBy
  <2>4. PICK i \in 1..Len(splits[k].inputs) : splits[k].inputs[i] = s
    BY <2>3
  <2>5. CopyDone(k, i)
    <3>1. PICK l \in 1..Len(splits) : l < split /\ Within(splits, l, n)
      BY <1>2, QueuedFacts
    <3>2. k <= l
      BY <1>1, <1>3, <2>3, <3>1, SplitOfNode
    <3> QED BY <3>1, <3>2, RunningFacts DEF CopyDone
  <2>6. c # -1
    BY <1>1, MachineFacts
  <2>7. places[n][j] = Copy(k, i) /\ Base(places[n][j]) = Copy(k, i)
    BY <2>1, <2>3, <2>4, <2>6 DEF Copy, Base
  <2>8. Copy(k, i) \in DOMAIN memory /\ ~InBuffer(Copy(k, i))
    BY <1>1, MemoryPlaces
  <2>9. Right(Copy(k, i))
    BY <1>3, <1>5, <2>7, <2>8 DEF Kept, Wanted
  <2>10. memory[Copy(k, i)] = Writer(splits[k].first, s)
    BY <2>4, <2>5, <2>9 DEF Right
  <2>11. Holds(Copy(k, i)) = memory[Copy(k, i)]
    BY <2>3, <2>6, <2>8 DEF Holds, Copy
  <2>12. Writer(splits[k].first, s) = Writer(n, s)
    BY <1>1, <1>3, <2>3, <2>4, CopyReads DEF s
  <2> QED BY <2>7, <2>10, <2>11, <2>12 DEF s
<1>7. CASE ~Foreign(ids, s, c)
  <2>1. places[n][j] = Original(s) /\ Base(places[n][j]) = Original(Root(s))
    <3>1. places[n][j] = Original(s)
      BY <1>1, <1>3, <1>4, <1>7 DEF LinkedAll, s
    <3> QED BY <3>1 DEF Base, Original
  <2>2. IF Stored(s) THEN Buffer[Root(s)] \in Uses(c)
        ELSE Buft(ids[s]) \in Uses(c) /\ ids[s] = ids[Root(s)]
    BY <1>1, <1>4, <1>7, WithinReach
  <2>3. CASE Stored(s)
    <3>1. ASSUME NEW w \in Nodes, ~IsView(w), Root(w) = Root(s)
          PROVE  Ran(w) <=> w < n
      <4>1. Buffer[Root(s)] \in Uses(ids[w])
        BY <1>1, <1>4, <2>3, <3>1 DEF GoodIds, Stored
      <4> QED BY <2>2, <2>3, <3>1, <4>1, InSequence
    <3>2. Visible(Root(s))
      BY <2>2, <2>3 DEF Visible
    <3>3. Holds(Original(s)) = Writer(n, s)
      BY <1>4, <2>3, <3>1, <3>2, CacheHolds
    <3> QED BY <2>1, <3>3 DEF s
  <2>4. CASE ~Stored(s)
    <3>1. ASSUME Root(s) \in Nodes
          PROVE  Root(s) < n /\ Ran(Root(s))
      <4>1. ~IsView(Root(s)) /\ Root(s) <= s
        BY <1>1, <1>4, RootFacts
      <4>2. s \in Int
        BY <1>1, <1>4, GraphFacts DEF Tensors
      <4>3. Root(s) < n
        <5>1. Root(s) \in Nat /\ n \in Nat /\ s < n
          BY <1>4, <3>1
        <5> QED BY <4>1, <4>2, <5>1
      <4>4. ids[s] \in Backends
        BY <1>1, <1>4 DEF GoodIds
      <4>5. Buft(ids[s]) \in Uses(ids[Root(s)])
        BY <1>1, <2>2, <2>4, <4>4, MachineFacts
      <4> QED BY <2>2, <2>4, <3>1, <4>1, <4>3, <4>5, InSequence
    <3>2. Wanted(Original(Root(s)))
      BY <1>3, <1>5, <2>1 DEF Wanted
    <3>3. Holds(Original(s)) = Writer(n, s)
      BY <1>4, <2>4, <3>1, <3>2, OperationHolds
    <3> QED BY <2>1, <3>3 DEF s
  <2> QED BY <2>3, <2>4
<1> QED BY <1>6, <1>7

(* An input is copied when it has what the split reads in order.            *)
LEMMA CopyHolds ==
  ASSUME Running, MemoryIs, Kept, Caches, Returned, status = "success",
         NEW k \in 1..Len(splits), k = split, NEW i \in 1..Len(splits[k].inputs), i = input,
         NEW s, s = splits[k].inputs[i], s \notin Inputs => queue[ids[s]] = <<>>
  PROVE  Holds(Original(s)) = Writer(splits[k].first, s)
<1>1. GraphOK /\ IsCut /\ Laid /\ SplitsOK(splits) /\ GoodIds(ids) /\ HomesAll
  BY RunningFacts
<1>2. s \in Tensors /\ (Root(s) \in Nodes => Root(s) < splits[k].first)
  BY <1>1, CopiedRoot
<1>3. splits[k].first \in 1..Len(graph) + 1 /\ splits[k].first \in Nodes /\ \A m \in Nodes : m \in Nat /\ m \in Tensors
  BY <1>1, SplitFacts, GraphFacts
<1>4. ASSUME NEW w \in Nodes
      PROVE  Issued(w) <=> w < splits[k].first
  <2>1. PICK l \in 1..Len(splits) : Within(splits, l, w)
    BY <1>1, SplitOfNode
  <2>2. splits[k].first <= w <=> k <= l
    BY <1>1, <2>1, SplitOfNode
  <2>3. Issued(w) <=> l < split
    BY <2>1, IssuedSplit
  <2> QED BY <1>3, <2>2, <2>3
<1>5. CASE Stored(s)
  <2>1. s \notin Inputs
    <3>1. s \in Inputs => Root(s) = s /\ s \notin DOMAIN Buffer
      BY <1>1, GraphFacts, SchedConstants DEF Root
    <3> QED BY <1>5, <3>1 DEF Stored
  <2>2. ids[s] \in Backends /\ Buffer[Root(s)] \in Uses(ids[s]) /\ queue[ids[s]] = <<>>
    BY <1>1, <1>2, <1>5, <2>1 DEF GoodIds
  <2>3. ASSUME NEW w \in Nodes, ~IsView(w), Root(w) = Root(s), Waiting(w)
        PROVE  FALSE
    <3>1. PICK d \in Backends : w \in Range(queue[d])
      BY <2>3 DEF Waiting
    <3>2. ids[w] = d /\ queue[d] # <<>>
      BY <2>3, <3>1, QueuedFacts
    <3>3. Buffer[Root(s)] \in Uses(d)
      BY <1>1, <1>3, <1>5, <2>3, <3>2 DEF GoodIds, Stored
    <3>4. d # ids[s]
      BY <2>2, <3>2
    <3>5. d \notin platform.async
      BY <2>2, <3>2, <3>3, <3>4, Apart
    <3> QED BY <3>2, <3>5, NothingLeft DEF Running
  <2>4. \A w \in Nodes : ~IsView(w) /\ Root(w) = Root(s) => (Ran(w) <=> w < splits[k].first)
    BY <1>4, <2>3 DEF Ran
  <2>5. Visible(Root(s))
    BY DEF Visible
  <2> QED BY <1>2, <1>3, <1>5, <2>4, <2>5, CacheHolds
<1>6. CASE ~Stored(s)
  <2>1. ASSUME Root(s) \in Nodes
        PROVE  Root(s) < splits[k].first /\ Ran(Root(s))
    <3>1. Issued(Root(s)) /\ ~IsView(Root(s))
      BY <1>1, <1>2, <1>4, <2>1, RootFacts
    <3>2. s \notin Inputs
      BY <1>1, <2>1, GraphFacts, SchedConstants DEF Root
    <3>3. ids[s] = ids[Root(s)]
      BY <1>1, <1>2, <1>6 DEF GoodIds
    <3>4. ~Waiting(Root(s))
      <4> SUFFICES ASSUME NEW d \in Backends, Root(s) \in Range(queue[d]) PROVE FALSE
        BY DEF Waiting
      <4>1. ids[Root(s)] = d /\ queue[d] # <<>>
        BY <3>1, QueuedFacts
      <4> QED BY <3>2, <3>3, <4>1
    <3> QED BY <1>2, <2>1, <3>1, <3>4 DEF Ran
  <2>2. CopiedTo(Original(Root(s)), k, i)
    BY DEF CopiedTo, CopyDone
  <2>3. Wanted(Original(Root(s)))
    BY <2>2 DEF Wanted
  <2> QED BY <1>2, <1>3, <1>6, <2>1, <2>3, OperationHolds
<1> QED BY <1>5, <1>6

(* The caller finds the result.                                             *)
LEMMA ResultHolds ==
  ASSUME Running, MemoryIs, Kept, Caches, status = "success", split > Len(splits),
         \A b \in Backends : queue[b] = <<>>
  PROVE  Holds(Original(Len(graph))) = Writer(Len(graph) + 1, Len(graph))
<1> DEFINE N == Len(graph)
<1>1. GraphOK /\ SplitsOK(splits) /\ Len(splits) \in Nat
  BY RunningFacts
<1>2. N \in Nodes /\ N \in Tensors /\ N + 1 \in 1..N + 1 /\ Nodes = 1..N /\ N \in Nat
  BY <1>1, GraphFacts
<1>3. ASSUME NEW w \in Nodes
      PROVE  Ran(w) /\ w < N + 1
  <2>1. PICK l \in 1..Len(splits) : Within(splits, l, w)
    BY <1>1, SplitOfNode
  <2>2. Issued(w)
    BY <1>1, <2>1, IssuedSplit, RunningFacts
  <2>3. ~Waiting(w)
    BY QueuedFacts DEF Waiting
  <2> QED BY <1>2, <2>2, <2>3 DEF Ran
<1>4. Visible(Root(N)) /\ Wanted(Original(Root(N)))
  BY DEF Visible, Wanted, Returns
<1> HIDE DEF N
<1>5. CASE Stored(N)
  <2>1. Holds(Original(N)) = Writer(N + 1, N)
    BY <1>2, <1>3, <1>4, <1>5, CacheHolds DEF N
  <2> QED BY <2>1 DEF N
<1>6. CASE ~Stored(N)
  <2>1. Holds(Original(N)) = Writer(N + 1, N)
    BY <1>2, <1>3, <1>4, <1>6, OperationHolds DEF N
  <2> QED BY <2>1 DEF N
<1> QED BY <1>5, <1>6

-----------------------------------------------------------------------------
(* What a step of the backends keeps.                                       *)
LEMMA StateFrame ==
  ASSUME UNCHANGED <<platform, graph, splits, places, order>>
  PROVE  /\ Nodes' = Nodes /\ Backends' = Backends
         /\ \A t : Root(t)' = Root(t) /\ IsView(t)' = IsView(t)
         /\ \A n : Read(n)' = Read(n)
         /\ \A q : Base(q)' = Base(q)
         /\ \A k, i : Copy(k, i)' = Copy(k, i)
         /\ \A n, t : Writer(n, t)' = Writer(n, t)
         /\ \A j, n : Within(splits, j, n)' = Within(splits, j, n)
         /\ \A b : Uses(b)' = Uses(b)
         /\ DOMAIN memory' = DOMAIN memory => MemoryIs' = MemoryIs
<1>1. \A t : Root(t)' = Root(t) /\ IsView(t)' = IsView(t)
  BY DEF Root, IsLeaf, IsView
<1>2. \A p : Owns(order, p)' = Owns(order, p) /\ PlaceAt(order, p)' = PlaceAt(order, p)
  BY <1>1 DEF Owns, PlaceAt
<1>3. DOMAIN memory' = DOMAIN memory => MemoryIs' = MemoryIs
  BY <1>2 DEF MemoryIs
<1>4. Nodes' = Nodes /\ Backends' = Backends /\ \A b : Uses(b)' = Uses(b)
  BY DEF Nodes, Backends, Cpu, Uses
<1>5. \A n : Read(n)' = Read(n)
  BY DEF Read, Src, IsLeaf
<1>6. \A q : Base(q)' = Base(q)
  BY <1>1 DEF Base
<1>7. \A k, i : Copy(k, i)' = Copy(k, i)
  BY DEF Copy
<1>8. \A n, t : Writer(n, t)' = Writer(n, t)
  BY <1>1 DEF Writer
<1>9. \A j, n : Within(splits, j, n)' = Within(splits, j, n)
  BY DEF Within, SplitEnd
<1> QED BY <1>1, <1>3, <1>4, <1>5, <1>6, <1>7, <1>8, <1>9

LEMMA WrittenFacts ==
  ASSUME NEW P, NEW v
  PROVE  /\ DOMAIN Written(P, v) = DOMAIN memory
         /\ P \in DOMAIN memory => Written(P, v)[P] = v
         /\ \A q \in DOMAIN memory :
              q # P /\ (InBuffer(P) \/ InBuffer(q) \/ ~MayOverlap(q, P)) => Written(P, v)[q] = memory[q]
BY DEF Written

LEMMA OneQueue ==
  ASSUME Running, NEW b \in Backends, NEW c \in Backends, NEW n,
         n \in Range(queue[b]), n \in Range(queue[c])
  PROVE  b = c
<1>1. GraphOK /\ SplitsOK(splits)
  BY RunningFacts
<1>2. n \in Nodes
  BY QueuedFacts
<1>3. PICK k \in 1..Len(splits) : splits[k].backend = b /\ Within(splits, k, n)
  BY QueuedFacts
<1>4. PICK l \in 1..Len(splits) : splits[l].backend = c /\ Within(splits, l, n)
  BY QueuedFacts
<1> QED BY <1>1, <1>2, <1>3, <1>4, SplitOfNode

LEMMA NodeKeeps ==
  ASSUME Running, PlacesServe, MemoryIs, Kept, Caches, NEW c \in Backends, ComputeNode(c)
  PROVE  MemoryIs' /\ Kept' /\ Caches' /\ misread' = misread
<1> DEFINE n == Head(queue[c])
           P == Original(Root(n))
<1>1. /\ queue[c] # <<>> /\ queue' = [queue EXCEPT ![c] = Tail(@)]
      /\ UNCHANGED <<platform, graph, pc, status, ids, copies, splits, places, order, reserved, split, input>>
      /\ IF IsView(n) THEN UNCHANGED <<memory, misread>>
         ELSE /\ memory' = Written(P, n)
              /\ misread' = misread \union
                   IF \A j \in Read(n) : Holds(places[n][j]) = Writer(n, Src(n)[j]) THEN {} ELSE {n}
  BY DEF ComputeNode, machine, hash, cut
<1>2. GraphOK /\ Laid /\ platform \in Platforms /\ GoodIds(ids)
  BY RunningFacts
<1>3. queue \in [Backends -> Seq(Nat)] /\ n \in Range(queue[c])
      /\ Range(Tail(queue[c])) = Range(queue[c]) \ {n}
  BY <1>1, RunningFacts, TailAscends DEF Running, Queues
<1>4. n \in Nodes /\ Issued(n) /\ Waiting(n) /\ (~IsView(n) => ids[n] = c)
  BY <1>3, QueuedFacts
<1> HIDE DEF n
<1>5. misread' = misread
  BY <1>1, NodeReads DEF n
<1>6. \A b \in Backends : Range(queue'[b]) = Range(queue[b]) \ {n}
  <2> SUFFICES ASSUME NEW b \in Backends PROVE Range(queue'[b]) = Range(queue[b]) \ {n}
    OBVIOUS
  <2>1. CASE b = c
    BY <1>1, <1>3, <2>1
  <2>2. CASE b # c
    BY <1>1, <1>3, <2>2, OneQueue
  <2> QED BY <2>1, <2>2
<1>7. \A b \in Backends : queue'[b] # <<>> => queue[b] # <<>>
  BY <1>1, <1>3
<1> USE StateFrame
<1>8. \A m : Issued(m)' = Issued(m)
  BY <1>1 DEF Issued
<1>9. \A m : Waiting(m)' <=> Waiting(m) /\ m # n
  BY <1>1, <1>6 DEF Waiting
<1>10. \A m : Ran(m)' <=> Ran(m) \/ m = n
  BY <1>4, <1>8, <1>9 DEF Ran
<1>11. \A m : ToCome(m)' <=> ToCome(m) /\ m # n
  BY <1>1, <1>4, <1>8, <1>9 DEF ToCome
<1>12. \A k, i : CopyDone(k, i)' = CopyDone(k, i)
  BY <1>1 DEF CopyDone
<1>13. \A q, m : ReadBy(q, m)' <=> ReadBy(q, m) /\ m # n
  BY <1>1, <1>11 DEF ReadBy
<1>14. \A q : /\ Returns(q)' = Returns(q)
              /\ \A k, i : CopiedTo(q, k, i)' = CopiedTo(q, k, i)
  BY <1>1, <1>12 DEF Returns, CopiedTo
<1>15. \A r : Visible(r)' => Visible(r)
  BY <1>1, <1>7 DEF Visible
<1>16. DOMAIN memory' = DOMAIN memory
  BY <1>1, WrittenFacts
<1>17. MemoryIs'
  BY <1>1, <1>16
<1>18. ASSUME NEW q \in DOMAIN memory, ~InBuffer(q), Wanted(q)'
       PROVE  /\ Right(q)
              /\ \/ \E m \in Nodes \ {n} : ReadBy(q, m)
                 \/ \E k \in 1..Len(splits) : \E i \in 1..Len(splits[k].inputs) : CopiedTo(q, k, i)
                 \/ Returns(q)
  <2>1. \/ \E m \in Nodes \ {n} : ReadBy(q, m)
        \/ \E k \in 1..Len(splits) : \E i \in 1..Len(splits[k].inputs) : CopiedTo(q, k, i)
        \/ Returns(q)
    BY <1>1, <1>13, <1>14, <1>18 DEF Wanted
  <2> QED BY <1>18, <2>1 DEF Wanted, Kept
<1>19. ASSUME NEW q \in DOMAIN memory, Right(q),
              Made(q) /\ (Root(n) # n \/ q # Original(n)) => memory'[q] = memory[q],
              ~IsView(n) /\ Root(n) = n /\ q = Original(n) => memory'[q] = n
       PROVE  Right(q)'
  <2>1. ASSUME NEW t \in Inputs, q = Original(t)
        PROVE  memory'[q] = 0
    <3>1. Made(q) /\ memory[q] = 0
      BY <1>19, <2>1 DEF Made, Right
    <3>2. t # n
      BY <1>2, <1>4, GraphFacts, SchedConstants
    <3> QED BY <1>19, <2>1, <3>1, <3>2 DEF Original
  <2>2. ASSUME NEW m \in Nodes, Root(m) = m, q = Original(m), Ran(m)'
        PROVE  memory'[q] = m
    <3>1. CASE m = n
      <4>1. ~IsView(Root(n))
        BY <1>2, <1>4, GraphFacts, RootFacts
      <4> QED BY <1>19, <2>2, <3>1, <4>1
    <3>2. CASE m # n
      <4>1. Ran(m)
        BY <1>10, <2>2, <3>2
      <4>2. Made(q) /\ memory[q] = m
        BY <1>19, <2>2, <4>1 DEF Made, Right
      <4> QED BY <1>19, <2>2, <3>2, <4>2 DEF Original
    <3> QED BY <3>1, <3>2
  <2>3. ASSUME NEW k \in 1..Len(splits), NEW i \in 1..Len(splits[k].inputs), q = Copy(k, i), CopyDone(k, i)
        PROVE  memory'[q] = Writer(splits[k].first, splits[k].inputs[i])
    <3>1. Made(q) /\ memory[q] = Writer(splits[k].first, splits[k].inputs[i])
      BY <1>19, <2>3 DEF Made, Right
    <3>2. splits[k].backend # -1
      BY <1>2, RunningFacts, MachineFacts
    <3> QED BY <1>19, <2>3, <3>1, <3>2 DEF Original, Copy
  <2> QED BY <1>1, <1>12, <2>1, <2>2, <2>3 DEF Right
<1>20. CASE IsView(n)
  <2>1. UNCHANGED memory
    BY <1>1, <1>20
  <2>2. Kept'
    BY <1>18, <1>19, <1>20, <2>1 DEF Kept
  <2>3. \A r : WritesRan(r)' = WritesRan(r)
    BY <1>1, <1>10, <1>20 DEF WritesRan
  <2>4. Caches'
    BY <1>15, <2>1, <2>3 DEF Caches
  <2> QED BY <1>5, <1>17, <2>2, <2>4
<1>21. CASE ~IsView(n) /\ Root(n) = n
  <2>1. P = Original(n) /\ memory' = Written(Original(n), n)
    BY <1>1, <1>21
  <2>2. P \in DOMAIN memory /\ ~InBuffer(P)
    BY <1>2, <1>4, <1>21, <2>1, MemoryPlaces
  <2>3. Kept'
    <3> SUFFICES ASSUME NEW q \in DOMAIN memory, ~InBuffer(q), Wanted(q)'
                 PROVE  Right(q)'
      BY <1>16 DEF Kept
    <3>1. q # Original(n) /\ Made(q) => ~MayOverlap(q, Original(n))
      BY <1>1, <1>4, <1>18, <1>21, NodeClash DEF n
    <3>2. Made(q) /\ q # Original(n) => memory'[q] = memory[q]
      BY <2>1, <3>1, WrittenFacts
    <3>3. q = Original(n) => memory'[q] = n
      BY <2>1, WrittenFacts
    <3> QED BY <1>18, <1>19, <1>21, <3>2, <3>3
  <2>4. Caches'
    <3> SUFFICES ASSUME NEW r \in DOMAIN Buffer, Visible(r)'
                 PROVE  LastOf(WritesRan(r)', memory'[Original(r)])
      BY DEF Caches, LastOf
    <3>1. r \in Leaves /\ r # n
      BY <1>2, <1>4, GraphFacts, SchedConstants
    <3>2. Original(r) \in DOMAIN memory /\ InBuffer(Original(r)) /\ Original(r) # Original(n)
      BY <1>2, <3>1, MemoryPlaces DEF InBuffer, Original
    <3>3. memory'[Original(r)] = memory[Original(r)]
      BY <2>1, <3>2, WrittenFacts
    <3>4. WritesRan(r)' = WritesRan(r)
      BY <1>1, <1>10, <1>21, <3>1 DEF WritesRan
    <3> QED BY <1>15, <3>3, <3>4 DEF Caches
  <2> QED BY <1>5, <1>17, <2>3, <2>4
<1>22. CASE ~IsView(n) /\ Root(n) # n
  <2>1. Stored(n) /\ Root(n) \in DOMAIN Buffer /\ Root(n) \in Leaves
    <3>1. Stored(n)
      BY <1>2, <1>4, <1>22, KindFacts
    <3> QED BY <3>1, SchedConstants DEF Stored
  <2>2. InBuffer(P) /\ P \in DOMAIN memory /\ memory' = Written(P, n)
    BY <1>1, <1>2, <1>22, <2>1, MemoryPlaces DEF InBuffer, Original
  <2> HIDE DEF P
  <2>3. Kept'
    <3> SUFFICES ASSUME NEW q \in DOMAIN memory, ~InBuffer(q), Wanted(q)'
                 PROVE  Right(q)'
      BY <1>16 DEF Kept
    <3>1. memory'[q] = memory[q]
      BY <2>2, WrittenFacts
    <3> QED BY <1>18, <1>19, <1>22, <3>1
  <2>4. Caches'
    <3> SUFFICES ASSUME NEW r \in DOMAIN Buffer, Visible(r)'
                 PROVE  LastOf(WritesRan(r)', memory'[Original(r)])
      BY DEF Caches, LastOf
    <3>1. Original(r) \in DOMAIN memory /\ LastOf(WritesRan(r), memory[Original(r)])
      BY <1>2, <1>15, MemoryPlaces, SchedConstants DEF Caches
    <3>2. CASE r # Root(n)
      <4>1. WritesRan(r)' = WritesRan(r)
        BY <1>1, <1>10, <3>2 DEF WritesRan
      <4>2. Original(r) # P
        BY <3>2 DEF P, Original
      <4>3. memory'[Original(r)] = memory[Original(r)]
        BY <2>2, <3>1, <4>2, WrittenFacts
      <4> QED BY <3>1, <4>1, <4>3
    <3>3. CASE r = Root(n)
      <4>1. memory'[Original(r)] = n
        BY <2>2, <3>3, WrittenFacts DEF P
      <4>2. WritesRan(r)' = WritesRan(r) \union {n}
        BY <1>1, <1>4, <1>10, <1>22, <3>3 DEF WritesRan
      <4>3. \A w \in WritesRan(r) : w < n
        <5> SUFFICES ASSUME NEW w \in Nodes, ~IsView(w), Root(w) = r, Ran(w)
                     PROVE  w < n
          BY DEF WritesRan
        <5>1. Buffer[r] \in Uses(ids[w]) /\ Buffer[r] \in Uses(c)
          BY <1>2, <1>4, <1>22, <2>1, <3>3, GraphFacts DEF GoodIds, Stored
        <5> QED BY <1>1, <5>1, InSequence DEF n
      <4>4. n \in Nat /\ \A w \in WritesRan(r) : w \in Nat
        BY <1>2, <1>4, GraphFacts DEF WritesRan
      <4>5. \A w \in WritesRan(r) : w <= n
        BY <4>3, <4>4
      <4>6. LastOf(WritesRan(r) \union {n}, n)
        BY <4>4, <4>5 DEF LastOf
      <4> QED BY <4>1, <4>2, <4>6
    <3> QED BY <3>2, <3>3
  <2> QED BY <1>5, <1>17, <2>3, <2>4
<1> QED BY <1>20, <1>21, <1>22

-----------------------------------------------------------------------------
LEMMA CopyKeeps ==
  ASSUME Running, PlacesServe, MemoryIs, Kept, Caches, CopyInput
  PROVE  MemoryIs' /\ Kept' /\ Caches'
<1> DEFINE k == split
           i == input
           s == splits[k].inputs[i]
           P == Copy(k, i)
<1>1. /\ Returned /\ status = "success" /\ k <= Len(splits) /\ i <= Len(splits[k].inputs)
      /\ queue[splits[k].backend] = <<>>
      /\ memory' = Written(P, Holds(Original(s))) /\ input' = i + 1
      /\ UNCHANGED <<platform, graph, pc, status, ids, copies, splits, places, order, reserved, split, queue>>
  BY DEF CopyInput, Computing, SplitBackend, SplitInputs, machine, hash, cut, Copy
<1>2. /\ GraphOK /\ IsCut /\ Laid /\ SplitsOK(splits) /\ platform \in Platforms
      /\ k \in 1..Len(splits) /\ i \in Nat \ {0}
  BY <1>1, RunningFacts DEF Counters
<1>3. i \in 1..Len(splits[k].inputs) /\ DOMAIN splits = 1..Len(splits)
      /\ \A j \in 1..Len(splits) : DOMAIN splits[j].inputs = 1..Len(splits[j].inputs)
  BY <1>1, <1>2, SplitFacts
<1>4. s \notin Inputs => queue[ids[s]] = <<>>
  BY DEF CopyInput, SplitInputs
<1>5. P \in DOMAIN memory /\ ~InBuffer(P)
  BY <1>2, <1>3, MemoryPlaces
<1>6. Holds(Original(s)) = Writer(splits[k].first, s)
  BY <1>1, <1>2, <1>3, <1>4, CopyHolds
<1>7. P[2] # -1
  BY <1>2, RunningFacts, MachineFacts DEF Copy
<1>0. P[1] = s /\ P = Copy(k, i) /\ k = split /\ i = input
  BY DEF Copy
<1> HIDE DEF P
<1> USE StateFrame
<1>8. \A m : Issued(m)' = Issued(m) /\ Waiting(m)' = Waiting(m)
  BY <1>1 DEF Issued, Waiting
<1>9. \A m : Ran(m)' = Ran(m) /\ ToCome(m)' = ToCome(m)
  BY <1>1, <1>8 DEF Ran, ToCome
<1>10. \A l \in 1..Len(splits) : \A h \in 1..Len(splits[l].inputs) :
         CopyDone(l, h)' <=> CopyDone(l, h) \/ (l = k /\ h = i)
  <2> SUFFICES ASSUME NEW l \in 1..Len(splits), NEW h \in 1..Len(splits[l].inputs)
               PROVE  CopyDone(l, h)' <=> CopyDone(l, h) \/ (l = k /\ h = i)
    OBVIOUS
  <2>1. h \in Nat
    BY <1>2, SplitFacts
  <2> QED BY <1>1, <1>2, <2>1 DEF CopyDone
<1>11. \A q, m : ReadBy(q, m)' = ReadBy(q, m) /\ Returns(q)' = Returns(q)
  BY <1>1, <1>9 DEF ReadBy, Returns
<1>12. \A q : \A l \in 1..Len(splits) : \A h \in 1..Len(splits[l].inputs) :
         CopiedTo(q, l, h)' => CopiedTo(q, l, h) /\ (l # k \/ h # i)
  BY <1>1, <1>10 DEF CopiedTo
<1>13. DOMAIN memory' = DOMAIN memory
  BY <1>1, WrittenFacts
<1>14. MemoryIs'
  BY <1>1, <1>13
<1>15. Caches'
  <2> SUFFICES ASSUME NEW r \in DOMAIN Buffer, Visible(r)'
               PROVE  LastOf(WritesRan(r)', memory'[Original(r)])
    BY DEF Caches, LastOf
  <2>1. Visible(r) /\ WritesRan(r)' = WritesRan(r)
    BY <1>1, <1>9 DEF Visible, WritesRan
  <2>2. Original(r) \in DOMAIN memory /\ InBuffer(Original(r)) /\ Original(r) # P
    <3>1. r \in Leaves
      BY SchedConstants
    <3>2. Original(r) \in DOMAIN memory
      BY <1>2, <3>1, MemoryPlaces
    <3> QED BY <1>7, <3>2 DEF InBuffer, Original
  <2>3. memory'[Original(r)] = memory[Original(r)]
    BY <1>1, <2>2, WrittenFacts
  <2> QED BY <2>1, <2>3 DEF Caches
<1>16. Kept'
  <2> SUFFICES ASSUME NEW q \in DOMAIN memory, ~InBuffer(q), Wanted(q)'
               PROVE  Right(q)'
    BY <1>13 DEF Kept
  <2>1. \/ \E m \in Nodes : ReadBy(q, m)
        \/ \E l \in 1..Len(splits) : \E h \in 1..Len(splits[l].inputs) :
             (l # k \/ h # i) /\ CopiedTo(q, l, h)
        \/ Returns(q)
    BY <1>1, <1>11, <1>12 DEF Wanted
  <2>2. Right(q)
    BY <2>1 DEF Wanted, Kept
  <2>3. ASSUME Made(q), q # P
        PROVE  memory'[q] = memory[q]
    <3>1. ~MayOverlap(q, P)
      BY <1>0, <1>1, <1>2, <1>3, <2>1, <2>3, CopyClash
    <3> QED BY <1>1, <2>3, <3>1, WrittenFacts
  <2>4. ASSUME NEW t \in Inputs, q = Original(t)
        PROVE  memory'[q] = 0
    BY <1>7, <2>2, <2>3, <2>4 DEF Made, Right, Original
  <2>5. ASSUME NEW m \in Nodes, Root(m) = m, q = Original(m), Ran(m)
        PROVE  memory'[q] = m
    BY <1>7, <2>2, <2>3, <2>5 DEF Made, Right, Original
  <2>6. ASSUME NEW l \in 1..Len(splits), NEW h \in 1..Len(splits[l].inputs), q = Copy(l, h), CopyDone(l, h)'
        PROVE  memory'[q] = Writer(splits[l].first, splits[l].inputs[h])
    <3>1. CASE q = P
      <4>1. l = k /\ h = i
        <5>1. Once(splits)
          BY <1>2, CutFacts
        <5>2. Copy(l, h) = Copy(k, i)
          BY <1>0, <2>6, <3>1
        <5>3. splits[l].inputs[h] = splits[k].inputs[i] /\ splits[l].backend = splits[k].backend
          BY <5>2 DEF Copy
        <5> QED BY <1>2, <1>3, <2>6, <5>1, <5>3 DEF Once
      <4>2. memory'[q] = Holds(Original(s))
        BY <1>1, <1>5, <3>1, WrittenFacts
      <4> QED BY <1>6, <4>1, <4>2
    <3>2. CASE q # P
      <4>1. CopyDone(l, h)
        BY <1>0, <1>10, <2>6, <3>2
      <4>2. Made(q)
        BY <2>6, <4>1 DEF Made
      <4>3. memory'[q] = memory[q]
        BY <2>3, <3>2, <4>2
      <4>4. memory[q] = Writer(splits[l].first, splits[l].inputs[h])
        BY <2>2, <2>6, <4>1 DEF Right
      <4> QED BY <4>3, <4>4
    <3> QED BY <3>1, <3>2
  <2> QED BY <1>1, <1>9, <2>4, <2>5, <2>6 DEF Right
<1> QED BY <1>14, <1>15, <1>16

LEMMA SplitKeeps ==
  ASSUME Running, MemoryIs, Kept, Caches, ComputeSplit
  PROVE  MemoryIs' /\ Kept' /\ Caches'
<1> DEFINE a == splits[split].backend
           new == NodesOf(splits, split)
<1>1. /\ status = "success" /\ split <= Len(splits) /\ input > Len(splits[split].inputs)
      /\ queue' = [queue EXCEPT ![a] = @ \o new] /\ split' = split + 1 /\ input' = 1
      /\ UNCHANGED <<platform, graph, pc, status, ids, copies, splits, places, order, reserved, memory>>
  BY DEF ComputeSplit, Computing, SplitBackend, SplitInputs, machine, hash, cut
<1>2. /\ GraphOK /\ SplitsOK(splits) /\ split \in 1..Len(splits) /\ split \in Nat /\ input \in Nat
      /\ Len(splits) \in Nat /\ a \in Backends
  BY <1>1, RunningFacts
<1>3. new \in Seq(Nat) /\ \A n : n \in Range(new) <=> n \in Nodes /\ Within(splits, split, n)
  BY <1>2, NodesAscend
<1>4. queue \in [Backends -> Seq(Nat)] /\ queue[a] \in Seq(Nat)
  BY <1>2 DEF Running, Queues
<1> HIDE DEF a, new
<1>5. Range(queue[a] \o new) = Range(queue[a]) \union Range(new)
  <2>1. /\ Len(queue[a] \o new) = Len(queue[a]) + Len(new) /\ queue[a] \o new \in Seq(Nat)
        /\ \A x \in 1..Len(queue[a]) : (queue[a] \o new)[x] = queue[a][x]
        /\ \A x \in 1..Len(new) : (queue[a] \o new)[Len(queue[a]) + x] = new[x]
    BY <1>3, <1>4, Concatenated
  <2> DEFINE u == queue[a] \o new
             v == queue[a]
  <2>2. /\ DOMAIN u = 1..Len(v) + Len(new) /\ DOMAIN v = 1..Len(v) /\ DOMAIN new = 1..Len(new)
        /\ Len(v) \in Nat /\ Len(new) \in Nat
    BY <1>3, <1>4, <2>1
  <2>3. (\A x \in 1..Len(v) : u[x] = v[x]) /\ (\A x \in 1..Len(new) : u[Len(v) + x] = new[x])
    BY <2>1
  <2> HIDE DEF u, v
  <2>4. \A y \in Range(v) : y \in Range(u)
    BY <2>2, <2>3 DEF Range
  <2>5. ASSUME NEW y \in Range(new)
        PROVE  y \in Range(u)
    <3>1. PICK x \in 1..Len(new) : y = new[x]
      BY <2>2 DEF Range
    <3>2. Len(v) + x \in DOMAIN u /\ u[Len(v) + x] = y
      BY <2>2, <2>3, <3>1
    <3> QED BY <3>2 DEF Range
  <2>6. ASSUME NEW y \in Range(u)
        PROVE  y \in Range(v) \union Range(new)
    <3>1. PICK x \in 1..Len(v) + Len(new) : y = u[x]
      BY <2>2 DEF Range
    <3>2. x \in 1..Len(v) \/ (x - Len(v) \in 1..Len(new) /\ Len(v) + (x - Len(v)) = x)
      BY <2>2
    <3>3. y = v[x] \/ y = new[x - Len(v)]
      BY <2>3, <3>1, <3>2
    <3> QED BY <2>2, <2>3, <3>1, <3>2 DEF Range
  <2>7. Range(u) = Range(v) \union Range(new)
    BY <2>4, <2>5, <2>6
  <2> QED BY <2>7 DEF u, v
<1>6. \A b \in Backends : \A n : n \in Range(queue'[b]) <=>
        n \in Range(queue[b]) \/ (b = a /\ n \in Nodes /\ Within(splits, split, n))
  <2>1. \A b \in Backends : queue'[b] = IF b = a THEN queue[a] \o new ELSE queue[b]
    BY <1>1, <1>4
  <2> QED BY <1>3, <1>5, <2>1
<1> USE StateFrame
<1>7. ASSUME NEW n \in Nodes
      PROVE  /\ Issued(n)' <=> Issued(n) \/ Within(splits, split, n)
             /\ Waiting(n)' <=> Waiting(n) \/ Within(splits, split, n)
             /\ Within(splits, split, n) => ~Issued(n)
  <2>1. Issued(n)' <=> \E j \in 1..Len(splits) : j < split + 1 /\ Within(splits, j, n)
    BY <1>1 DEF Issued
  <2>2. \A j \in 1..Len(splits) : j < split + 1 <=> j < split \/ j = split
    BY <1>2
  <2>3. Issued(n)' <=> Issued(n) \/ Within(splits, split, n)
    BY <1>2, <2>1, <2>2 DEF Issued
  <2>4. Waiting(n)' <=> Waiting(n) \/ Within(splits, split, n)
    BY <1>1, <1>2, <1>6 DEF Waiting
  <2>5. Within(splits, split, n) => ~Issued(n)
    BY <1>2, IssuedSplit
  <2> QED BY <2>3, <2>4, <2>5
<1>8. \A n \in Nodes : Waiting(n) => Issued(n)
  BY QueuedFacts DEF Waiting
<1>9. \A n \in Nodes : Ran(n)' = Ran(n) /\ ToCome(n)' = ToCome(n)
  BY <1>1, <1>7, <1>8 DEF Ran, ToCome
<1>10. \A k \in 1..Len(splits) : \A i \in 1..Len(splits[k].inputs) : CopyDone(k, i)' = CopyDone(k, i)
  <2> SUFFICES ASSUME NEW k \in 1..Len(splits), NEW i \in 1..Len(splits[k].inputs)
               PROVE  CopyDone(k, i)' <=> CopyDone(k, i)
    BY DEF CopyDone
  <2>1. Len(splits[k].inputs) \in Nat
    BY <1>2, SplitFacts
  <2> QED BY <1>1, <1>2, <2>1 DEF CopyDone
<1>11. \A q : \A m \in Nodes : ReadBy(q, m)' = ReadBy(q, m)
  BY <1>1, <1>9 DEF ReadBy
<1>12. \A q : /\ Returns(q)' = Returns(q)
              /\ \A k \in 1..Len(splits) : \A i \in 1..Len(splits[k].inputs) :
                   CopiedTo(q, k, i)' = CopiedTo(q, k, i)
  BY <1>1, <1>10 DEF Returns, CopiedTo
<1>13. \A q : Wanted(q)' => Wanted(q)
  BY <1>1, <1>11, <1>12 DEF Wanted
<1>14. \A q : Right(q) => Right(q)'
  BY <1>1, <1>9, <1>10 DEF Right
<1>15. \A r : Visible(r) /\ WritesRan(r)' = WritesRan(r)
  BY <1>1, <1>9 DEF Visible, WritesRan
<1>16. Kept'
  BY <1>1, <1>13, <1>14 DEF Kept
<1>17. Caches'
  BY <1>1, <1>15 DEF Caches
<1> QED BY <1>1, <1>16, <1>17

LEMMA FailureKeeps ==
  ASSUME Running, MemoryIs, Kept, Caches, SplitFails
  PROVE  MemoryIs' /\ Kept' /\ Caches'
<1>1. /\ status' = "failed"
      /\ UNCHANGED <<platform, graph, pc, ids, copies, splits, places, order, reserved, split, input, memory>>
  BY DEF SplitFails, machine, hash, cut
<1>2. Laid /\ Reserving /\ GraphOK /\ GoodIds(ids) /\ platform \in Platforms /\ HomesAll
      /\ queue \in [Backends -> Seq(Nat)]
  BY RunningFacts DEF Running, Queues
<1> USE StateFrame
<1>3. \A m : Issued(m)' = Issued(m)
  BY <1>1 DEF Issued
<1>4. \A k, i : CopyDone(k, i)' = CopyDone(k, i)
  BY <1>1 DEF CopyDone
<1>5. \A q : /\ ~Returns(q)'
             /\ \A k, i : ~CopiedTo(q, k, i)'
  BY <1>1 DEF Returns, CopiedTo
<1>6. CASE UNCHANGED queue
  <2>1. \A m : Waiting(m)' = Waiting(m)
    BY <1>1, <1>6 DEF Waiting
  <2>2. \A m : Ran(m)' = Ran(m) /\ (ToCome(m)' => ToCome(m))
    BY <1>1, <1>3, <2>1 DEF Ran, ToCome
  <2>3. \A q, m : ReadBy(q, m)' => ReadBy(q, m)
    BY <1>1, <2>2 DEF ReadBy
  <2>4. \A q : Wanted(q)' => Wanted(q)
    BY <1>1, <1>5, <2>3 DEF Wanted
  <2>5. \A q : Right(q) => Right(q)'
    BY <1>1, <1>4, <2>2 DEF Right
  <2>6. \A r : WritesRan(r)' = WritesRan(r) /\ (Visible(r)' => Visible(r))
    BY <1>1, <1>6, <2>2 DEF WritesRan, Visible
  <2>7. Kept'
    BY <1>1, <2>4, <2>5 DEF Kept
  <2>8. Caches'
    BY <1>1, <2>6 DEF Caches
  <2> QED BY <1>1, <2>7, <2>8
<1>7. CASE ~Returned /\ queue' = [queue EXCEPT ![splits[split - 1].backend] = <<>>]
  <2> DEFINE b == splits[split - 1].backend
  <2>1. split > 1 /\ b \notin platform.async /\ queue[b] # <<>>
    BY <1>7 DEF Returned
  <2>2. b \in Backends
    <3>1. split - 1 \in 1..Len(splits)
      BY <2>1, RunningFacts
    <3> QED BY <3>1, RunningFacts
  <2> HIDE DEF b
  <2>3. \A c \in Backends : queue'[c] = IF c = b THEN <<>> ELSE queue[c]
    BY <1>2, <1>7, <2>2 DEF b
  <2>4. Range(queue'[b]) = {}
    BY <2>2, <2>3 DEF Range
  <2>5. \A m : Waiting(m)' => \E c \in Backends : c # b /\ m \in Range(queue[c])
    BY <1>1, <2>3, <2>4 DEF Waiting
  <2>6. \A m : Waiting(m) /\ ~Waiting(m)' => m \in Range(queue[b])
    BY <1>1, <2>3 DEF Waiting
  <2>7. \A m : Ran(m)' => Ran(m) \/ m \in Range(queue[b])
    BY <1>3, <2>6 DEF Ran
  <2>8. \A m : Ran(m) => Ran(m)'
    BY <1>3, <2>5 DEF Ran, Waiting
  <2>9. ASSUME NEW q \in DOMAIN memory, ~InBuffer(q), Wanted(q)'
        PROVE  Right(q)'
    <3>1. PICK m \in Nodes : ReadBy(q, m)'
      BY <1>1, <1>5, <2>9 DEF Wanted
    <3>2. Waiting(m)'
      BY <1>1, <3>1 DEF ReadBy, ToCome
    <3>3. PICK c \in Backends : c # b /\ m \in Range(queue[c])
      BY <2>5, <3>2
    <3>4. ReadBy(q, m)
      BY <1>1, <3>1, <3>3 DEF ReadBy, ToCome, Waiting
    <3>5. Right(q)
      BY <2>9, <3>4 DEF Kept, Wanted
    <3>6. ids[m] = c /\ queue[c] # <<>>
      BY <3>3, <3>4, QueuedFacts DEF ReadBy
    <3>7. PlaceOf(q).buft \in Uses(c)
      BY <2>9, <3>4, <3>6, ReaderReaches
    <3>8. ASSUME NEW x \in Nodes, Root(x) = x, q = Original(x), Ran(x)'
          PROVE  memory'[q] = x
      <4>1. CASE Ran(x)
        BY <1>1, <3>5, <3>8, <4>1 DEF Right
      <4>2. CASE x \in Range(queue[b])
        <5>1. ~IsView(x)
          BY <1>2, <3>8, GraphFacts, RootFacts
        <5>2. ids[x] = b
          BY <2>2, <4>2, <5>1, QueuedFacts
        <5>3. PlaceOf(q).buft = Buft(b) /\ Buft(b) \in Uses(b)
          BY <1>2, <2>2, <3>8, <5>2, PlaceTypes, MachineFacts
        <5>4. queue[c] = <<>>
          BY <2>1, <2>2, <3>3, <3>7, <5>3, Apart
        <5> QED BY <3>6, <5>4
      <4> QED BY <2>7, <3>8, <4>1, <4>2
    <3> QED BY <1>1, <1>4, <3>5, <3>8 DEF Right
  <2>10. ASSUME NEW r \in DOMAIN Buffer, Visible(r)'
         PROVE  Visible(r) /\ WritesRan(r)' = WritesRan(r)
    <3>1. PICK c \in Backends : queue'[c] # <<>> /\ Buffer[r] \in Uses(c)
      BY <1>1, <2>10 DEF Visible
    <3>2. c # b /\ queue[c] # <<>>
      BY <2>2, <2>3, <3>1
    <3>3. Visible(r)
      BY <3>1, <3>2 DEF Visible
    <3>4. ASSUME NEW w \in Nodes, ~IsView(w), Root(w) = r, w \in Range(queue[b])
          PROVE  FALSE
      <4>1. ids[w] = b
        BY <2>2, <3>4, QueuedFacts
      <4>2. Buffer[r] \in Uses(b)
        BY <1>2, <3>4, <4>1, GraphFacts DEF GoodIds, Stored
      <4> QED BY <2>1, <2>2, <3>1, <3>2, <4>2, Apart
    <3>5. WritesRan(r)' = WritesRan(r)
      BY <1>1, <2>7, <2>8, <3>4 DEF WritesRan
    <3> QED BY <3>3, <3>5
  <2>11. Kept'
    BY <1>1, <2>9 DEF Kept
  <2>12. Caches'
    BY <1>1, <2>10 DEF Caches
  <2> QED BY <1>1, <2>11, <2>12
<1> QED BY <1>6, <1>7 DEF SplitFails

-----------------------------------------------------------------------------
(* The caller's inputs are all there is before the first split.             *)
Fresh == \A r \in DOMAIN Buffer : memory[Original(r)] = 0

LEMMA BeginsKeeps ==
  ASSUME Steady, Queues, MemoryIs, Fresh, SetInputs
  PROVE  MemoryIs' /\ Kept' /\ Caches'
<1>1. /\ pc = "inputs" /\ pc' = "compute" /\ status' = "success" /\ split' = 1 /\ input' = 1
      /\ memory' = [q \in DOMAIN memory |-> IF q[1] \in Inputs /\ q[2] = -1 THEN 0 ELSE memory[q]]
      /\ UNCHANGED <<platform, graph, ids, copies, splits, places, order, reserved, queue>>
  BY DEF SetInputs, machine, hash, cut
<1>2. Laid /\ SplitsOK(splits) /\ \A b \in Backends : queue[b] = <<>>
  BY <1>1, CutFacts DEF Steady, Queues, Laid
<1> USE StateFrame
<1>3. \A m : ~Ran(m)'
  BY <1>1 DEF Ran, Issued
<1>4. \A k \in 1..Len(splits) : \A i \in 1..Len(splits[k].inputs) : ~CopyDone(k, i)'
  <2> SUFFICES ASSUME NEW k \in 1..Len(splits), NEW i \in 1..Len(splits[k].inputs)
               PROVE  ~CopyDone(k, i)'
    OBVIOUS
  <2>1. k \in Nat \ {0} /\ i \in Nat \ {0}
    BY <1>2, SplitFacts
  <2> QED BY <1>1, <2>1 DEF CopyDone
<1>5. DOMAIN memory' = DOMAIN memory
  BY <1>1
<1>6. MemoryIs'
  BY <1>1, <1>5
<1>7. Kept'
  <2> SUFFICES ASSUME NEW q \in DOMAIN memory
               PROVE  Right(q)'
    BY <1>5 DEF Kept
  <2>1. \A t \in Inputs : q = Original(t) => memory'[q] = 0
    BY <1>1 DEF Original
  <2> QED BY <1>1, <1>3, <1>4, <2>1 DEF Right
<1>8. Caches'
  <2> SUFFICES ASSUME NEW r \in DOMAIN Buffer
               PROVE  LastOf(WritesRan(r)', memory'[Original(r)])
    BY DEF Caches, LastOf
  <2>1. WritesRan(r)' = {}
    BY <1>1, <1>3 DEF WritesRan
  <2>2. r \in Leaves /\ r \notin Inputs
    BY SchedConstants
  <2>3. memory'[Original(r)] = 0
    <3>1. Original(r) \in DOMAIN memory
      BY <1>2, <2>2, MemoryPlaces
    <3> QED BY <1>1, <2>2, <3>1 DEF Fresh, Original
  <2> QED BY <2>1, <2>3 DEF LastOf
<1> QED BY <1>6, <1>7, <1>8

LEMMA PlacesLaidOut ==
  ASSUME AllocSplits
  PROVE  MemoryIs' /\ Fresh'
<1>1. memory' = [q \in {Original(t) : t \in Leaves} \union
                       {PlaceAt(order', p) : p \in {r \in DOMAIN order' : Owns(order', r)}}
                   |-> IF InBuffer(q) THEN 0 ELSE -1]
      /\ UNCHANGED graph
  BY DEF AllocSplits
<1>2. \A t : Root(t)' = Root(t)
  BY <1>1 DEF Root, IsLeaf
<1>3. MemoryIs'
  BY <1>1, <1>2 DEF MemoryIs, Owns, PlaceAt
<1>4. Fresh'
  <2> SUFFICES ASSUME NEW r \in DOMAIN Buffer PROVE memory'[Original(r)] = 0
    BY DEF Fresh
  <2>1. r \in Leaves /\ InBuffer(Original(r))
    BY SchedConstants DEF InBuffer, Original
  <2> QED BY <1>1, <2>1
<1> QED BY <1>3, <1>4

LEMMA NothingDone ==
  ASSUME UNCHANGED <<platform, graph, status, ids, splits, places, order, split, input, queue, memory>>
  PROVE  MemoryIs' = MemoryIs /\ Fresh' = Fresh /\ Kept' = Kept /\ Caches' = Caches
<1> USE StateFrame
<1>1. \A m : Issued(m)' = Issued(m) /\ Waiting(m)' = Waiting(m)
  BY DEF Issued, Waiting
<1>2. \A m : Ran(m)' = Ran(m) /\ ToCome(m)' = ToCome(m)
  BY <1>1 DEF Ran, ToCome
<1>3. \A k, i : CopyDone(k, i)' = CopyDone(k, i)
  BY DEF CopyDone
<1>4. \A q, m : ReadBy(q, m)' = ReadBy(q, m)
  BY <1>2 DEF ReadBy
<1>5. \A q : /\ Returns(q)' = Returns(q)
             /\ \A k, i : CopiedTo(q, k, i)' = CopiedTo(q, k, i)
  BY <1>3 DEF Returns, CopiedTo
<1>6. \A q : Wanted(q)' = Wanted(q)
  BY <1>4, <1>5 DEF Wanted
<1>7. \A q : Right(q)' = Right(q)
  BY <1>2, <1>3 DEF Right
<1>8. \A r : Visible(r)' = Visible(r) /\ WritesRan(r)' = WritesRan(r)
  BY <1>2 DEF Visible, WritesRan
<1>9. Kept' = Kept
  BY <1>6, <1>7 DEF Kept
<1>10. Caches' = Caches
  BY <1>8 DEF Caches
<1>11. MemoryIs' = MemoryIs /\ Fresh' = Fresh
  BY DEF Fresh
<1> QED BY <1>9, <1>10, <1>11

ResultFound ==
  pc = "idle" /\ status = "success" /\ graph # <<>> =>
    Holds(Original(Len(graph))) = Writer(Len(graph) + 1, Len(graph))

(* Together with Steady and Queues this is inductive, when what a graph     *)
(* takes over still lasts.                                                  *)
InOrder ==
  /\ misread = {} /\ ResultFound
  /\ pc \in {"inputs", "compute"} => MemoryIs
  /\ pc = "inputs" => Fresh
  /\ pc = "compute" => Kept /\ Caches

LEMMA InOrderNext == Steady /\ Queues /\ PlacesServe /\ InOrder /\ [Next]_vars => InOrder'
<1> SUFFICES ASSUME Steady, Queues, PlacesServe, InOrder, [Next]_vars PROVE InOrder'
  OBVIOUS
<1>1. misread = {} /\ ResultFound
  BY DEF InOrder
<1>2. ASSUME pc' # "idle" PROVE ResultFound'
  BY <1>2 DEF ResultFound
<1>3. ASSUME UNCHANGED <<graph, memory>>
      PROVE  (Holds(Original(Len(graph))) = Writer(Len(graph) + 1, Len(graph)))' =
             (Holds(Original(Len(graph))) = Writer(Len(graph) + 1, Len(graph)))
  <2>1. \A t : Root(t)' = Root(t)
    BY <1>3 DEF Root, IsLeaf
  <2>2. \A n, t : Writer(n, t)' = Writer(n, t)
    BY <1>3, <2>1 DEF Writer
  <2>3. \A q : Holds(q)' = Holds(q)
    BY <1>3, <2>1 DEF Holds
  <2> QED BY <1>3, <2>2, <2>3
<1>4. CASE BuildGraph
  BY <1>1, <1>2, <1>4 DEF BuildGraph, InOrder
<1>5. CASE SplitGraph
  BY <1>2, <1>5 DEF SplitGraph, InOrder
<1>6. CASE AllocSplits
  BY <1>1, <1>2, <1>6, PlacesLaidOut DEF AllocSplits, InOrder
<1>7. CASE SetInputs
  <2>1. MemoryIs /\ Fresh /\ pc' = "compute" /\ misread' = misread
    BY <1>7 DEF SetInputs, InOrder
  <2>2. MemoryIs' /\ Kept' /\ Caches'
    BY <1>7, <2>1, BeginsKeeps
  <2> QED BY <1>1, <1>2, <2>1, <2>2 DEF InOrder
<1>8. ASSUME pc = "compute"
      PROVE  Running /\ MemoryIs /\ Kept /\ Caches
  BY <1>8 DEF InOrder, Running
<1>9. ASSUME pc = "compute", pc' = pc, misread' = misread, MemoryIs', Kept', Caches'
      PROVE  InOrder'
  BY <1>1, <1>2, <1>9 DEF InOrder
<1>10. CASE CopyInput
  <2>1. pc = "compute" /\ pc' = pc /\ misread' = misread
    BY <1>10 DEF CopyInput, Computing
  <2> QED BY <1>8, <1>9, <1>10, <2>1, CopyKeeps
<1>11. CASE ComputeSplit
  <2>1. pc = "compute" /\ pc' = pc /\ misread' = misread
    BY <1>11 DEF ComputeSplit, Computing
  <2> QED BY <1>8, <1>9, <1>11, <2>1, SplitKeeps
<1>12. CASE SplitFails
  <2>1. pc = "compute" /\ pc' = pc /\ misread' = misread
    BY <1>12 DEF SplitFails
  <2> QED BY <1>8, <1>9, <1>12, <2>1, FailureKeeps
<1>13. ASSUME NEW b \in Backends, ComputeNode(b)
       PROVE  InOrder'
  <2>1. pc = "compute"
    BY <1>13 DEF ComputeNode, Queues
  <2>2. pc' = pc
    BY <1>13 DEF ComputeNode
  <2> QED BY <1>8, <1>9, <1>13, <2>1, <2>2, NodeKeeps
<1>14. CASE Finish
  <2>1. /\ pc = "compute" /\ pc' = "idle" /\ UNCHANGED <<graph, memory, status, misread>>
        /\ split > Len(splits) \/ status = "failed"
        /\ \A b \in Backends : queue[b] = <<>>
    BY <1>14 DEF Finish
  <2>2. status = "success" => Holds(Original(Len(graph))) = Writer(Len(graph) + 1, Len(graph))
    BY <1>8, <2>1, ResultHolds
  <2>3. ResultFound'
    BY <1>3, <2>1, <2>2 DEF ResultFound
  <2> QED BY <1>1, <2>1, <2>3 DEF InOrder
<1>15. CASE UNCHANGED vars
  <2>1. UNCHANGED <<platform, graph, pc, status, ids, splits, places, order, split, input, queue, memory, misread>>
    BY <1>15 DEF vars, machine, hash, cut
  <2>2. MemoryIs' = MemoryIs /\ Fresh' = Fresh /\ Kept' = Kept /\ Caches' = Caches
    BY <2>1, NothingDone
  <2>3. ResultFound'
    BY <1>1, <1>3, <2>1 DEF ResultFound
  <2> QED BY <1>1, <2>1, <2>2, <2>3 DEF InOrder
<1> QED BY <1>4, <1>5, <1>6, <1>7, <1>10, <1>11, <1>12, <1>13, <1>14, <1>15 DEF Next

(* Wherever what a graph takes over still lasts (PlacesServe, which is      *)
(* ggml-alloc's affair), every node reads what it would read if the graph   *)
(* were computed in order, and the caller finds the last node's result:     *)
(* however many splits there are, whatever backends are still computing     *)
(* when an input is copied, also after a backend has failed.                *)
THEOREM NodesReadInOrder == Spec /\ []PlacesServe => []ReadsAsInOrder
<1>1. Init => InOrder
  BY DEF Init, InOrder, ResultFound
<1>2. (Steady /\ Queues) /\ PlacesServe /\ InOrder /\ [Next]_vars => InOrder'
  BY InOrderNext
<1>3. InOrder => ReadsAsInOrder
  BY DEF InOrder, ResultFound, ReadsAsInOrder
<1> QED BY <1>1, <1>2, <1>3, SchedInductive, PTL DEF Spec

-----------------------------------------------------------------------------
(* How a graph is laid out that no earlier one has left anything for.       *)
IdsAnew    == Pass4(Pass3(Pass2(Pass1([t \in Tensors |-> -1]))))
CutAnew    == Pass5(IdsAnew, {})
OrderAnew  == OrderOf(IdsAnew, CutAnew.splits)
ReserveAnew == Reserve(IdsAnew, OrderAnew, CutAnew.places)

LEMMA LaidOutAlike ==
  ASSUME UNCHANGED <<platform, graph>>
  PROVE  IdsAnew' = IdsAnew /\ CutAnew' = CutAnew /\ OrderAnew' = OrderAnew /\ ReserveAnew' = ReserveAnew
<1>1. IdsAnew' = IdsAnew
  BY DEF IdsAnew, Pass1, Pass2, Pass3, Pass4, BackendFromCur, BackendFromBuffer, BackendOfWeight, Expand, Up, Down,
         Spread, Upgrade, Upgrades, Best, Supported, BufferSupported, Settle, OwnBackend, SourceBackend,
         FoldLeft, MapThenFoldSet, Reverse, Tensors, Nodes, Backends, Cpu, Buft, Uses, Src, Root, Runs, Stored, IsLeaf, IsView
<1>2. \A f : Pass5(f, {})' = Pass5(f, {})
  BY DEF Pass5, AddNode, BeginCut, FirstSplit, BeginSplit, NeedNewSplit, AddSource, Foreign, BufferSupported,
         FoldLeft, MapThenFoldSet, Down, Nodes, Backends, Cpu, Buft, Uses, Src, Root, Stored, IsLeaf, IsView, Original
<1>3. \A f, sp : OrderOf(f, sp)' = OrderOf(f, sp)
  BY DEF OrderOf, InputEntries, NodeEntries, NodesOf, Entry, FoldLeft, MapThenFoldSet
<1>4. \A f, ord, pl : Reserve(f, ord, pl)' = Reserve(f, ord, pl)
  BY DEF Reserve, Place, Owns, PlaceAt, LastUse, Users, Buft, Nodes, Root, IsLeaf, Original,
         PlacedSources, SourcesOf, ToPlace, InBuffer
<1>5. CutAnew' = CutAnew
  BY <1>1, <1>2 DEF CutAnew
<1>6. OrderAnew' = OrderAnew
  BY <1>1, <1>3, <1>5 DEF OrderAnew
<1>7. ReserveAnew' = ReserveAnew
  BY <1>1, <1>4, <1>5, <1>6 DEF ReserveAnew
<1> QED BY <1>1, <1>5, <1>6, <1>7

(* The caller computes one graph again and again.                           *)
OneGraph == \A m \in Platforms : \A p \in Programs(m) : \A g, h \in Range(p) : g = h

SameGraph ==
  \E p \in Programs(platform) : program \in Seq(Range(p)) /\ (graph # <<>> => graph \in Range(p))
Repeating ==
  /\ SameGraph
  /\ pc \in {"alloc", "inputs", "compute"} =>
       ids = IdsAnew /\ splits = CutAnew.splits /\ places = CutAnew.places
  /\ pc \in {"inputs", "compute"} => order = OrderAnew /\ reserved = ReserveAnew
  /\ reserved.nodes # <<>> => graph # <<>> /\ reserved = ReserveAnew

Nonempty == Len(order) # 0
LEMMA LaidHasNodes == Laid => Nonempty
<1> SUFFICES ASSUME Laid PROVE Nonempty
  OBVIOUS
<1>1. GraphOK /\ SplitsOK(splits)
  BY CutFacts DEF Laid
<1>2. PICK B : Starts(ids, splits, order, B)
  BY DEF Laid
<1>3. PICK n \in Nodes : TRUE
  BY <1>1, GraphFacts
<1>4. PICK k \in 1..Len(splits) : Within(splits, k, n)
  BY <1>1, SplitOfNode
<1>5. Positioned(ids, splits, order, B, k)
  BY <1>1, <1>2, Positions
<1>6. NodePos(splits, B, k, n) \in Int /\ InBlock(B, k, NodePos(splits, B, k, n))
  BY <1>4, <1>5 DEF Positioned
<1>7. NodePos(splits, B, k, n) \in DOMAIN order /\ DOMAIN order = 1..Len(order) /\ Len(order) \in Nat
  BY <1>1, <1>2, <1>6, BlocksRanked
<1> QED BY <1>7 DEF Nonempty

LEMMA LaidHasNodesNext == Laid' => Nonempty'
BY LaidHasNodes, PTL

LEMMA RepeatingNext ==
  ASSUME OneGraph, Steady, Steady', Repeating, [Next]_vars
  PROVE  Repeating'
<1> USE DEF Repeating
<1>1. PICK p \in Programs(platform) : program \in Seq(Range(p)) /\ (graph # <<>> => graph \in Range(p))
  BY DEF SameGraph
<1>2. platform \in Platforms
  BY DEF Steady, Machined
<1>3. ASSUME UNCHANGED <<platform, program, graph>>
      PROVE  /\ SameGraph'
             /\ IdsAnew' = IdsAnew /\ CutAnew' = CutAnew /\ OrderAnew' = OrderAnew /\ ReserveAnew' = ReserveAnew
  BY <1>1, <1>3, LaidOutAlike DEF SameGraph
<1>4. ASSUME UNCHANGED <<platform, program, graph, ids, splits, places, order, reserved>>,
             pc' = pc \/ (pc = "inputs" /\ pc' = "compute")
      PROVE  Repeating'
  BY <1>3, <1>4
<1>5. CASE BuildGraph
  <2>1. /\ graph' = Head(program) /\ program' = Tail(program) /\ program # <<>> /\ pc' = "split"
        /\ platform' = platform /\ reserved' = reserved
    BY <1>5 DEF BuildGraph, cut
  <2>2. Head(program) \in Range(p) /\ Tail(program) \in Seq(Range(p))
    BY <1>1, <2>1, HeadTail
  <2>3. SameGraph'
    BY <2>1, <2>2 DEF SameGraph
  <2>4. ASSUME reserved.nodes # <<>>
        PROVE  graph' # <<>> /\ reserved' = ReserveAnew'
    <3>1. graph' = graph
      BY <1>1, <1>2, <2>1, <2>2, <2>4 DEF OneGraph
    <3> QED BY <2>1, <2>4, <3>1, LaidOutAlike
  <2> QED BY <2>1, <2>3, <2>4
<1>6. CASE SplitGraph
  <2>1. /\ pc = "split" /\ ids' = Assigned /\ UNCHANGED <<platform, program, graph, reserved>>
        /\ splits' = Pass5(ids', copies).splits /\ places' = Pass5(ids', copies).places
        /\ pc' \in {"aborted", "alloc"}
    BY <1>6 DEF SplitGraph, machine
  <2>2. ids = <<>> /\ copies = {}
    BY <2>1 DEF Steady
  <2>3. Assigned = IdsAnew
    BY <2>2 DEF Assigned, IdsAnew
  <2>4. ids' = IdsAnew /\ splits' = CutAnew.splits /\ places' = CutAnew.places
    BY <2>1, <2>2, <2>3 DEF CutAnew
  <2> QED BY <1>3, <2>1, <2>4
<1>7. CASE AllocSplits
  <2>1. /\ pc = "alloc" /\ order' = OrderAnew /\ UNCHANGED <<platform, program, graph, ids, splits, places>>
        /\ pc' \in {"inputs", "failed"}
    BY <1>7 DEF AllocSplits, machine, hash, OrderAnew
  <2>2. graph # <<>>
    <3>1. GraphOK
      BY <2>1 DEF Steady
    <3> QED BY <3>1 DEF GraphOK, WellFormed
  <2>3. CASE reserved' = Reserve(ids, order', places)
    <3>1. reserved' = ReserveAnew
      BY <2>1, <2>3 DEF ReserveAnew
    <3> QED BY <1>3, <2>1, <2>2, <3>1
  <2>4. CASE ~NeedsRealloc(order') /\ reserved' = reserved /\ pc' = "inputs"
    <3>1. Len(order') # 0
      BY <2>4, LaidHasNodesNext DEF Steady, Nonempty
    <3>2. Len(reserved.nodes) = Len(order')
      BY <2>4 DEF NeedsRealloc
    <3>3. reserved.nodes # <<>>
      BY <3>1, <3>2
    <3> QED BY <1>3, <2>1, <2>2, <2>4, <3>3
  <2> QED BY <1>7, <2>3, <2>4 DEF AllocSplits
<1>8. CASE SetInputs
  BY <1>4, <1>8 DEF SetInputs, machine, hash, cut
<1>9. CASE CopyInput
  BY <1>4, <1>9 DEF CopyInput, machine, hash, cut
<1>10. CASE ComputeSplit
  BY <1>4, <1>10 DEF ComputeSplit, machine, hash, cut
<1>11. CASE SplitFails
  BY <1>4, <1>11 DEF SplitFails, machine, hash, cut
<1>12. CASE Finish
  BY <1>3, <1>12 DEF Finish, machine, cut
<1>13. ASSUME NEW b \in Backends, ComputeNode(b)
       PROVE  Repeating'
  BY <1>4, <1>13 DEF ComputeNode, machine, hash, cut
<1>14. CASE UNCHANGED vars
  BY <1>4, <1>14 DEF vars, machine, hash, cut
<1> QED BY <1>5, <1>6, <1>7, <1>8, <1>9, <1>10, <1>11, <1>12, <1>13, <1>14 DEF Next

LEMMA RepeatingServes ==
  ASSUME Steady, InOrder, Repeating
  PROVE  PlacesServe
<1> SUFFICES ASSUME pc \in {"inputs", "compute"}, NEW q \in DOMAIN memory, ~InBuffer(q)
             PROVE  PlaceOf(q).last >= LastUse(order, places, q)
  BY DEF PlacesServe
<1>1. Laid /\ MemoryIs /\ order = OrderAnew /\ reserved = Reserve(ids, order, places)
  BY DEF Steady, InOrder, Repeating, ReserveAnew
<1>2. Lasts(q) \in Nat /\ DOMAIN order = 1..Len(order) /\ Len(order) \in Nat
  BY <1>1, LastsAre, OrderHasNodes
<1>3. CASE q[2] = -1 /\ q[1] \in Inputs /\ q = Original(q[1])
  <2>1. PlaceOf(q) = reserved.leafs[q[1]]
    BY <1>3 DEF PlaceOf, PositionOf
  <2>2. PlaceOf(q).last = LastUse(order, places, q)
    BY <1>1, <1>3, <2>1 DEF Reserve, Place
  <2> QED BY <1>2, <2>2 DEF Lasts
<1>4. CASE ~(q[2] = -1 /\ q[1] \in Inputs) /\ \E p \in DOMAIN order : Owns(order, p) /\ PlaceAt(order, p) = q
  <2> DEFINE P == PositionOf(q)
  <2>1. P \in DOMAIN order /\ Owns(order, P) /\ PlaceAt(order, P) = q
    BY <1>4 DEF PositionOf
  <2> HIDE DEF P
  <2>2. P # 0
    BY <1>2, <2>1
  <2>3. PlaceOf(q) = reserved.nodes[P]
    BY <2>2 DEF PlaceOf, P
  <2>4. PlaceOf(q).last = LastUse(order, places, q)
    BY <1>1, <2>1, <2>3 DEF Reserve, Place
  <2> QED BY <1>2, <2>4 DEF Lasts
<1>5. (\E t \in Leaves : q = Original(t)) \/ \E p \in DOMAIN order : Owns(order, p) /\ PlaceAt(order, p) = q
  BY <1>1 DEF MemoryIs
<1>6. ASSUME NEW t \in Leaves, q = Original(t)
      PROVE  q[2] = -1 /\ q[1] \in Inputs /\ q = Original(q[1])
  BY <1>6, SchedConstants DEF InBuffer, Original
<1>7. ASSUME NEW p \in DOMAIN order, PlaceAt(order, p) = q, q[2] = -1
      PROVE  q = Original(q[1])
  BY <1>7 DEF PlaceAt, Original
<1> QED BY <1>3, <1>4, <1>5, <1>6, <1>7

(* A scheduler that is given one graph over and over, as whisper's are when *)
(* they decode one token after another: what a graph takes over always      *)
(* lasts, and every node reads what it would read in order, whatever the    *)
(* machine, with nothing assumed of the allocator.                          *)
THEOREM RepeatedGraphsServe == ASSUME OneGraph PROVE Spec => [](PlacesServe /\ ReadsAsInOrder)
<1>1. Init => InOrder /\ Repeating
  <2> SUFFICES ASSUME Init PROVE InOrder /\ Repeating
    OBVIOUS
  <2>1. InOrder
    BY DEF Init, InOrder, ResultFound
  <2>2. program \in Seq(Range(program))
    BY SchedPrograms DEF Init
  <2>3. SameGraph
    BY <2>2 DEF Init, SameGraph
  <2> QED BY <2>1, <2>3 DEF Init, Repeating
<1>2. Steady /\ InOrder /\ Repeating => PlacesServe
  BY RepeatingServes
<1>3. (Steady /\ Queues) /\ (Steady /\ Queues)' /\ (InOrder /\ Repeating) /\ [Next]_vars => (InOrder /\ Repeating)'
  BY <1>2, OneGraph, RepeatingNext, InOrderNext
<1>4. InOrder => ReadsAsInOrder
  BY DEF InOrder, ResultFound, ReadsAsInOrder
<1> QED BY <1>1, <1>2, <1>3, <1>4, SchedInductive, PTL DEF Spec
=============================================================================
