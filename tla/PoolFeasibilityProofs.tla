----------------------- MODULE PoolFeasibilityProofs ------------------------
(***************************************************************************)
(* Proofs that the vCenter filters of the assignment loop do what they are *)
(* for: a lease that can be completed from the pools that fit now is never *)
(* stopped, and a pick under a cap never makes it impossible.              *)
(***************************************************************************)
EXTENDS PoolAssignmentProofs

----------------------------------------------------------------------------
(* The best pool.                                                          *)

\* A set of numbers that is not empty has a least one.
LEMMA LeastNumber ==
    ASSUME NEW S \in SUBSET Nat, S # {}
    PROVE  \E m \in S : \A k \in S : m <= k
<1>1. PICK m \in S : \A k \in S : ~(<<k, m>> \in OpToRel(<, Nat))
  BY NatLessThanWellFounded, WFMin DEF OpToRel
<1>2. \A k \in S : ~(k < m)
  BY <1>1 DEF OpToRel
<1> QED BY <1>2

\* Fractions of positive denominators are ordered by their cross products.
LEMMA Fractions ==
    ASSUME NEW a \in Int, NEW b \in Int, NEW c \in Int,
           NEW d \in Nat \ {0}, NEW e \in Nat \ {0}, NEW f \in Nat \ {0},
           a * e > b * d, b * f > c * e
    PROVE  a * f > c * d
<1>1. (a * e) * f > (b * d) * f
  OBVIOUS
<1>2. (b * f) * d > (c * e) * d
  OBVIOUS
<1>3. (a * f) * e > (c * d) * e
  BY <1>1, <1>2
<1> QED BY <1>3

\* The scores that ScoresAbove compares, as fractions.
ScoreNum(p, fr) == fr[p].vcpus * PoolSpec[p].memory + fr[p].memory * PoolSpec[p].vcpus
ScoreDen(p) == PoolSpec[p].vcpus * PoolSpec[p].memory

\* The free resources of every pool are numbers.
FreeType(fr) == \A p \in Pools : fr[p].vcpus \in Int /\ fr[p].memory \in Int

\* ScoresAbove is a strict order.
LEMMA ScoreOrder ==
    ASSUME NEW fr, FreeType(fr)
    PROVE  /\ \A p \in Pools : ~ScoresAbove(p, p, fr)
           /\ \A p, q, r \in Pools : ScoresAbove(r, q, fr) /\ ScoresAbove(q, p, fr) => ScoresAbove(r, p, fr)
<1>1. \A p \in Pools : ScoreNum(p, fr) \in Int /\ ScoreDen(p) \in Nat \ {0}
  <2> SUFFICES ASSUME NEW p \in Pools PROVE ScoreNum(p, fr) \in Int /\ ScoreDen(p) \in Nat \ {0}
    OBVIOUS
  <2> DEFINE v == PoolSpec[p].vcpus
             m == PoolSpec[p].memory
             x == fr[p].vcpus
             y == fr[p].memory
  <2>1. v \in Nat \ {0} /\ m \in Nat \ {0} /\ x \in Int /\ y \in Int
    BY PoolSpecType DEF FreeType
  <2> HIDE DEF v, m, x, y
  <2>2. x * m + y * v \in Int /\ v * m \in Nat \ {0}
    BY <2>1
  <2> QED BY <2>2 DEF ScoreNum, ScoreDen, v, m, x, y
<1>2. \A p, q : ScoresAbove(p, q, fr) <=> ScoreNum(p, fr) * ScoreDen(q) > ScoreNum(q, fr) * ScoreDen(p)
  BY DEF ScoresAbove, ScoreNum, ScoreDen
<1>3. \A p \in Pools : ~ScoresAbove(p, p, fr)
  BY <1>1, <1>2
<1>4. ASSUME NEW p \in Pools, NEW q \in Pools, NEW r \in Pools, ScoresAbove(r, q, fr), ScoresAbove(q, p, fr)
      PROVE  ScoresAbove(r, p, fr)
  BY <1>1, <1>2, <1>4, Fractions
<1> QED BY <1>3, <1>4

\* The sort of GetPoolWithStrategy has a first pool, if there is any.
LEMMA SomePoolIsBest ==
    ASSUME NEW fr, FreeType(fr), NEW F \in SUBSET Pools, F # {}
    PROVE  \E p \in F : \A q \in F : ~ScoresAbove(q, p, fr)
<1> DEFINE above(p) == {q \in F : ScoresAbove(q, p, fr)}
           sizes    == {Cardinality(above(p)) : p \in F}
<1>1. ASSUME NEW p \in F PROVE IsFiniteSet(above(p)) /\ Cardinality(above(p)) \in Nat
  BY PoolsFinite, FS_Subset, FS_CardinalityType
<1>2. PICK m \in sizes : \A k \in sizes : m <= k
  <2>1. sizes \in SUBSET Nat /\ sizes # {}
    <3> HIDE DEF above
    <3> QED BY <1>1
  <2> HIDE DEF sizes
  <2> QED BY <2>1, LeastNumber
<1>3. PICK p \in F : m = Cardinality(above(p))
  BY <1>2
<1>4. ASSUME NEW q \in F, ScoresAbove(q, p, fr) PROVE FALSE
  <2>1. above(q) \in SUBSET above(p) /\ q \in above(p) /\ q \notin above(q)
    BY <1>4, ScoreOrder
  <2> HIDE DEF above
  <2>2. Cardinality(above(q)) <= Cardinality(above(p)) /\ Cardinality(above(q)) # Cardinality(above(p))
    BY <1>1, <2>1, FS_Subset
  <2>3. Cardinality(above(p)) <= Cardinality(above(q))
    BY <1>2, <1>3
  <2> QED BY <1>1, <2>2, <2>3
<1> QED BY <1>4

----------------------------------------------------------------------------
(* Counting pools by vCenter.                                              *)

\* The pools of one vCenter, numbered.
Numbering(E, v) == CHOOSE f : f \in Bijection(1..Cardinality(OnVCenters(E, {v})), OnVCenters(E, {v}))

\* Every one of them has a number, and no two have the same.
LEMMA NumberingWorks ==
    ASSUME NEW E, IsFiniteSet(E), NEW v
    PROVE  LET C == OnVCenters(E, {v})
           IN  /\ IsFiniteSet(C) /\ Cardinality(C) \in Nat
               /\ Numbering(E, v) \in [1..Cardinality(C) -> C]
               /\ \A p \in C : \E i \in 1..Cardinality(C) : Numbering(E, v)[i] = p
               /\ \A i, j \in 1..Cardinality(C) : Numbering(E, v)[i] = Numbering(E, v)[j] => i = j
<1> DEFINE C == OnVCenters(E, {v})
<1>1. IsFiniteSet(C)
  BY FS_Subset DEF OnVCenters
<1> HIDE DEF C
<1>2. Cardinality(C) \in Nat /\ ExistsBijection(1..Cardinality(C), C)
  BY <1>1, FS_CardinalityType
<1>3. \E f : f \in Bijection(1..Cardinality(C), C)
  BY <1>2 DEF ExistsBijection
<1>4. Numbering(E, v) \in Bijection(1..Cardinality(C), C)
  BY <1>3 DEF Numbering, C
<1> QED BY <1>1, <1>2, <1>4 DEF C, Bijection, Injection, Surjection, IsInjective

\* If no vCenter of V has more than k pools, there are no more than k for each.
LEMMA AtMostEach ==
    ASSUME NEW E, IsFiniteSet(E), NEW V, IsFiniteSet(V), NEW k \in Nat,
           \A p \in E : Server(p) \in V,
           \A v \in V : Cardinality(OnVCenters(E, {v})) <= k
    PROVE  Cardinality(E) <= Cardinality(V) * k
<1> DEFINE count(v)  == Cardinality(OnVCenters(E, {v}))
           number(p) == CHOOSE i \in 1..count(Server(p)) : Numbering(E, Server(p))[i] = p
           g         == [p \in E |-> <<Server(p), number(p)>>]
<1>1. ASSUME NEW p \in E
      PROVE  number(p) \in 1..k /\ Numbering(E, Server(p))[number(p)] = p
  <2>1. p \in OnVCenters(E, {Server(p)})
    BY DEF OnVCenters
  <2>2. \E i \in 1..count(Server(p)) : Numbering(E, Server(p))[i] = p
    BY <2>1, NumberingWorks
  <2>3. number(p) \in 1..count(Server(p)) /\ Numbering(E, Server(p))[number(p)] = p
    BY <2>2
  <2>4. count(Server(p)) <= k /\ count(Server(p)) \in Nat
    BY NumberingWorks
  <2> HIDE DEF count, number
  <2> QED BY <2>3, <2>4
<1> HIDE DEF number
<1>2. g \in [E -> V \X (1..k)]
  BY <1>1
<1>3. \A p, q \in E : g[p] = g[q] => p = q
  <2> SUFFICES ASSUME NEW p \in E, NEW q \in E, g[p] = g[q] PROVE p = q
    OBVIOUS
  <2>1. Server(p) = Server(q) /\ number(p) = number(q)
    OBVIOUS
  <2> QED BY <1>1, <2>1
<1>4. g \in Injection(E, V \X (1..k))
  BY <1>2, <1>3 DEF Injection, IsInjective
<1>5. IsFiniteSet(1..k) /\ Cardinality(1..k) = k
  BY FS_Interval
<1>6. IsFiniteSet(V \X (1..k)) /\ Cardinality(V \X (1..k)) = Cardinality(V) * k
  BY <1>5, FS_Product
<1> HIDE DEF g
<1> QED BY <1>4, <1>6, FS_Injection

\* If every vCenter of V has at least k pools, there are at least k for each.
LEMMA AtLeastEach ==
    ASSUME NEW E, IsFiniteSet(E), NEW V, IsFiniteSet(V), NEW k \in Nat,
           \A v \in V : Cardinality(OnVCenters(E, {v})) >= k
    PROVE  Cardinality(V) * k <= Cardinality(E)
<1> DEFINE g == [x \in V \X (1..k) |-> Numbering(E, x[1])[x[2]]]
<1>1. ASSUME NEW v \in V, NEW i \in 1..k
      PROVE  /\ Numbering(E, v)[i] \in E /\ Server(Numbering(E, v)[i]) = v
             /\ \A j \in 1..k : Numbering(E, v)[i] = Numbering(E, v)[j] => i = j
  <2>1. Cardinality(OnVCenters(E, {v})) >= k /\ Cardinality(OnVCenters(E, {v})) \in Nat
    BY NumberingWorks
  <2>2. 1..k \subseteq 1..Cardinality(OnVCenters(E, {v}))
    BY <2>1
  <2>3. Numbering(E, v)[i] \in OnVCenters(E, {v})
    BY <2>2, NumberingWorks
  <2>4. Numbering(E, v)[i] \in E /\ Server(Numbering(E, v)[i]) = v
    BY <2>3 DEF OnVCenters
  <2>5. \A j \in 1..k : Numbering(E, v)[i] = Numbering(E, v)[j] => i = j
    BY <2>2, NumberingWorks
  <2> QED BY <2>4, <2>5
<1>2. g \in [V \X (1..k) -> E]
  BY <1>1
<1>3. \A x, y \in V \X (1..k) : g[x] = g[y] => x = y
  <2> SUFFICES ASSUME NEW x \in V \X (1..k), NEW y \in V \X (1..k), g[x] = g[y] PROVE x = y
    OBVIOUS
  <2>1. x[1] \in V /\ y[1] \in V /\ x[2] \in 1..k /\ y[2] \in 1..k /\ x = <<x[1], x[2]>> /\ y = <<y[1], y[2]>>
    OBVIOUS
  <2>2. Numbering(E, x[1])[x[2]] = Numbering(E, y[1])[y[2]]
    OBVIOUS
  <2>3. x[1] = y[1]
    BY <1>1, <2>1, <2>2
  <2>4. x[2] = y[2]
    BY <1>1, <2>1, <2>2, <2>3
  <2> QED BY <2>1, <2>3, <2>4
<1>4. g \in Injection(V \X (1..k), E)
  BY <1>2, <1>3 DEF Injection, IsInjective
<1>5. IsFiniteSet(1..k) /\ Cardinality(1..k) = k
  BY FS_Interval
<1>6. Cardinality(V \X (1..k)) = Cardinality(V) * k
  BY <1>5, FS_Product
<1> HIDE DEF g
<1> QED BY <1>4, <1>6, FS_Injection

\* A finite set has subsets of every size up to its own, around any of its members.
LEMMA SubsetOfSize ==
    ASSUME NEW F, IsFiniteSet(F), NEW p \in F, NEW k \in 1..Cardinality(F)
    PROVE  \E T \in SUBSET F : p \in T /\ Cardinality(T) = k
<1> DEFINE n == Cardinality(F)
<1>1. n \in Nat /\ \E f : f \in Bijection(1..n, F)
  BY FS_CardinalityType DEF ExistsBijection
<1>2. PICK f : f \in Bijection(1..n, F)
  BY <1>1
<1> HIDE DEF n
<1>a. k \in 1..n
  BY DEF n
<1> DEFINE T == {f[i] : i \in 1..k}
           g == [i \in 1..k |-> f[i]]
<1>3. /\ f \in [1..n -> F] /\ (\A i, j \in 1..n : f[i] = f[j] => i = j)
      /\ 1..k \subseteq 1..n
  BY <1>1, <1>2, <1>a DEF Bijection, Injection, IsInjective
<1>4. g \in Bijection(1..k, T)
  BY <1>3 DEF Bijection, Injection, Surjection, IsInjective
<1>5. ExistsBijection(1..k, T) /\ k \in Nat
  <2> HIDE DEF g, T
  <2> QED BY <1>1, <1>4, <1>a DEF ExistsBijection
<1>6. Cardinality(T) = k /\ T \in SUBSET F
  <2>1. T \in SUBSET F
    BY <1>3
  <2> HIDE DEF T
  <2> QED BY <1>5, <2>1, FS_CountingElements
<1>7. f[1] \in T
  BY <1>1, <1>a
<1> HIDE DEF T
<1>8. CASE p \in T
  BY <1>6, <1>8
<1>9. CASE p \notin T
  <2> DEFINE U == (T \ {f[1]}) \cup {p}
  <2>1. IsFiniteSet(T)
    BY <1>6, FS_Subset
  <2>2. IsFiniteSet(T \ {f[1]}) /\ Cardinality(T \ {f[1]}) = k - 1
    BY <1>6, <1>7, <2>1, FS_RemoveElement
  <2>3. Cardinality(U) = (k - 1) + 1
    BY <1>9, <2>2, FS_AddElement
  <2>4. Cardinality(U) = k /\ p \in U /\ U \in SUBSET F
    BY <1>5, <1>6, <2>3
  <2> QED BY <2>4
<1> QED BY <1>8, <1>9

----------------------------------------------------------------------------
(* A lease that can be completed has a pick.                               *)

\* The lease l with the pools S can be completed by the pools extra, out of those that
\* fit: F.
Completes(l, S, F, extra) ==
    LET n == Cardinality(GetVCentersInUse(S \cup extra))
    IN  /\ extra \in SUBSET F
        /\ Cardinality(S \cup extra) = requiredPools(l)
        /\ n >= l.minVCenters
        /\ l.vcenters > 0 => n <= l.vcenters

\* The bounds of a lease are numbers.
BoundsAreNumbers(l) == l.pools \in Nat /\ l.vcenters \in Nat /\ l.minVCenters \in Nat

\* All of the above, of pools S assigned to l and pools F that fit.
Completion(l, S, F, extra) ==
    BoundsAreNumbers(l) /\ S \in SUBSET Pools /\ F \in SUBSET (Pools \ S) /\ Completes(l, S, F, extra)

\* What a completion adds: as many pools as are missing, and their vCenters.
LEMMA CompletionCounts ==
    ASSUME NEW l, NEW S, NEW F, NEW extra, Completion(l, S, F, extra)
    PROVE  /\ IsFiniteSet(S) /\ IsFiniteSet(extra) /\ Cardinality(S) \in Nat /\ Cardinality(extra) \in Nat
           /\ requiredPools(l) \in Nat /\ Cardinality(extra) = requiredPools(l) - Cardinality(S)
           /\ GetVCentersInUse(S \cup extra) = GetVCentersInUse(S) \cup GetVCentersInUse(extra)
           /\ IsFiniteSet(GetVCentersInUse(S)) /\ Cardinality(GetVCentersInUse(S)) \in Nat
           /\ IsFiniteSet(GetVCentersInUse(extra)) /\ Cardinality(GetVCentersInUse(extra)) \in Nat
           /\ IsFiniteSet(GetVCentersInUse(S \cup extra)) /\ Cardinality(GetVCentersInUse(S \cup extra)) \in Nat
<1>1. /\ BoundsAreNumbers(l) /\ S \in SUBSET Pools /\ F \in SUBSET (Pools \ S)
      /\ extra \in SUBSET F /\ Cardinality(S \cup extra) = requiredPools(l)
  BY DEF Completion, Completes
<1>2. IsFiniteSet(S) /\ IsFiniteSet(extra) /\ IsFiniteSet(S \cup extra)
  <2>1. S \in SUBSET Pools /\ extra \in SUBSET Pools /\ S \cup extra \in SUBSET Pools
    BY <1>1
  <2> QED BY <2>1, PoolsFinite, FS_Subset
<1>3. Cardinality(S) \in Nat /\ Cardinality(extra) \in Nat
  BY <1>2, FS_CardinalityType
<1>4. requiredPools(l) \in Nat
  BY <1>1 DEF requiredPools, BoundsAreNumbers
<1>5. Cardinality(extra) = requiredPools(l) - Cardinality(S)
  <2>1. S \cap extra = {}
    BY <1>1
  <2>2. Cardinality(S \cap extra) = 0
    BY <2>1, FS_EmptySet
  <2>3. Cardinality(S \cup extra) = Cardinality(S) + Cardinality(extra) - Cardinality(S \cap extra)
    BY <1>2, FS_Union
  <2> QED BY <1>1, <1>3, <1>4, <2>2, <2>3
<1>6. GetVCentersInUse(S \cup extra) = GetVCentersInUse(S) \cup GetVCentersInUse(extra)
  BY DEF GetVCentersInUse
<1> QED BY <1>2, <1>3, <1>4, <1>5, <1>6, VCentersFinite

\* Rounding up: d times the quotient is enough for n, and one less is not.
LEMMA CeilDivBounds ==
    ASSUME NEW n \in Nat \ {0}, NEW d \in Nat \ {0}
    PROVE  CeilDiv(n, d) \in Nat \ {0} /\ d * (CeilDiv(n, d) - 1) < n /\ n <= d * CeilDiv(n, d)
<1>1. (n - 1) \div d \in Nat /\ d * ((n - 1) \div d) <= n - 1 /\ n - 1 < d * (((n - 1) \div d) + 1)
  OBVIOUS
<1> QED BY <1>1 DEF CeilDiv

\* The dynamic filter leaves a vCenter of every completion: if each of its vCenters had
\* fewer pools than a slot must supply, they would be too few together.
LEMMA DynamicLeavesOne ==
    ASSUME NEW l, NEW S, NEW F, NEW A, NEW extra, Completion(l, S, F, extra), Cardinality(S) < requiredPools(l),
           l.vcenters > Cardinality(GetVCentersInUse(S))
    PROVE  \E p \in extra : Server(p) \notin DynamicallyExcluded(l, S, A, F)
<1> DEFINE inUse == GetVCentersInUse(S)
           V     == GetVCentersInUse(extra)
           slots == l.vcenters - Cardinality(inUse)
           rem   == requiredPools(l) - Cardinality(S)
           need  == CeilDiv(rem, slots)
<1> SUFFICES ASSUME \A p \in extra : Server(p) \in DynamicallyExcluded(l, S, A, F) PROVE FALSE
  OBVIOUS
<1>a. BoundsAreNumbers(l) /\ S \in SUBSET Pools /\ F \in SUBSET (Pools \ S) /\ Completes(l, S, F, extra)
  BY DEF Completion
<1>1. /\ rem \in Nat \ {0} /\ slots \in Nat \ {0} /\ Cardinality(extra) = rem
      /\ IsFiniteSet(extra) /\ IsFiniteSet(V) /\ IsFiniteSet(inUse)
      /\ Cardinality(V) \in Nat /\ Cardinality(inUse) \in Nat
  <2>1. /\ Cardinality(S) \in Nat /\ requiredPools(l) \in Nat /\ Cardinality(extra) = requiredPools(l) - Cardinality(S)
        /\ IsFiniteSet(extra) /\ IsFiniteSet(V) /\ IsFiniteSet(inUse)
        /\ Cardinality(V) \in Nat /\ Cardinality(inUse) \in Nat
    BY CompletionCounts
  <2>2. l.vcenters \in Nat
    BY <1>a DEF BoundsAreNumbers
  <2> QED BY <2>1, <2>2
<1>2. \A v \in V : v \notin inUse /\ Cardinality(OnVCenters(F, {v})) < need
  BY DEF DynamicallyExcluded, GetVCentersInUse
<1>3. Cardinality(V) <= slots
  <2>1. V \cap inUse = {}
    BY <1>2
  <2>2. Cardinality(inUse \cap V) = 0
    BY <2>1, FS_EmptySet
  <2>3. Cardinality(inUse \cup V) = Cardinality(inUse) + Cardinality(V) - Cardinality(inUse \cap V)
    BY <1>1, FS_Union
  <2>4. Cardinality(inUse \cup V) <= l.vcenters /\ l.vcenters \in Nat
    <3>1. l.vcenters > 0 /\ l.vcenters \in Nat
      BY <1>1, <1>a DEF BoundsAreNumbers
    <3>2. GetVCentersInUse(S \cup extra) = inUse \cup V
      BY CompletionCounts
    <3> QED BY <1>a, <3>1, <3>2 DEF Completes
  <2> HIDE DEF inUse, V
  <2> QED BY <1>1, <2>2, <2>3, <2>4
<1>4. need \in Nat \ {0} /\ slots * (need - 1) < rem
  <2> HIDE DEF rem, slots
  <2> QED BY <1>1, CeilDivBounds
<1>5. ASSUME NEW v \in V PROVE Cardinality(OnVCenters(extra, {v})) <= need - 1
  <2>1. OnVCenters(extra, {v}) \in SUBSET OnVCenters(F, {v})
    BY <1>a DEF OnVCenters, Completes
  <2>2. IsFiniteSet(OnVCenters(F, {v})) /\ Cardinality(OnVCenters(F, {v})) \in Nat
    <3>1. OnVCenters(F, {v}) \in SUBSET Pools
      BY <1>a DEF OnVCenters
    <3> QED BY <3>1, PoolsFinite, FS_Subset, FS_CardinalityType
  <2>3. IsFiniteSet(OnVCenters(extra, {v})) /\ Cardinality(OnVCenters(extra, {v})) \in Nat
    BY <2>1, <2>2, FS_Subset, FS_CardinalityType
  <2>4. Cardinality(OnVCenters(extra, {v})) <= Cardinality(OnVCenters(F, {v}))
    BY <2>1, <2>2, FS_Subset
  <2> HIDE DEF need
  <2> QED BY <1>2, <1>4, <2>2, <2>3, <2>4
<1>6. \A p \in extra : Server(p) \in V
  BY DEF GetVCentersInUse
<1>7. Cardinality(extra) <= Cardinality(V) * (need - 1)
  <2>1. need - 1 \in Nat
    BY <1>4
  <2> HIDE DEF V, need
  <2> QED BY <1>1, <1>5, <1>6, <2>1, AtMostEach
<1> HIDE DEF V, need, slots, rem, inUse
<1>8. Cardinality(V) * (need - 1) <= slots * (need - 1)
  BY <1>1, <1>3, <1>4
<1> QED BY <1>1, <1>4, <1>7, <1>8

\* The filter of the first pick leaves the largest vCenter.
LEMMA CombinationLeavesFirst ==
    ASSUME NEW l, BoundsAreNumbers(l), l.vcenters > 0, NEW F \in SUBSET Pools, F # {},
           NEW order \in DescendingOrders(F)
    PROVE  \E p \in F : Server(p) \notin CombinationExcluded(l, F, order)
<1> DEFINE V        == GetVCentersInUse(F)
           n        == Cardinality(DOMAIN order)
           required == requiredPools(l)
           count(i) == Cardinality(OnVCenters(F, {order[i]}))
           total(I) == Cardinality(OnVCenters(F, {order[i] : i \in I}))
           top      == IF l.vcenters > n THEN n ELSE l.vcenters
           enough   == {k \in 1..n : total(1..k) >= required}
           needed   == CHOOSE k \in enough : \A j \in enough : k <= j
           others(i) == IF i < l.vcenters THEN (1..top) \ {i} ELSE 1..(l.vcenters - 1)
           later    == {order[i] : i \in {j \in (needed + 1)..n : count(j) < CeilDiv(required, l.vcenters)}}
           apart    == {order[i] : i \in {j \in 1..n : count(j) + total(others(j) \cap 1..n) < required}}
<1>1. /\ n \in Nat \ {0} /\ order \in [1..n -> V]
      /\ \A i, j \in 1..n : i < j => order[i] # order[j]
  <2>1. IsFiniteSet(F) /\ IsFiniteSet(V) /\ Cardinality(V) \in Nat
    BY PoolsFinite, FS_Subset, VCentersFinite
  <2>2. V # {}
    BY DEF GetVCentersInUse
  <2>3. Cardinality(V) # 0
    BY <2>1, <2>2, FS_EmptySet
  <2>4. order \in [1..Cardinality(V) -> V] /\ \A i, j \in 1..Cardinality(V) : i < j => order[i] # order[j]
    BY DEF DescendingOrders
  <2>5. DOMAIN order = 1..Cardinality(V)
    BY <2>4
  <2>6. n = Cardinality(V)
    BY <2>1, <2>3, <2>5, FS_Interval
  <2> HIDE DEF V
  <2> QED BY <2>1, <2>3, <2>4, <2>6
<1>2. PICK p \in F : Server(p) = order[1]
  <2>1. order[1] \in V
    BY <1>1
  <2> QED BY <2>1 DEF GetVCentersInUse
<1>3. l.vcenters \in Nat \ {0} /\ required \in Nat
  BY DEF BoundsAreNumbers, requiredPools
<1> HIDE DEF n, required
<1>4. top \in 1..n /\ (1..top) \ {1} = others(1) \cap 1..n
  BY <1>1, <1>3
<1>5. CombinationExcluded(l, F, order) =
        IF total(1..top) < required THEN {} ELSE IF needed < l.vcenters THEN later ELSE apart
  BY DEF CombinationExcluded, n, required
<1>6. ASSUME NEW I PROVE total(I) \in Nat
  <2>1. OnVCenters(F, {order[i] : i \in I}) \in SUBSET Pools
    BY DEF OnVCenters
  <2> QED BY <2>1, PoolsFinite, FS_Subset, FS_CardinalityType
<1>7. count(1) \in Nat /\ total(1..top) <= count(1) + total((1..top) \ {1})
  <2> DEFINE P == OnVCenters(F, {order[i] : i \in 1..top})
             Q == OnVCenters(F, {order[1]})
             R == OnVCenters(F, {order[i] : i \in (1..top) \ {1}})
  <2>1. P = Q \cup R
    BY <1>4 DEF OnVCenters
  <2>2. Q \in SUBSET Pools /\ R \in SUBSET Pools
    BY DEF OnVCenters
  <2>3. IsFiniteSet(Q) /\ IsFiniteSet(R)
    BY <2>2, PoolsFinite, FS_Subset
  <2>4. IsFiniteSet(Q \cap R)
    BY <2>3, FS_Intersection
  <2>5. Cardinality(Q) \in Nat /\ Cardinality(R) \in Nat /\ Cardinality(Q \cap R) \in Nat
    BY <2>3, <2>4, FS_CardinalityType
  <2>6. Cardinality(Q \cup R) = Cardinality(Q) + Cardinality(R) - Cardinality(Q \cap R)
    BY <2>3, FS_Union
  <2> HIDE DEF P, Q, R
  <2>7. Cardinality(P) <= Cardinality(Q) + Cardinality(R)
    BY <2>1, <2>5, <2>6
  <2> QED BY <2>5, <2>7 DEF P, Q, R
<1> HIDE DEF top, others, count, total
<1>8. CASE total(1..top) < required
  BY <1>5, <1>8
<1>9. CASE ~(total(1..top) < required) /\ needed < l.vcenters
  <2>1. top \in enough
    BY <1>3, <1>4, <1>6, <1>9
  <2>2. enough \in SUBSET Nat
    BY <1>1
  <2>3. \E k \in enough : \A j \in enough : k <= j
    <3> HIDE DEF enough
    <3> QED BY <2>1, <2>2, LeastNumber
  <2>4. needed \in enough
    <3> HIDE DEF enough
    <3> QED BY <2>3
  <2>5. needed \in Nat \ {0}
    <3>1. enough \subseteq 1..n
      OBVIOUS
    <3> HIDE DEF enough, needed
    <3> QED BY <1>1, <2>4, <3>1
  <2> HIDE DEF needed
  <2>6. order[1] \notin later
    <3>1. \A i \in (needed + 1)..n : i \in 1..n /\ 1 \in 1..n /\ 1 < i
      BY <1>1, <2>5
    <3>2. \A i \in (needed + 1)..n : order[i] # order[1]
      BY <1>1, <3>1
    <3> QED BY <3>2
  <2> QED BY <1>2, <1>5, <1>9, <2>6
<1>10. CASE ~(total(1..top) < required) /\ ~(needed < l.vcenters)
  <2>1. ~(count(1) + total(others(1) \cap 1..n) < required)
    <3>1. total((1..top) \ {1}) = total(others(1) \cap 1..n)
      BY <1>4, Zenon
    <3>2. total((1..top) \ {1}) \in Nat /\ total(1..top) \in Nat
      BY <1>6
    <3> QED BY <1>3, <1>7, <1>10, <3>1, <3>2
  <2>2. \A i \in 1..n : order[i] = order[1] => i = 1
    BY <1>1
  <2>3. order[1] \notin apart
    BY <2>1, <2>2
  <2> QED BY <1>2, <1>5, <1>10, <2>3
<1> QED BY <1>8, <1>9, <1>10

\* Whatever vCenters an iteration of the loop excludes, it finds a pool for a lease that
\* can be completed.
LEMMA CompletableHasPick ==
    ASSUME NEW l, BoundsAreNumbers(l), NEW S \in SUBSET Pools, NEW A \in SUBSET (Pools \ S),
           NEW cord, NEW fr, FreeType(fr), Cardinality(S) < requiredPools(l),
           NEW extra, Completes(l, S, GetFittingPools(l, S, A, cord, fr, {}, {}), extra),
           NEW excluded \in ExcludedVCenters(l, S, A, cord, fr)
    PROVE  GetPoolWithStrategy(l, S, A, cord, fr, excluded, GetDiversityExcludedVCenters(l, S)) # {}
<1> DEFINE F         == GetFittingPools(l, S, A, cord, fr, {}, {})
           inUse     == GetVCentersInUse(S)
           W         == GetVCentersInUse(S \cup extra)
           diversity == GetDiversityExcludedVCenters(l, S)
           fitting   == GetFittingPools(l, S, A, cord, fr, excluded, diversity)
<1>1. F \in SUBSET (Pools \ S) /\ extra \in SUBSET F
  BY DEF GetFittingPools, Completes
<1>a. Completion(l, S, F, extra)
  BY <1>1 DEF Completion
<1>2. fitting \in SUBSET Pools /\ \A p \in F : Server(p) \notin excluded /\ Server(p) \notin diversity => p \in fitting
  BY DEF GetFittingPools
<1>3. SUFFICES \E p \in F : Server(p) \notin excluded /\ Server(p) \notin diversity
  <2>1. fitting # {}
    BY <1>2, <1>3
  <2>2. \E p \in fitting : \A q \in fitting : ~ScoresAbove(q, p, fr)
    <3> HIDE DEF fitting
    <3> QED BY <1>2, <2>1, SomePoolIsBest
  <2> QED BY <2>2 DEF GetPoolWithStrategy
<1> HIDE DEF F, fitting
<1>4. /\ IsFiniteSet(extra) /\ Cardinality(extra) \in Nat /\ Cardinality(S) \in Nat
      /\ Cardinality(extra) = requiredPools(l) - Cardinality(S) /\ requiredPools(l) \in Nat
      /\ W = inUse \cup GetVCentersInUse(extra)
      /\ IsFiniteSet(inUse) /\ Cardinality(inUse) \in Nat /\ IsFiniteSet(W) /\ Cardinality(W) \in Nat
  <2>1. W = inUse \cup GetVCentersInUse(extra)
    BY DEF GetVCentersInUse
  <2>2. /\ IsFiniteSet(extra) /\ Cardinality(extra) \in Nat /\ Cardinality(S) \in Nat
        /\ Cardinality(extra) = requiredPools(l) - Cardinality(S) /\ requiredPools(l) \in Nat
        /\ IsFiniteSet(inUse) /\ Cardinality(inUse) \in Nat /\ IsFiniteSet(W) /\ Cardinality(W) \in Nat
    BY <1>a, CompletionCounts
  <2> QED BY <2>1, <2>2
<1>5. l.vcenters \in Nat /\ l.minVCenters \in Nat
  BY DEF BoundsAreNumbers
<1>6. extra # {} /\ F # {}
  <2>1. Cardinality(extra) # 0
    BY <1>4
  <2> QED BY <1>1, <1>4, <2>1, FS_EmptySet
<1>7. Cardinality(W) >= l.minVCenters /\ (l.vcenters > 0 => Cardinality(W) <= l.vcenters)
  BY DEF Completes
<1>8. \A v \in W \ inUse : \E p \in extra : Server(p) = v
  BY <1>4 DEF GetVCentersInUse
<1>9. \A p \in extra : Server(p) \in W
  BY DEF GetVCentersInUse
<1>10. inUse \in SUBSET W
  BY <1>4
\* With nothing excluded because of the cap, only the minimum is in the way.
<1>11. CASE excluded = {}
  <2>1. CASE DiversityPending(l, S)
    <3>1. diversity = inUse /\ Cardinality(inUse) < l.minVCenters
      BY <2>1 DEF GetDiversityExcludedVCenters, DiversityPending
    <3>2. inUse # W
      BY <1>4, <1>5, <1>7, <3>1
    <3>3. PICK v \in W : v \notin inUse
      BY <1>10, <3>2
    <3>4. PICK p \in extra : Server(p) = v
      BY <1>8, <3>3
    <3> QED BY <1>1, <1>11, <3>1, <3>3, <3>4
  <2>2. CASE ~DiversityPending(l, S)
    <3>1. diversity = {}
      BY <2>2 DEF GetDiversityExcludedVCenters
    <3> QED BY <1>6, <1>11, <3>1
  <2> QED BY <2>1, <2>2
<1>12. CASE l.vcenters > 0 /\ CapReached(l, S)
  <2>1. Cardinality(inUse) >= l.vcenters
    BY <1>12 DEF CapReached
  <2>2. inUse = W
    <3>1. Cardinality(inUse) <= Cardinality(W) /\ (Cardinality(W) = Cardinality(inUse) => W = inUse)
      BY <1>4, <1>10, FS_Subset
    <3> QED BY <1>4, <1>5, <1>7, <1>12, <2>1, <3>1
  <2>3. ~DiversityPending(l, S)
    BY <1>7, <2>2, <1>4, <1>5 DEF DiversityPending
  <2>4. diversity = {}
    BY <2>3 DEF GetDiversityExcludedVCenters
  <2>5. excluded = GetVCentersInUse(A) \ inUse
    BY <1>12, <1>5 DEF ExcludedVCenters
  <2> QED BY <1>1, <1>6, <1>9, <2>2, <2>4, <2>5
<1>13. CASE l.vcenters > 0 /\ ~CapReached(l, S) /\ ~DiversityPending(l, S)
            /\ excluded = DynamicallyExcluded(l, S, A, F)
  <2>1. l.vcenters > Cardinality(inUse)
    BY <1>4, <1>5, <1>13 DEF CapReached
  <2>2. \E p \in extra : Server(p) \notin DynamicallyExcluded(l, S, A, F)
    BY <1>a, <2>1, DynamicLeavesOne
  <2>3. diversity = {}
    BY <1>13 DEF GetDiversityExcludedVCenters
  <2> QED BY <1>1, <1>13, <2>2, <2>3
<1>14. CASE l.vcenters > 0 /\ S = {} /\ \E order \in DescendingOrders(F) : excluded = CombinationExcluded(l, F, order)
  <2>1. diversity = {}
    BY <1>14 DEF GetDiversityExcludedVCenters, GetVCentersInUse
  <2>2. \E p \in F : Server(p) \notin excluded
    BY <1>1, <1>6, <1>14, CombinationLeavesFirst
  <2> QED BY <2>1, <2>2
<1> QED
  <2> DEFINE slots     == l.vcenters - Cardinality(inUse)
             remaining == requiredPools(l) - Cardinality(S)
  <2>1. excluded \in IF l.vcenters = 0 THEN {{}}
                     ELSE IF CapReached(l, S) THEN {GetVCentersInUse(A) \ inUse}
                     ELSE IF ~DiversityPending(l, S) /\ slots > 0 /\ remaining > slots
                       THEN {DynamicallyExcluded(l, S, A, F)}
                     ELSE IF l.vcenters < requiredPools(l) /\ S = {}
                       THEN {CombinationExcluded(l, F, order) : order \in DescendingOrders(F)}
                     ELSE {{}}
    BY DEF ExcludedVCenters, F
  <2>2. l.vcenters = 0 \/ l.vcenters > 0
    BY <1>5
  <2> HIDE DEF slots, remaining, inUse, diversity
  <2> QED BY <1>11, <1>12, <1>13, <1>14, <2>1, <2>2

\* The pools are given back, or the search ends, only if what fits now cannot complete
\* the lease: in no inventory, for no cap and no minimum, does a filter of leases.go hide
\* the pools of every completion.
THEOREM StopsOnlyWhenStuckHolds == Spec => StopsOnlyWhenStuck
<1>1. ASSUME TypeOK, ReleasePools \/ WaitPartial \/ NoPool PROVE ~Feasible(lease, assigned)
  <2> SUFFICES ASSUME Feasible(lease, assigned) PROVE FALSE
    OBVIOUS
  <2> DEFINE F == GetFittingPools(lease, assigned, Pools \ assigned, cordoned, free, {}, {})
  <2>1. PICK extra : Completes(lease, assigned, F, extra)
    BY DEF Feasible, Completes
  <2>2. PICK excluded \in Exclusions : Candidates(excluded) = {}
    BY <1>1 DEF ReleasePools, WaitPartial, NoPool
  <2>3. BoundsAreNumbers(lease) /\ FreeType(free)
    BY <1>1, LeaseSpecType, FreeStatesType DEF TypeOK, BoundsAreNumbers, FreeType
  <2>4. Cardinality(assigned) < requiredPools(lease) /\ assigned \in SUBSET Pools
    BY <1>1 DEF ReleasePools, WaitPartial, NoPool, Incomplete, TypeOK
  <2>5. Candidates(excluded) # {}
    BY <2>1, <2>2, <2>3, <2>4, CompletableHasPick DEF Exclusions, Candidates, available
  <2> QED BY <2>2, <2>5
<1>2. TypeOK => [(ReleasePools \/ WaitPartial \/ NoPool) => ~Feasible(lease, assigned)]_vars
  BY <1>1
<1> QED BY <1>2, TypeCorrect, PTL DEF StopsOnlyWhenStuck

----------------------------------------------------------------------------
(* Under a cap alone or a minimum alone, a pick keeps the lease completable. *)

\* A completion that takes p is one of what is missing after the pick of p.
LEMMA TakesPick ==
    ASSUME NEW l, NEW S, NEW F, NEW E \in SUBSET F, NEW p \in E,
           Completes(l, S, F, E)
    PROVE  Completes(l, S \cup {p}, F \ {p}, E \ {p})
<1>1. (S \cup {p}) \cup (E \ {p}) = S \cup E /\ E \ {p} \in SUBSET (F \ {p})
  OBVIOUS
<1> QED BY <1>1 DEF Completes

\* As many pools as are missing complete the lease, if they respect its bounds.
LEMMA EnoughCompletes ==
    ASSUME NEW l, BoundsAreNumbers(l), NEW S \in SUBSET Pools, NEW F \in SUBSET (Pools \ S),
           NEW E \in SUBSET F, Cardinality(E) = requiredPools(l) - Cardinality(S),
           l.vcenters > 0 => Cardinality(GetVCentersInUse(S \cup E)) <= l.vcenters,
           l.minVCenters > 0 => Cardinality(GetVCentersInUse(S \cup E)) >= l.minVCenters
    PROVE  Completes(l, S, F, E)
<1>1. IsFiniteSet(S) /\ IsFiniteSet(E) /\ IsFiniteSet(S \cup E)
  <2>1. S \in SUBSET Pools /\ E \in SUBSET Pools /\ S \cup E \in SUBSET Pools
    OBVIOUS
  <2> QED BY <2>1, PoolsFinite, FS_Subset
<1>2. Cardinality(S) \in Nat /\ Cardinality(E) \in Nat /\ Cardinality(GetVCentersInUse(S \cup E)) \in Nat
  BY <1>1, FS_CardinalityType, VCentersFinite
<1>3. Cardinality(S \cap E) = 0
  <2>1. S \cap E = {}
    OBVIOUS
  <2> QED BY <2>1, FS_EmptySet
<1>4. Cardinality(S \cup E) = Cardinality(S) + Cardinality(E) - Cardinality(S \cap E)
  BY <1>1, FS_Union
<1>5. requiredPools(l) \in Nat
  BY DEF requiredPools, BoundsAreNumbers
<1>6. Cardinality(S \cup E) = requiredPools(l)
  BY <1>2, <1>3, <1>4, <1>5
<1>7. Cardinality(GetVCentersInUse(S \cup E)) >= l.minVCenters
  BY <1>2 DEF BoundsAreNumbers
<1> QED BY <1>6, <1>7 DEF Completes

\* Any pool that fits may take the place of one of a completion, as far as the number
\* of pools goes; it adds its own vCenter at most.
LEMMA Exchange ==
    ASSUME NEW extra, IsFiniteSet(extra), extra # {}, NEW F, extra \in SUBSET F, NEW p \in F, NEW S
    PROVE  \E E \in SUBSET F : /\ p \in E /\ Cardinality(E) = Cardinality(extra)
                               /\ GetVCentersInUse(S \cup E) \in SUBSET (GetVCentersInUse(S \cup extra) \cup {Server(p)})
<1>1. CASE p \in extra
  <2>1. GetVCentersInUse(S \cup extra) \in SUBSET (GetVCentersInUse(S \cup extra) \cup {Server(p)})
    OBVIOUS
  <2> QED BY <1>1, <2>1
<1>2. CASE p \notin extra
  <2>1. PICK q : q \in extra
    OBVIOUS
  <2> DEFINE E == (extra \ {q}) \cup {p}
  <2>2. IsFiniteSet(extra \ {q}) /\ Cardinality(extra \ {q}) = Cardinality(extra) - 1
    BY <2>1, FS_RemoveElement
  <2>3. Cardinality(E) = (Cardinality(extra) - 1) + 1
    BY <1>2, <2>2, FS_AddElement
  <2>4. Cardinality(extra) \in Nat
    BY FS_CardinalityType
  <2>5. Cardinality(E) = Cardinality(extra)
    BY <2>3, <2>4
  <2>6. GetVCentersInUse(S \cup E) \in SUBSET (GetVCentersInUse(S \cup extra) \cup {Server(p)})
    BY DEF GetVCentersInUse
  <2> QED BY <2>5, <2>6
<1> QED BY <1>1, <1>2

\* The pool p and as many more as complete the lease can be taken within the cap.
RoomFor(l, S, F, extra, p) ==
    \E E \in SUBSET F : /\ p \in E /\ Cardinality(E) = Cardinality(extra)
                        /\ Cardinality(GetVCentersInUse(S \cup E)) <= l.vcenters

\* If a pick opens a vCenter that the dynamic filter left, while the completion fills
\* every slot of the cap, some vCenter of the completion can make room for it: they do
\* not all supply more pools than a slot must.
LEMMA MakesRoom ==
    ASSUME NEW l, NEW S, NEW F, NEW A, NEW extra, Completion(l, S, F, extra), Cardinality(S) < requiredPools(l),
           l.vcenters > Cardinality(GetVCentersInUse(S)),
           NEW p \in F, Server(p) \in GetVCentersInUse(A), Server(p) \notin DynamicallyExcluded(l, S, A, F),
           Server(p) \notin GetVCentersInUse(S \cup extra),
           Cardinality(GetVCentersInUse(S \cup extra)) = l.vcenters
    PROVE  RoomFor(l, S, F, extra, p)
<1> DEFINE inUse == GetVCentersInUse(S)
           W     == GetVCentersInUse(S \cup extra)
           N     == W \ inUse
           v     == Server(p)
           slots == l.vcenters - Cardinality(inUse)
           rem   == requiredPools(l) - Cardinality(S)
           need  == CeilDiv(rem, slots)
           c(w)  == Cardinality(OnVCenters(extra, {w}))
<1>a. BoundsAreNumbers(l) /\ F \in SUBSET (Pools \ S) /\ Completes(l, S, F, extra)
  BY DEF Completion
<1>1. /\ IsFiniteSet(extra) /\ Cardinality(extra) \in Nat /\ Cardinality(S) \in Nat
      /\ Cardinality(extra) = requiredPools(l) - Cardinality(S) /\ requiredPools(l) \in Nat
      /\ IsFiniteSet(inUse) /\ Cardinality(inUse) \in Nat /\ IsFiniteSet(W) /\ Cardinality(W) \in Nat
  BY CompletionCounts
<1>2. inUse \in SUBSET W /\ \A w \in N : \E q \in extra : Server(q) = w
  BY DEF GetVCentersInUse
<1>3. l.vcenters \in Nat /\ Cardinality(W) = l.vcenters /\ l.vcenters > Cardinality(inUse) /\ v \notin W
  BY <1>a DEF BoundsAreNumbers
<1>4. v \in GetVCentersInUse(A) /\ v \notin inUse
  BY <1>2, <1>3
<1>5. ~(Cardinality(OnVCenters(F, {v})) < need)
  BY <1>4 DEF DynamicallyExcluded
<1>6. extra \in SUBSET F
  BY <1>a DEF Completes
<1>7. IsFiniteSet(F) /\ IsFiniteSet(OnVCenters(F, {v})) /\ Cardinality(OnVCenters(F, {v})) \in Nat
  BY <1>a, PoolsFinite, FS_Subset, NumberingWorks
<1>8. IsFiniteSet(N) /\ Cardinality(N) = slots
  <2> HIDE DEF inUse, W
  <2>1. inUse = inUse \cap W
    BY <1>2
  <2>2. IsFiniteSet(W \ inUse) /\ Cardinality(W \ inUse) = Cardinality(W) - Cardinality(W \cap inUse)
    BY <1>1, FS_Difference
  <2>3. W \cap inUse = inUse
    BY <2>1
  <2> QED BY <1>1, <1>3, <2>2, <2>3
<1> HIDE DEF inUse, W, v
<1>9. slots \in Nat \ {0} /\ rem \in Nat \ {0}
  BY <1>1, <1>3
<1> HIDE DEF slots, rem
<1>10. need \in Nat \ {0} /\ rem <= slots * need
  BY <1>9, CeilDivBounds
<1> HIDE DEF need
<1>11. \A w : c(w) \in Nat
  BY <1>1, NumberingWorks
<1>12. PICK w \in N : c(w) <= need
  <2> SUFFICES ASSUME \A w \in N : ~(c(w) <= need) PROVE FALSE
    OBVIOUS
  <2>1. \A w \in N : c(w) >= need + 1
    <3> HIDE DEF c, N
    <3> QED BY <1>10, <1>11
  <2>2. need + 1 \in Nat
    BY <1>10
  <2>3. Cardinality(N) * (need + 1) <= Cardinality(extra)
    <3> HIDE DEF N
    <3> QED BY <1>1, <1>8, <2>1, <2>2, AtLeastEach
  <2>4. slots * (need + 1) <= rem
    BY <1>8, <2>3, <1>1 DEF rem
  <2>5. slots * (need + 1) = slots * need + slots
    BY <1>9, <1>10
  <2>6. slots * need \in Nat
    BY <1>9, <1>10
  <2> QED BY <1>9, <1>10, <2>4, <2>5, <2>6
<1> DEFINE G == OnVCenters(extra, {w})
<1>13. IsFiniteSet(G) /\ G \in SUBSET extra /\ Cardinality(G) = c(w) /\ c(w) # 0
  <2>0. G \in SUBSET extra
    BY DEF OnVCenters
  <2>1. IsFiniteSet(G) /\ G \in SUBSET extra
    BY <1>1, <2>0, FS_Subset
  <2>2. PICK q \in extra : Server(q) = w
    BY <1>2
  <2>3. q \in G
    BY <2>2 DEF OnVCenters
  <2>4. Cardinality(G) # 0
    BY <2>1, <2>3, FS_EmptySet
  <2> QED BY <2>1, <2>4
<1>14. PICK T \in SUBSET OnVCenters(F, {v}) : p \in T /\ Cardinality(T) = c(w)
  <2>1. c(w) \in 1..Cardinality(OnVCenters(F, {v}))
    <3>1. c(w) \in Nat \ {0} /\ c(w) <= need
      BY <1>11, <1>12, <1>13
    <3> HIDE DEF c
    <3> QED BY <1>5, <1>7, <1>10, <3>1
  <2>2. p \in OnVCenters(F, {v})
    BY DEF OnVCenters, v
  <2> HIDE DEF c
  <2> QED BY <1>7, <2>1, <2>2, SubsetOfSize
<1> DEFINE E == (extra \ G) \cup T
<1>15. p \in E /\ E \in SUBSET F
  BY <1>6, <1>14 DEF OnVCenters
<1>16. Cardinality(E) = Cardinality(extra)
  <2>1. IsFiniteSet(T)
    BY <1>7, <1>14, FS_Subset
  <2>2. \A q \in extra : Server(q) \in W
    BY DEF W, GetVCentersInUse
  <2>3. (extra \ G) \cap T = {}
    BY <1>3, <1>14, <2>2 DEF OnVCenters
  <2> HIDE DEF G
  <2>4. IsFiniteSet(extra \ G) /\ Cardinality(extra \ G) = Cardinality(extra) - Cardinality(extra \cap G)
    BY <1>1, FS_Difference
  <2>5. extra \cap G = G
    BY <1>13
  <2>6. Cardinality((extra \ G) \cup T) = Cardinality(extra \ G) + Cardinality(T) - Cardinality((extra \ G) \cap T)
    BY <2>1, <2>4, FS_Union
  <2>7. Cardinality((extra \ G) \cap T) = 0
    BY <2>3, FS_EmptySet
  <2>8. Cardinality(G) = c(w) /\ Cardinality(T) = c(w) /\ c(w) \in Nat
    BY <1>11, <1>13, <1>14
  <2>9. Cardinality(extra \ G) = Cardinality(extra) - c(w)
    BY <2>4, <2>5, <2>8
  <2> HIDE DEF c
  <2> QED BY <1>1, <2>6, <2>7, <2>8, <2>9
<1>17. Cardinality(GetVCentersInUse(S \cup E)) <= l.vcenters
  <2> DEFINE X == (W \ {w}) \cup {v}
  <2>1. GetVCentersInUse(S \cup E) \in SUBSET X
    BY <1>14 DEF GetVCentersInUse, OnVCenters, W, inUse
  <2>2. IsFiniteSet(W \ {w}) /\ Cardinality(W \ {w}) = Cardinality(W) - 1
    BY <1>1, <1>12, FS_RemoveElement
  <2>3. IsFiniteSet(X) /\ Cardinality(X) = (Cardinality(W) - 1) + 1
    BY <1>3, <2>2, FS_AddElement
  <2> HIDE DEF X, E
  <2>4. Cardinality(GetVCentersInUse(S \cup E)) <= Cardinality(X)
    BY <2>1, <2>3, FS_Subset
  <2> QED BY <1>1, <1>3, <2>3, <2>4
<1> QED BY <1>15, <1>16, <1>17 DEF RoomFor

\* Pools span no more vCenters than there are pools.
LEMMA VCentersAtMostPools ==
    ASSUME NEW E, IsFiniteSet(E)
    PROVE  Cardinality(GetVCentersInUse(E)) <= Cardinality(E)
<1> DEFINE V == GetVCentersInUse(E)
           f == [p \in E |-> Server(p)]
<1>1. f \in Surjection(E, V)
  BY DEF Surjection, GetVCentersInUse
<1> HIDE DEF f
<1> QED BY <1>1, FS_Surjection

\* Whatever the loop picks under a cap, as many pools as were missing can still be found
\* around it without leaving the cap.
LEMMA PickCompletes ==
    ASSUME NEW l, BoundsAreNumbers(l), l.minVCenters = 0, NEW S \in SUBSET Pools, NEW A \in SUBSET (Pools \ S),
           NEW cord, NEW fr, Cardinality(S) < requiredPools(l),
           NEW extra, Completes(l, S, GetFittingPools(l, S, A, cord, fr, {}, {}), extra),
           NEW excluded \in ExcludedVCenters(l, S, A, cord, fr),
           NEW p \in GetFittingPools(l, S, A, cord, fr, {}, {}), Server(p) \notin excluded
    PROVE  \E E \in SUBSET GetFittingPools(l, S, A, cord, fr, {}, {}) :
               p \in E /\ Completes(l, S, GetFittingPools(l, S, A, cord, fr, {}, {}), E)
<1> DEFINE F     == GetFittingPools(l, S, A, cord, fr, {}, {})
           inUse == GetVCentersInUse(S)
           W     == GetVCentersInUse(S \cup extra)
           slots == l.vcenters - Cardinality(inUse)
           rem   == requiredPools(l) - Cardinality(S)
<1>1. /\ F \in SUBSET (Pools \ S) /\ F \in SUBSET A /\ extra \in SUBSET F /\ p \in F
      /\ Completes(l, S, F, extra) /\ Completion(l, S, F, extra)
  BY DEF GetFittingPools, Completes, Completion
<1>2. /\ excluded \in IF l.vcenters = 0 THEN {{}}
                      ELSE IF CapReached(l, S) THEN {GetVCentersInUse(A) \ inUse}
                      ELSE IF ~DiversityPending(l, S) /\ slots > 0 /\ rem > slots
                        THEN {DynamicallyExcluded(l, S, A, F)}
                      ELSE IF l.vcenters < requiredPools(l) /\ S = {}
                        THEN {CombinationExcluded(l, F, order) : order \in DescendingOrders(F)}
                      ELSE {{}}
  BY DEF ExcludedVCenters
<1> SUFFICES \E E \in SUBSET F : p \in E /\ Completes(l, S, F, E)
  OBVIOUS
<1> HIDE DEF F
<1>3. /\ IsFiniteSet(extra) /\ Cardinality(extra) \in Nat /\ Cardinality(S) \in Nat
      /\ Cardinality(extra) = rem /\ requiredPools(l) \in Nat
      /\ IsFiniteSet(inUse) /\ Cardinality(inUse) \in Nat /\ IsFiniteSet(W) /\ Cardinality(W) \in Nat
  BY <1>1, CompletionCounts
<1>4. l.vcenters \in Nat /\ ~DiversityPending(l, S)
  BY DEF BoundsAreNumbers, DiversityPending
<1>5. l.vcenters > 0 => Cardinality(W) <= l.vcenters
  BY <1>1 DEF Completes
<1>6. inUse \in SUBSET W
  BY DEF GetVCentersInUse
<1>7. extra # {}
  <2>1. Cardinality(extra) # 0
    BY <1>3
  <2> QED BY <1>3, <2>1, FS_EmptySet
<1>8. PICK E \in SUBSET F : /\ p \in E /\ Cardinality(E) = Cardinality(extra)
                            /\ GetVCentersInUse(S \cup E) \in SUBSET (W \cup {Server(p)})
  BY <1>1, <1>3, <1>7, Exchange
<1>9. IsFiniteSet(E)
  BY <1>1, <1>8, PoolsFinite, FS_Subset
<1> HIDE DEF inUse, W, slots, rem
\* Exchanging one pool is enough if its vCenter is one of the completion's, or if
\* the cap leaves room for another one.
<1>10. CASE l.vcenters = 0 \/ Cardinality(GetVCentersInUse(S \cup E)) <= l.vcenters
  <2>1. Cardinality(E) = requiredPools(l) - Cardinality(S)
    BY <1>3, <1>8 DEF rem
  <2>2. /\ l.vcenters > 0 => Cardinality(GetVCentersInUse(S \cup E)) <= l.vcenters
        /\ l.minVCenters > 0 => Cardinality(GetVCentersInUse(S \cup E)) >= l.minVCenters
    BY <1>10
  <2>3. Completes(l, S, F, E)
    BY <1>1, <1>8, <2>1, <2>2, EnoughCompletes
  <2> QED BY <1>8, <2>3
<1>11. CASE l.vcenters > 0 /\ Server(p) \in W
  <2>1. GetVCentersInUse(S \cup E) \in SUBSET W
    BY <1>8, <1>11
  <2>2. Cardinality(GetVCentersInUse(S \cup E)) <= Cardinality(W) /\ Cardinality(GetVCentersInUse(S \cup E)) \in Nat
    BY <1>3, <2>1, FS_Subset, FS_CardinalityType
  <2> QED BY <1>3, <1>4, <1>5, <1>10, <1>11, <2>2
<1>12. CASE l.vcenters > 0 /\ Server(p) \notin W /\ Cardinality(W) < l.vcenters
  <2>1. IsFiniteSet(W \cup {Server(p)}) /\ Cardinality(W \cup {Server(p)}) = Cardinality(W) + 1
    BY <1>3, <1>12, FS_AddElement
  <2>2. /\ Cardinality(GetVCentersInUse(S \cup E)) <= Cardinality(W \cup {Server(p)})
        /\ Cardinality(GetVCentersInUse(S \cup E)) \in Nat
    BY <1>8, <2>1, FS_Subset, FS_CardinalityType
  <2> QED BY <1>3, <1>4, <1>10, <1>12, <2>1, <2>2
\* No vCenter but those in use is left once the cap is reached.
<1>13. CASE l.vcenters > 0 /\ CapReached(l, S)
  <2>1. excluded = GetVCentersInUse(A) \ inUse
    BY <1>2, <1>13
  <2>2. Server(p) \in GetVCentersInUse(A)
    BY <1>1 DEF GetVCentersInUse
  <2> QED BY <1>6, <1>11, <1>13, <2>1, <2>2
\* With as many slots as pools are missing, the cap cannot be in the way.
<1>14. CASE l.vcenters > 0 /\ ~CapReached(l, S) /\ rem <= slots
  <2> DEFINE V == GetVCentersInUse(E)
  <2>1. GetVCentersInUse(S \cup E) = inUse \cup V
    BY DEF GetVCentersInUse, inUse
  <2>2. IsFiniteSet(V) /\ Cardinality(V) \in Nat /\ Cardinality(V) <= Cardinality(E)
    BY <1>9, VCentersFinite, VCentersAtMostPools
  <2> HIDE DEF V
  <2>3. /\ Cardinality(inUse \cup V) = Cardinality(inUse) + Cardinality(V) - Cardinality(inUse \cap V)
        /\ Cardinality(inUse \cap V) \in Nat
    BY <1>3, <2>2, FS_Union, FS_Intersection, FS_CardinalityType
  <2>4. Cardinality(inUse \cup V) <= l.vcenters
    BY <1>3, <1>4, <1>8, <1>14, <2>2, <2>3 DEF slots, rem
  <2> QED BY <1>10, <2>1, <2>4
<1>15. CASE l.vcenters > 0 /\ ~CapReached(l, S) /\ ~(rem <= slots) /\ Server(p) \notin W /\ Cardinality(W) = l.vcenters
  <2>1. slots \in Nat \ {0} /\ rem \in Nat /\ l.vcenters > Cardinality(inUse)
    BY <1>3, <1>4, <1>15 DEF slots, rem, CapReached, inUse
  <2>2. slots > 0 /\ rem > slots
    BY <1>15, <2>1
  <2>3. excluded = DynamicallyExcluded(l, S, A, F)
    BY <1>2, <1>4, <1>15, <2>2
  <2>4. PICK E2 \in SUBSET F : /\ p \in E2 /\ Cardinality(E2) = Cardinality(extra)
                               /\ Cardinality(GetVCentersInUse(S \cup E2)) <= l.vcenters
    <3>1. l.vcenters > Cardinality(GetVCentersInUse(S)) /\ Cardinality(GetVCentersInUse(S \cup extra)) = l.vcenters
      BY <1>15, <2>1 DEF inUse, W
    <3>2. Server(p) \notin DynamicallyExcluded(l, S, A, F) /\ Server(p) \notin GetVCentersInUse(S \cup extra)
      BY <1>15, <2>3 DEF W
    <3>3. Server(p) \in GetVCentersInUse(A)
      BY <1>1 DEF GetVCentersInUse
    <3>4. Completion(l, S, F, extra) /\ p \in F /\ Cardinality(S) < requiredPools(l)
      BY <1>1
    <3>5. RoomFor(l, S, F, extra, p)
      BY <3>1, <3>2, <3>3, <3>4, MakesRoom
    <3> QED BY <3>5 DEF RoomFor
  <2>5. Cardinality(E2) = requiredPools(l) - Cardinality(S)
    BY <1>3, <2>4 DEF rem
  <2>6. Completes(l, S, F, E2)
    BY <1>1, <2>4, <2>5, EnoughCompletes
  <2> QED BY <2>4, <2>6
<1> QED
  <2>1. l.vcenters = 0 \/ l.vcenters > 0
    BY <1>4
  <2>2. l.vcenters > 0 => Cardinality(W) < l.vcenters \/ Cardinality(W) = l.vcenters
    BY <1>3, <1>4, <1>5
  <2> QED BY <1>10, <1>11, <1>12, <1>13, <1>14, <1>15, <2>1, <2>2

\* The same under a minimum alone: the pick takes the place of a pool of its own vCenter
\* if the completion has one there, and else brings the vCenter the completion may lose.
LEMMA UncappedPickCompletes ==
    ASSUME NEW l, NEW S, NEW F, NEW extra, Completion(l, S, F, extra), l.vcenters = 0, extra # {},
           NEW p \in F, Server(p) \notin GetDiversityExcludedVCenters(l, S)
    PROVE  \E E \in SUBSET F : p \in E /\ Completes(l, S, F, E)
<1> DEFINE inUse == GetVCentersInUse(S)
           W     == GetVCentersInUse(S \cup extra)
           v     == Server(p)
<1>a. /\ BoundsAreNumbers(l) /\ S \in SUBSET Pools /\ F \in SUBSET (Pools \ S)
      /\ Completes(l, S, F, extra) /\ extra \in SUBSET F
  BY DEF Completion, Completes
<1>1. /\ IsFiniteSet(extra) /\ Cardinality(extra) \in Nat /\ Cardinality(S) \in Nat
      /\ Cardinality(extra) = requiredPools(l) - Cardinality(S) /\ requiredPools(l) \in Nat
      /\ IsFiniteSet(inUse) /\ Cardinality(inUse) \in Nat /\ IsFiniteSet(W) /\ Cardinality(W) \in Nat
  BY CompletionCounts
<1>2. l.minVCenters \in Nat /\ Cardinality(W) >= l.minVCenters
  BY <1>a DEF BoundsAreNumbers, Completes
<1>3. CASE p \in extra
  BY <1>a, <1>3
<1>4. CASE p \notin extra
  <2>1. PICK q \in extra : v \in W \ inUse => Server(q) = v
    <3>1. CASE v \in W \ inUse
      BY <3>1 DEF GetVCentersInUse
    <3>2. CASE v \notin W \ inUse
      BY <3>2
    <3> QED BY <3>1, <3>2
  <2> DEFINE E == (extra \ {q}) \cup {p}
             X == GetVCentersInUse(S \cup E)
             Y == (W \ {Server(q)}) \cup {v}
  <2>2. E \in SUBSET F /\ p \in E
    BY <1>a
  <2>3. Cardinality(E) = requiredPools(l) - Cardinality(S)
    <3>1. IsFiniteSet(extra \ {q}) /\ Cardinality(extra \ {q}) = Cardinality(extra) - 1
      BY <1>1, FS_RemoveElement
    <3>2. p \notin extra \ {q}
      BY <1>4
    <3>3. Cardinality((extra \ {q}) \cup {p}) = Cardinality(extra \ {q}) + 1
      BY <3>1, <3>2, FS_AddElement
    <3> QED BY <1>1, <3>1, <3>3
  <2>4. IsFiniteSet(X) /\ Cardinality(X) \in Nat
    <3>1. S \cup E \in SUBSET Pools
      BY <1>a
    <3>2. IsFiniteSet(S \cup E)
      BY <3>1, PoolsFinite, FS_Subset
    <3> QED BY <3>2, VCentersFinite
  <2>5. inUse \in SUBSET X /\ Y \in SUBSET X /\ Server(q) \in W
    BY DEF GetVCentersInUse
  <2> HIDE DEF X, E, inUse
  <2>6. l.minVCenters > 0 => Cardinality(X) >= l.minVCenters
    <3> SUFFICES ASSUME l.minVCenters > 0 PROVE Cardinality(X) >= l.minVCenters
      OBVIOUS
    <3>1. CASE Cardinality(inUse) < l.minVCenters
      <4>1. v \notin inUse
        BY <3>1 DEF GetDiversityExcludedVCenters, DiversityPending, inUse
      <4>2. v \notin W \ {Server(q)}
        BY <2>1, <4>1
      <4> HIDE DEF W
      <4>3. IsFiniteSet(W \ {Server(q)}) /\ Cardinality(W \ {Server(q)}) = Cardinality(W) - 1
        BY <1>1, <2>5, FS_RemoveElement
      <4>4. Cardinality((W \ {Server(q)}) \cup {v}) = Cardinality(W \ {Server(q)}) + 1
        BY <4>2, <4>3, FS_AddElement
      <4>5. Cardinality(Y) <= Cardinality(X)
        BY <2>4, <2>5, FS_Subset
      <4> QED BY <1>1, <1>2, <2>4, <4>3, <4>4, <4>5
    <3>2. CASE ~(Cardinality(inUse) < l.minVCenters)
      <4>1. Cardinality(inUse) <= Cardinality(X)
        BY <2>4, <2>5, FS_Subset
      <4> QED BY <1>1, <1>2, <2>4, <3>2, <4>1
    <3> QED BY <3>1, <3>2
  <2>7. Completes(l, S, F, E)
    BY <1>a, <2>2, <2>3, <2>6, EnoughCompletes DEF X
  <2> QED BY <2>2, <2>7
<1> QED BY <1>3, <1>4

\* A pick never walks a lease with only a cap, or only a minimum, into a dead end: if it
\* could be completed from what fits, it still can, whatever the inventory.  This is what
\* the dynamic filter of the loop of leases.go, with its rounded-up share per slot, is
\* for.  With both bounds it is false (run cap_and_minimum).
THEOREM PicksKeepFeasibleHolds == Spec => PicksKeepFeasible
<1>1. ASSUME TypeOK, AssignPool, lease.minVCenters = 0 \/ lease.vcenters = 0, Feasible(lease, assigned)
      PROVE  Feasible(lease, assigned')
  <2> DEFINE F == GetFittingPools(lease, assigned, Pools \ assigned, cordoned, free, {}, {})
  <2>1. PICK extra : Completes(lease, assigned, F, extra)
    BY <1>1 DEF Feasible, Completes
  <2>2. PICK excluded \in Exclusions : \E p \in Candidates(excluded) : assigned' = assigned \cup {p}
    BY <1>1 DEF AssignPool
  <2>3. PICK p \in Candidates(excluded) : assigned' = assigned \cup {p}
    BY <2>2
  <2>4. p \in F /\ Server(p) \notin excluded /\ Server(p) \notin GetDiversityExcludedVCenters(lease, assigned)
    BY <2>3 DEF Candidates, GetPoolWithStrategy, GetFittingPools, available
  <2>5. BoundsAreNumbers(lease) /\ assigned \in SUBSET Pools /\ Cardinality(assigned) < requiredPools(lease)
    BY <1>1, LeaseSpecType DEF TypeOK, BoundsAreNumbers, AssignPool, Incomplete
  <2>6. excluded \in ExcludedVCenters(lease, assigned, Pools \ assigned, cordoned, free)
    BY <2>2 DEF Exclusions, available
  <2>7. \E E \in SUBSET F : p \in E /\ Completes(lease, assigned, F, E)
    <3>1. CASE lease.minVCenters = 0
      BY <2>1, <2>4, <2>5, <2>6, <3>1, PickCompletes
    <3>2. CASE lease.vcenters = 0
      <4>1. F \in SUBSET (Pools \ assigned)
        BY DEF GetFittingPools
      <4>2. Completion(lease, assigned, F, extra)
        BY <2>1, <2>5, <4>1 DEF Completion
      <4> HIDE DEF F
      <4>3. extra # {}
        <5>1. Cardinality(extra) = requiredPools(lease) - Cardinality(assigned) /\ Cardinality(assigned) \in Nat
              /\ requiredPools(lease) \in Nat
          BY <4>2, CompletionCounts
        <5>2. Cardinality(extra) # 0
          BY <2>5, <5>1
        <5> QED BY <5>2, FS_EmptySet
      <4> QED BY <2>4, <3>2, <4>2, <4>3, UncappedPickCompletes
    <3> QED BY <1>1, <3>1, <3>2
  <2>8. PICK E \in SUBSET F : p \in E /\ Completes(lease, assigned, F, E)
    BY <2>7
  <2>9. GetFittingPools(lease, assigned', Pools \ assigned', cordoned, free, {}, {}) = F \ {p}
    BY <2>3 DEF GetFittingPools
  <2> HIDE DEF F
  <2>10. Completes(lease, assigned', F \ {p}, E \ {p})
    BY <2>3, <2>8, TakesPick
  <2> QED BY <2>9, <2>10 DEF Feasible, Completes
<1>2. TypeOK => [(AssignPool /\ (lease.minVCenters = 0 \/ lease.vcenters = 0) /\ Feasible(lease, assigned))
                   => Feasible(lease, assigned')]_vars
  BY <1>1
<1> QED BY <1>2, TypeCorrect, PTL DEF PicksKeepFeasible
============================================================================
