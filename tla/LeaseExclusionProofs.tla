------------------------ MODULE LeaseExclusionProofs ------------------------
(***************************************************************************)
(* Proofs that the leases map serialises the leases: no network is owned   *)
(* by two leases that may not share it, and no pool is given to more       *)
(* leases than fit into it.                                                *)
(***************************************************************************)
EXTENDS LeaseLifecycleProofs

----------------------------------------------------------------------------
(* Sums of requests.                                                       *)

\* The units that the leases of S ask for, f[l] each.
Units(S, f) == UNION {{l} \X (1..f[l]) : l \in S}

\* There are finitely many; a lease more adds its own, and fewer leases ask for no more.
LEMMA UnitsCount ==
    ASSUME NEW f \in [Leases -> Nat], NEW S \in SUBSET Leases
    PROVE  /\ IsFiniteSet(Units(S, f)) /\ Cardinality(Units(S, f)) \in Nat
           /\ \A T \in SUBSET S : Cardinality(Units(T, f)) <= Cardinality(Units(S, f))
           /\ \A l \in Leases \ S : Cardinality(Units(S \cup {l}, f)) = Cardinality(Units(S, f)) + f[l]
<1> DEFINE own(l) == {l} \X (1..f[l])
<1>1. ASSUME NEW l \in Leases PROVE IsFiniteSet(own(l)) /\ Cardinality(own(l)) = f[l]
  <2>1. IsFiniteSet({l}) /\ Cardinality({l}) = 1
    BY FS_Singleton
  <2>2. IsFiniteSet(1..f[l]) /\ Cardinality(1..f[l]) = f[l]
    BY FS_Interval
  <2>3. IsFiniteSet(own(l)) /\ Cardinality(own(l)) = Cardinality({l}) * Cardinality(1..f[l])
    BY <2>1, <2>2, FS_Product
  <2>4. f[l] \in Nat
    OBVIOUS
  <2> HIDE DEF own
  <2> QED BY <2>1, <2>2, <2>3, <2>4
<1>2. IsFiniteSet(Units(S, f))
  <2> DEFINE T == {own(l) : l \in S}
             g == [l \in S |-> own(l)]
  <2>1. IsFiniteSet(S)
    BY LeasesFinite, FS_Subset
  <2>2. g \in Surjection(S, T)
    <3> HIDE DEF own
    <3> QED BY DEF Surjection
  <2>3. IsFiniteSet(T)
    <3> HIDE DEF g, T
    <3> QED BY <2>1, <2>2, FS_Surjection
  <2>4. \A t \in T : IsFiniteSet(t)
    <3> HIDE DEF own
    <3> QED BY <1>1
  <2>5. IsFiniteSet(UNION T)
    <3> HIDE DEF T
    <3> QED BY <2>3, <2>4, FS_UNION
  <2> QED BY <2>5 DEF Units
<1>3. ASSUME NEW T \in SUBSET S PROVE Cardinality(Units(T, f)) <= Cardinality(Units(S, f))
  <2>1. Units(T, f) \subseteq Units(S, f)
    BY DEF Units
  <2> QED BY <1>2, <2>1, FS_Subset
<1>4. ASSUME NEW l \in Leases \ S
      PROVE  Cardinality(Units(S \cup {l}, f)) = Cardinality(Units(S, f)) + f[l]
  <2>1. Units(S \cup {l}, f) = Units(S, f) \cup own(l)
    BY DEF Units
  <2>2. Units(S, f) \cap own(l) = {}
    <3>1. \A k \in S : own(k) \cap own(l) = {}
      OBVIOUS
    <3> QED BY <3>1 DEF Units
  <2>3. Cardinality(Units(S, f) \cap own(l)) = 0
    BY <2>2, FS_EmptySet
  <2>4. Cardinality(Units(S, f)) \in Nat
    BY <1>2, FS_CardinalityType
  <2>5. f[l] \in Nat
    OBVIOUS
  <2> HIDE DEF own
  <2>6. Cardinality(Units(S, f) \cup own(l)) =
            Cardinality(Units(S, f)) + Cardinality(own(l)) - Cardinality(Units(S, f) \cap own(l))
    BY <1>1, <1>2, FS_Union
  <2>7. Cardinality(own(l)) = f[l]
    BY <1>1
  <2> DEFINE a == Cardinality(Units(S, f))
             b == Cardinality(own(l))
             c == Cardinality(Units(S, f) \cap own(l))
             d == Cardinality(Units(S, f) \cup own(l))
  <2>8. d = a + b - c /\ a \in Nat /\ b = f[l] /\ f[l] \in Nat /\ c = 0
    BY <2>3, <2>4, <2>5, <2>6, <2>7
  <2>9. d = a + f[l]
    <3> HIDE DEF a, b, c, d
    <3> QED BY <2>8
  <2> QED BY <2>1, <2>9
<1>5. Cardinality(Units(S, f)) \in Nat
  BY <1>2, FS_CardinalityType
<1> HIDE DEF own
<1> QED BY <1>2, <1>3, <1>4, <1>5

\* So do the totals.
LEMMA TotalCount ==
    ASSUME NEW S \in SUBSET Leases
    PROVE  /\ Total(S).vcpus \in Nat /\ Total(S).memory \in Nat
           /\ \A T \in SUBSET S : Total(T).vcpus <= Total(S).vcpus /\ Total(T).memory <= Total(S).memory
           /\ \A l \in Leases \ S :
                 /\ Total(S \cup {l}).vcpus = Total(S).vcpus + LeaseSpec[l].vcpus
                 /\ Total(S \cup {l}).memory = Total(S).memory + LeaseSpec[l].memory
<1> DEFINE cpu == [l \in Leases |-> LeaseSpec[l].vcpus]
           mem == [l \in Leases |-> LeaseSpec[l].memory]
<1>1. cpu \in [Leases -> Nat] /\ mem \in [Leases -> Nat]
  BY ReconcilerLeaseSpecType
<1>2. ASSUME NEW T \in SUBSET Leases
      PROVE  Total(T).vcpus = Cardinality(Units(T, cpu)) /\ Total(T).memory = Cardinality(Units(T, mem))
  <2>1. UNION {{l} \X (1..LeaseSpec[l].vcpus) : l \in T} = Units(T, cpu)
    BY DEF Units
  <2>2. UNION {{l} \X (1..LeaseSpec[l].memory) : l \in T} = Units(T, mem)
    BY DEF Units
  <2> HIDE DEF cpu, mem
  <2> QED BY <2>1, <2>2 DEF Total
<1>3. \A l \in Leases : cpu[l] = LeaseSpec[l].vcpus /\ mem[l] = LeaseSpec[l].memory
  OBVIOUS
<1> HIDE DEF cpu, mem
<1>4. \A T \in SUBSET S : T \in SUBSET Leases
  OBVIOUS
<1>5. \A l \in Leases \ S : S \cup {l} \in SUBSET Leases
  OBVIOUS
<1>6. Total(S).vcpus \in Nat /\ Total(S).memory \in Nat
  BY <1>1, <1>2, UnitsCount
<1>7. \A T \in SUBSET S : Total(T).vcpus <= Total(S).vcpus /\ Total(T).memory <= Total(S).memory
  BY <1>1, <1>2, <1>4, UnitsCount
<1>8. \A l \in Leases \ S :
         /\ Total(S \cup {l}).vcpus = Total(S).vcpus + LeaseSpec[l].vcpus
         /\ Total(S \cup {l}).memory = Total(S).memory + LeaseSpec[l].memory
  BY <1>1, <1>2, <1>3, <1>5, UnitsCount
<1> QED BY <1>6, <1>7, <1>8

----------------------------------------------------------------------------
(* The inductive invariant.                                                *)

\* A lease without a cap on its vCenters.
Uncapped(l) == LeaseSpec[l].vcenters = 0

\* The circumstances of the first two theorems: the reads are current, the process does
\* not die, the pools stay as they are and no lease caps its vCenters.  Writes may be
\* refused, or be applied and their answers lost, users create and delete leases at any
\* point of a reconcile, and networks are deleted.
Calm ==
    /\ Faults \subseteq {"error", "lost"} /\ Cordonable = {} /\ Removable \cap Pools = {}
    /\ \A l \in Leases : Uncapped(l)

\* The references of obj are among those of big.
Within(obj, big) == PoolsOf(obj) \subseteq PoolsOf(big) /\ obj.nets \subseteq big.nets

\* The map shows every reference of the API server, and more while a reconcile or a
\* failed write has not brought the two together.
MapCovers == \A l \in Leases : Within(api[l], leases[l])

\* The controller decides from the whole inventory, so that a lease that fails held
\* nothing before.
InventoryComplete == known = Pools /\ noSchedule = {} /\ cordoned = {}
Achievable(l) == IsLeaseSatisfiable(LeaseSpec[l], Pools, {})
UnachievableHoldNothing == \A l \in Leases : ~Achievable(l) => HoldsNothing(api[l])

\* A reconcile on its way to the map will not take more into it, and only leases that
\* cannot be satisfied fail.
HandCovers ==
    /\ pc \in IntakeSteps => Within(api[cur], work) /\ Within(work, Mem)
    /\ pc # "releaseRefs"
    /\ pc \in {"failRefs", "failStatus"} => ~Achievable(cur)
    /\ pc \in PoolSteps => Achievable(cur)

\* The leases of the map exclude each other, and fit into their pools.
MapExclusive ==
    \A l, m \in Leases : l # m /\ leases[l].nets \cap leases[m].nets # {} => Siblings(l, m)
UsersOf(p) == {l \in Leases : p \in PoolsOf(leases[l])}
Fits(p, users) ==
    LET left == FreeResources(p, Total(users))
    IN  left.vcpus >= 0 /\ left.memory >= 0
MapFits == \A p \in Pools : UsersOf(p) # {} => Fits(p, UsersOf(p))

CalmInv ==
    /\ MapCovers /\ InventoryComplete /\ UnachievableHoldNothing /\ HandCovers
    /\ MapExclusive /\ MapFits

----------------------------------------------------------------------------
(* What a pool has left.                                                   *)

\* What fits still fits without some of it, and with a lease more for which there is room.
LEMMA FitsCount ==
    ASSUME NEW p \in Pools, NEW S \in SUBSET Leases
    PROVE  /\ \A T \in SUBSET S : Fits(p, S) => Fits(p, T)
           /\ \A l \in Leases \ S :
                 LET left == FreeResources(p, Total(S))
                 IN  left.vcpus >= LeaseSpec[l].vcpus /\ left.memory >= LeaseSpec[l].memory
                        => Fits(p, S \cup {l})
<1> DEFINE cpu == (PoolSpec[p].vcpus * PoolSpec[p].overCommit.num) \div PoolSpec[p].overCommit.den
           mem == PoolSpec[p].memory
<1>1. cpu \in Int /\ mem \in Int
  <2>1. /\ PoolSpec[p].vcpus \in Nat /\ PoolSpec[p].overCommit.num \in Nat
        /\ PoolSpec[p].overCommit.den \in Nat \ {0} /\ mem \in Nat
    BY PoolSpecType
  <2>2. PoolSpec[p].vcpus * PoolSpec[p].overCommit.num \in Nat
    BY <2>1
  <2> QED BY <2>1, <2>2
<1>2. \A used : /\ FreeResources(p, used).vcpus = cpu - used.vcpus
                /\ FreeResources(p, used).memory = mem - used.memory
  BY DEF FreeResources
<1> HIDE DEF cpu, mem
<1>3. ASSUME NEW T \in SUBSET S, Fits(p, S) PROVE Fits(p, T)
  <2>1. T \in SUBSET Leases
    OBVIOUS
  <2>2. /\ Total(T).vcpus \in Nat /\ Total(T).memory \in Nat
        /\ Total(S).vcpus \in Nat /\ Total(S).memory \in Nat
        /\ Total(T).vcpus <= Total(S).vcpus /\ Total(T).memory <= Total(S).memory
    BY <2>1, TotalCount
  <2>3. cpu - Total(S).vcpus >= 0 /\ mem - Total(S).memory >= 0
    BY <1>2, <1>3 DEF Fits
  <2>4. cpu - Total(T).vcpus >= 0 /\ mem - Total(T).memory >= 0
    BY <1>1, <2>2, <2>3
  <2> QED BY <1>2, <2>4 DEF Fits
<1>4. ASSUME NEW l \in Leases \ S,
             FreeResources(p, Total(S)).vcpus >= LeaseSpec[l].vcpus,
             FreeResources(p, Total(S)).memory >= LeaseSpec[l].memory
      PROVE  Fits(p, S \cup {l})
  <2>1. /\ Total(S).vcpus \in Nat /\ Total(S).memory \in Nat
        /\ Total(S \cup {l}).vcpus = Total(S).vcpus + LeaseSpec[l].vcpus
        /\ Total(S \cup {l}).memory = Total(S).memory + LeaseSpec[l].memory
    BY TotalCount
  <2>2. LeaseSpec[l].vcpus \in Nat /\ LeaseSpec[l].memory \in Nat
    BY ReconcilerLeaseSpecType
  <2>3. cpu - Total(S).vcpus >= LeaseSpec[l].vcpus /\ mem - Total(S).memory >= LeaseSpec[l].memory
    BY <1>2, <1>4
  <2>4. cpu - Total(S \cup {l}).vcpus >= 0 /\ mem - Total(S \cup {l}).memory >= 0
    BY <1>1, <2>1, <2>2, <2>3
  <2> QED BY <1>2, <2>4 DEF Fits
<1> QED BY <1>3, <1>4

----------------------------------------------------------------------------
(* The map gives and takes.                                                *)

\* No lease gets a reference in the map.
MapLoses == \A l \in Leases : Within(leases'[l], leases[l])

\* A step that gives nothing disturbs nobody.
LEMMA LosingIsSafe ==
    ASSUME CalmInv, MapLoses
    PROVE  MapExclusive' /\ MapFits'
<1>1. MapExclusive'
  BY DEF CalmInv, MapExclusive, MapLoses, Within
<1>2. ASSUME NEW p \in Pools, UsersOf(p)' # {} PROVE Fits(p, UsersOf(p)')
  <2>1. UsersOf(p)' \in SUBSET UsersOf(p) /\ UsersOf(p) \in SUBSET Leases
    BY DEF UsersOf, MapLoses, Within
  <2>2. Fits(p, UsersOf(p))
    BY <1>2, <2>1 DEF CalmInv, MapFits
  <2> QED BY <2>1, <2>2, FitsCount
<1> QED BY <1>1, <1>2 DEF MapFits, Fits

\* The pool loop gives a pool with room for the lease, which is not in it.
LEMMA PoolsAreShared ==
    ASSUME TypeOK, PersistInv, CalmInv, AssignPool
    PROVE  MapCovers' /\ MapExclusive' /\ MapFits'
<1>1. cur \in Leases /\ Mem \in LeaseObjects /\ leases \in [Leases -> LeaseObjects] /\ api' = api
  BY LeasesFinite DEF TypeOK, AssignPool, Mem, InMemory
<1>2. PICK excluded \in Exclusions : \E p \in Candidates(excluded) : SetMem([Mem EXCEPT !.pools = Append(@, p)])
  BY DEF AssignPool
<1>3. PICK p \in Candidates(excluded) : SetMem([Mem EXCEPT !.pools = Append(@, p)])
  BY <1>2
<1>4. /\ p \in known /\ p \in Pools /\ p \notin PoolsOf(Mem)
      /\ FreeNow[p].vcpus >= Asked.vcpus /\ FreeNow[p].memory >= Asked.memory
  BY <1>3, PickIsKnown DEF TypeOK, Assigned, Candidates, GetPoolWithStrategy, GetFittingPools
<1>5. leases'[cur].pools = Append(Mem.pools, p) /\ leases'[cur].nets = Mem.nets /\ Mem.pools \in Seq(Pools)
  BY <1>1, <1>3 DEF SetMem, LeaseObjects
<1>6. PoolsOf(leases'[cur]) = PoolsOf(Mem) \cup {p}
  BY <1>4, <1>5, AppendMembers DEF PoolsOf
<1>7. \A l \in Leases \ {cur} : leases'[l] = leases[l]
  BY <1>1, <1>3 DEF SetMem
<1>8. \A l \in Leases : leases'[l].nets = leases[l].nets
  BY <1>5, <1>7 DEF Mem
<1>9. MapExclusive'
  BY <1>8 DEF CalmInv, MapExclusive
<1>10. MapCovers'
  BY <1>1, <1>6, <1>7, <1>8 DEF CalmInv, MapCovers, Within, Mem
<1>11. UsersOf(p)' = UsersOf(p) \cup {cur} /\ cur \in Leases \ UsersOf(p) /\ UsersOf(p) \in SUBSET Leases
  BY <1>1, <1>4, <1>6, <1>7 DEF UsersOf, Mem
<1>12. Fits(p, UsersOf(p) \cup {cur})
  <2>1. FreeNow[p] = FreeResources(p, Total(UsersOf(p)))
    BY <1>4 DEF FreeNow, UsersOf
  <2> QED BY <1>4, <1>11, <2>1, FitsCount DEF Asked
<1>13. \A q \in Pools \ {p} : UsersOf(q)' = UsersOf(q)
  BY <1>1, <1>6, <1>7 DEF UsersOf, Mem
<1>14. MapFits'
  <2> SUFFICES ASSUME NEW q \in Pools, UsersOf(q)' # {} PROVE Fits(q, UsersOf(q)')
    BY DEF MapFits, Fits
  <2>1. CASE q = p
    BY <1>11, <1>12, <2>1
  <2>2. CASE q # p
    BY <1>13, <2>2 DEF CalmInv, MapFits
  <2> QED BY <2>1, <2>2
<1> QED BY <1>9, <1>10, <1>14

\* A network that is considered for a lease is free, or owned by a sibling.
LEMMA ConsideredAreFree ==
    ASSUME NEW l \in Leases, NEW p, NEW first, NEW avail \in ConsideredNetworks(l, p, first), NEW n \in avail
    PROVE  n \notin OwnedNetworks \/ \E m \in Leases : Siblings(l, m) /\ n \in leases[m].nets
<1> DEFINE type == LeaseSpec[l].networkType
<1>1. ASSUME n \in getAvailableNetworks(p, type, loaded, OwnedNetworks) PROVE n \notin OwnedNetworks
  BY <1>1 DEF getAvailableNetworks
<1>2. CASE SiblingNetworks(l) # {}
  <2>1. PICK c \in SiblingNetworks(l) : avail = resolveCommonNetworksForPool(c, p, type, loaded, OwnedNetworks)
    BY <1>2 DEF ConsideredNetworks
  <2>2. n \in c \/ n \in getAvailableNetworks(p, type, loaded, OwnedNetworks)
    BY <2>1 DEF resolveCommonNetworksForPool
  <2>3. PICK m \in Leases : Siblings(l, m) /\ c = leases[m].nets \cap loaded
    BY <2>1 DEF SiblingNetworks
  <2> QED BY <1>1, <2>2, <2>3
<1>3. CASE SiblingNetworks(l) = {}
  BY <1>1, <1>3 DEF ConsideredNetworks
<1> QED BY <1>2, <1>3

\* The network loop gives free networks, or those of a sibling, which only siblings own.
LEMMA NetworksAreExclusive ==
    ASSUME TypeOK, PersistInv, CalmInv, AssignNetworks
    PROVE  MapCovers' /\ MapExclusive' /\ MapFits'
<1> DEFINE q     == Mem.pools[poolIdx]
           first == poolIdx = 1
<1>1. cur \in Leases /\ Mem \in LeaseObjects /\ leases \in [Leases -> LeaseObjects] /\ api' = api
  BY LeasesFinite DEF TypeOK, AssignNetworks, Mem, InMemory
<1>2. PICK avail \in ConsideredNetworks(cur, q, first) :
        \E S \in NetworkPicks(first, q, Mem.nets, avail, Asked.networks, loaded) :
            SetMem([Mem EXCEPT !.nets = @ \cup S])
  BY DEF AssignNetworks
<1>3. PICK S \in NetworkPicks(first, q, Mem.nets, avail, Asked.networks, loaded) :
        SetMem([Mem EXCEPT !.nets = @ \cup S])
  BY <1>2
<1>4. \A n \in S : n \notin OwnedNetworks \/ \E m \in Leases : Siblings(cur, m) /\ n \in leases[m].nets
  BY <1>1, <1>2, <1>3, PicksAreConsidered, ConsideredAreFree
<1>5. leases'[cur].pools = Mem.pools /\ leases'[cur].nets = Mem.nets \cup S
  BY <1>1, <1>3 DEF SetMem, LeaseObjects
<1>6. \A l \in Leases \ {cur} : leases'[l] = leases[l]
  BY <1>1, <1>3 DEF SetMem
<1> HIDE DEF q, first
<1>7. \A l \in Leases : PoolsOf(leases'[l]) = PoolsOf(leases[l])
  BY <1>5, <1>6 DEF PoolsOf, Mem
<1>8. MapFits'
  <2>1. \A p \in Pools : UsersOf(p)' = UsersOf(p)
    BY <1>7 DEF UsersOf
  <2> QED BY <2>1 DEF CalmInv, MapFits, Fits
<1>9. MapCovers'
  BY <1>1, <1>5, <1>6, <1>7 DEF CalmInv, MapCovers, Within, Mem
<1>10. ASSUME NEW k \in Leases \ {cur}, NEW n \in leases[k].nets, n \in Mem.nets \cup S
       PROVE  Siblings(cur, k)
  <2>1. CASE n \in Mem.nets
    BY <1>1, <1>10, <2>1 DEF CalmInv, MapExclusive, Mem
  <2>2. CASE n \in S
    <3>1. n \in OwnedNetworks
      BY <1>10 DEF OwnedNetworks
    <3>2. PICK m \in Leases : Siblings(cur, m) /\ n \in leases[m].nets
      BY <1>4, <2>2, <3>1
    <3>3. CASE m = k
      BY <3>2, <3>3
    <3>4. CASE m # k
      <4>1. Siblings(k, m)
        BY <1>10, <3>2, <3>4 DEF CalmInv, MapExclusive
      <4> QED BY <1>10, <3>2, <4>1 DEF Siblings
    <3> QED BY <3>3, <3>4
  <2> QED BY <1>10, <2>1, <2>2
<1>11. \A l, m : Siblings(l, m) => Siblings(m, l)
  BY DEF Siblings
<1>12. MapExclusive'
  <2> SUFFICES ASSUME NEW l \in Leases, NEW m \in Leases, l # m, leases'[l].nets \cap leases'[m].nets # {}
               PROVE  Siblings(l, m)
    BY DEF MapExclusive
  <2>1. CASE l = cur
    BY <1>5, <1>6, <1>10, <2>1
  <2>2. CASE m = cur
    BY <1>5, <1>6, <1>10, <1>11, <2>2
  <2>3. CASE l # cur /\ m # cur
    BY <1>6, <2>3 DEF CalmInv, MapExclusive
  <2> QED BY <2>1, <2>2, <2>3
<1> QED BY <1>8, <1>9, <1>12

----------------------------------------------------------------------------
(* The other steps of a reconcile give nothing.                            *)

\* Within is an order, and depends on the references only.
LEMMA WithinOrder ==
    /\ \A a, b : a.pools = b.pools /\ a.nets = b.nets => Within(a, b)
    /\ \A a, b, c : Within(a, b) /\ Within(b, c) => Within(a, c)
    /\ \A a, b : HoldsNothing(a) => Within(a, b)
<1>1. ASSUME NEW a, NEW b, a.pools = b.pools, a.nets = b.nets PROVE Within(a, b)
  BY <1>1 DEF Within, PoolsOf
<1>2. \A a, b, c : Within(a, b) /\ Within(b, c) => Within(a, c)
  BY DEF Within
<1>3. ASSUME NEW a, NEW b, HoldsNothing(a) PROVE Within(a, b)
  <2>1. a.pools = <<>> /\ a.nets = {}
    BY <1>3 DEF HoldsNothing
  <2>2. PoolsOf(a) = {}
    BY <2>1 DEF PoolsOf
  <2> QED BY <2>1, <2>2 DEF Within
<1> QED BY <1>1, <1>2, <1>3

\* The cache is the API server, and every step leaves it so.
LEMMA CacheIsCurrent ==
    ASSUME "lag" \notin Faults, TypeOK, PersistInv
    PROVE  cache = api /\ behind = {} /\ \A l, obj : CacheAfter(l, obj) = [api EXCEPT ![l] = obj]
<1>1. behind = {} /\ cache = api
  BY DEF TypeOK, PersistInv, CacheIsPast
<1> QED BY <1>1 DEF CacheAfter

\* The wake-ups replace entries of the map, of leases that wait, by what the API server
\* has.
LEMMA TriggerGives ==
    ASSUME "lag" \notin Faults, TypeOK, PersistInv, NEW l \in Leases, NEW obj, NEW map, WriteAndTriggerLeaseUpdates(l, obj, map)
    PROVE  /\ api' = [api EXCEPT ![l] = obj]
           /\ \A m \in Leases : leases'[m] = map[m] \/ (leases'[m] = api'[m] /\ map[m].phase # "Failed")
<1>1. api' = [api EXCEPT ![l] = obj]
  BY DEF WriteAndTriggerLeaseUpdates, Write
<1>2. \A m \in Leases :
         \/ leases'[m] = map[m]
         \/ leases'[m] = CacheAfter(l, obj)[m] /\ map[m].phase \notin Terminal
  BY DEF WriteAndTriggerLeaseUpdates
<1> QED BY <1>1, <1>2, CacheIsCurrent DEF Terminal

\* A step of a reconcile that leaves the other leases alone, or refreshes them, and its
\* own lease with no more than it had in the map and no less than it has in the API
\* server, is safe.
LEMMA RewritesAreSafe ==
    ASSUME TypeOK, CalmInv, cur \in Leases,
           \A l \in Leases \ {cur} : api'[l] = api[l] /\ leases'[l] \in {api[l], leases[l]},
           Within(api'[cur], leases'[cur]), Within(leases'[cur], leases[cur])
    PROVE  MapCovers' /\ MapLoses
<1>1. \A l \in Leases : Within(api[l], leases[l])
  BY DEF CalmInv, MapCovers
<1>2. MapLoses
  BY <1>1, WithinOrder DEF MapLoses
<1>3. MapCovers'
  BY <1>1, WithinOrder DEF MapCovers
<1> QED BY <1>2, <1>3

\* The references of the objects that a reconcile writes.
LEMMA WrittenRefs ==
    ASSUME TypeOK, cur \in Leases
    PROVE  /\ WithRefs.pools = Mem.pools /\ WithRefs.nets = Mem.nets
           /\ WithStatus.pools = api[cur].pools /\ WithStatus.nets = api[cur].nets
           /\ \A obj \in {WithRefs, WithStatus} :
                 \/ Decoded(Mem, obj).pools = Mem.pools /\ Decoded(Mem, obj).nets = Mem.nets
                 \/ Decoded(Mem, obj).pools = obj.pools /\ Decoded(Mem, obj).nets = obj.nets
           /\ WithRefs \in LeaseObjects /\ WithStatus \in LeaseObjects
           /\ api[cur] \in LeaseObjects /\ Mem \in LeaseObjects
<1>1. api[cur] \in LeaseObjects /\ Mem \in LeaseObjects
  BY DEF TypeOK, Mem
<1>2. /\ WithRefs.pools = Mem.pools /\ WithRefs.nets = Mem.nets
      /\ WithStatus.pools = api[cur].pools /\ WithStatus.nets = api[cur].nets
      /\ WithRefs \in LeaseObjects /\ WithStatus \in LeaseObjects
  BY <1>1 DEF WithRefs, WithStatus, LeaseObjects
<1>3. ASSUME NEW obj \in LeaseObjects
      PROVE  \/ Decoded(Mem, obj).pools = Mem.pools /\ Decoded(Mem, obj).nets = Mem.nets
             \/ Decoded(Mem, obj).pools = obj.pools /\ Decoded(Mem, obj).nets = obj.nets
  BY <1>1 DEF Decoded, LeaseObjects
<1> QED BY <1>1, <1>2, <1>3

\* The writes before the leases map leave the references, and the deletion mark, alone.
LEMMA IntakeKeepsRefs ==
    ASSUME work \in LeaseObjects
    PROVE  \A obj \in {Initialised, Finalized} :
              obj.pools = work.pools /\ obj.nets = work.nets /\ obj.deleting = work.deleting
BY DEF Initialised, Finalized, LeaseObjects

\* Before the leases map.
LEMMA IntakeIsSafe ==
    ASSUME Calm, TypeOK, PersistInv, CalmInv, InitStatus \/ AddFinalizer \/ DropFinalizer
    PROVE  MapCovers' /\ MapLoses
<1>1. pc \in IntakeSteps /\ cur \in Leases
  BY LeasesFinite DEF InitStatus, AddFinalizer, DropFinalizer, Intake, IntakeSteps, TypeOK
<1>2. Within(api[cur], work) /\ Within(work, Mem) /\ work \in LeaseObjects /\ api \in [Leases -> LeaseObjects]
  BY <1>1 DEF CalmInv, HandCovers, TypeOK
<1>3. ASSUME NEW obj, obj.pools = work.pools, obj.nets = work.nets,
             api' = [api EXCEPT ![cur] = obj], leases' = leases
      PROVE  MapCovers' /\ MapLoses
  <2>1. Within(obj, Mem)
    BY <1>2, <1>3, WithinOrder
  <2>2. api'[cur] = obj /\ leases'[cur] = Mem /\ \A l \in Leases \ {cur} : api'[l] = api[l] /\ leases'[l] = leases[l]
    BY <1>1, <1>2, <1>3 DEF Mem
  <2>3. Within(leases'[cur], leases[cur])
    BY <1>3, WithinOrder
  <2> QED BY <1>1, <2>1, <2>2, <2>3, RewritesAreSafe
<1>4. CASE InitStatus
  <2>1. api' = [api EXCEPT ![cur] = Initialised] /\ leases' = leases
    BY <1>4 DEF InitStatus, Intake, Write, inMaps
  <2> QED BY <1>2, <1>3, <2>1, IntakeKeepsRefs
<1>5. CASE AddFinalizer
  <2>1. api' = [api EXCEPT ![cur] = Finalized] /\ leases' = leases
    BY <1>5 DEF AddFinalizer, Intake, Write, inMaps
  <2> QED BY <1>2, <1>3, <2>1, IntakeKeepsRefs
<1>6. CASE DropFinalizer
  <2> DEFINE map == [leases EXCEPT ![cur] = NoLease]
  <2>1. WriteAndTriggerLeaseUpdates(cur, NoLease, map)
    BY <1>6 DEF DropFinalizer
  <2>2. map[cur] = NoLease /\ \A l \in Leases \ {cur} : map[l] = leases[l]
    BY <1>1 DEF TypeOK
  <2> HIDE DEF map
  <2>3. api' = [api EXCEPT ![cur] = NoLease] /\ \A m \in Leases : leases'[m] = api'[m] \/ leases'[m] = map[m]
    BY <1>1, <2>1, TriggerGives DEF Calm
  <2>4. api'[cur] = NoLease /\ \A l \in Leases \ {cur} : api'[l] = api[l]
    BY <1>1, <1>2, <2>3
  <2>5. leases'[cur] = NoLease /\ \A l \in Leases \ {cur} : leases'[l] \in {api[l], leases[l]}
    BY <1>1, <2>2, <2>3, <2>4
  <2>6. HoldsNothing(NoLease)
    BY BlankObjects
  <2>7. Within(api'[cur], leases'[cur]) /\ Within(leases'[cur], leases[cur])
    BY <2>4, <2>5, <2>6, WithinOrder
  <2> QED BY <1>1, <2>4, <2>5, <2>7, RewritesAreSafe
<1> QED BY <1>4, <1>5, <1>6

\* Entering the leases map: the object read replaces the entry.  It loses its references
\* only if it cannot be satisfied, and then has none in the API server.
LEMMA AdmitIsSafe ==
    ASSUME Calm, TypeOK, PersistInv, CalmInv, AdmitTerminal \/ failLeaseIfUnsatisfiable \/ AdmitWaiting
    PROVE  MapCovers' /\ MapLoses
<1>1. pc = "admit" /\ cur \in Leases /\ api' = api
  BY LeasesFinite DEF AdmitTerminal, failLeaseIfUnsatisfiable, AdmitWaiting, AdmitOrDelay, Admit, InMemory, TypeOK
<1>2. Within(api[cur], work) /\ Within(work, Mem) /\ work \in LeaseObjects /\ leases \in [Leases -> LeaseObjects]
  BY <1>1 DEF CalmInv, HandCovers, IntakeSteps, TypeOK
<1>3. ASSUME NEW obj, SetMem(obj), Within(obj, work), Within(api[cur], obj)
      PROVE  MapCovers' /\ MapLoses
  <2>1. leases'[cur] = obj /\ \A l \in Leases \ {cur} : leases'[l] = leases[l]
    BY <1>1, <1>2, <1>3 DEF SetMem
  <2>2. Within(obj, leases[cur])
    BY <1>2, <1>3, WithinOrder DEF Mem
  <2> QED BY <1>1, <1>3, <2>1, <2>2, RewritesAreSafe
<1>4. CASE failLeaseIfUnsatisfiable
  <2> DEFINE obj == [NoRefs(work) EXCEPT !.phase = "Failed", !.conds = Set(@, {}, ConditionTypes)]
  <2>1. SetMem(obj) /\ ~Satisfiable
    BY <1>4 DEF failLeaseIfUnsatisfiable, Admit
  <2>2. NoRefs(work) \in LeaseObjects /\ HoldsNothing(NoRefs(work))
    BY <1>2, ObjectTypes DEF NoRefs, HoldsNothing, LeaseObjects
  <2>3. HoldsNothing(obj)
    BY <2>2 DEF HoldsNothing, LeaseObjects
  <2>4. HoldsNothing(api[cur])
    BY <1>1, <2>1 DEF CalmInv, InventoryComplete, UnachievableHoldNothing, Achievable, Satisfiable
  <2> HIDE DEF obj
  <2> QED BY <1>3, <2>1, <2>3, <2>4, WithinOrder
<1>5. CASE AdmitTerminal \/ AdmitWaiting
  <2> DEFINE obj == [work EXCEPT !.conds = Set(@, {}, {"Fulfilled"})]
  <2>1. SetMem(work) \/ SetMem(obj)
    BY <1>5 DEF AdmitTerminal, AdmitWaiting, AdmitOrDelay, Admit
  <2>2. obj.pools = work.pools /\ obj.nets = work.nets
    BY <1>2 DEF LeaseObjects
  <2> HIDE DEF obj
  <2> QED BY <1>2, <1>3, <2>1, <2>2, WithinOrder
<1> QED BY <1>4, <1>5

\* The writes of a reconcile from the map on, with what their answers put into the map.
LEMMA WritesAreSafe ==
    ASSUME Calm, TypeOK, PersistInv, CalmInv,
           FailRefs \/ FailStatus \/ Delay \/ NoPool \/ SaveMissing \/ SaveRefs \/ SaveStatus
    PROVE  MapCovers' /\ MapLoses
<1>1. cur \in Leases /\ api \in [Leases -> LeaseObjects] /\ leases \in [Leases -> LeaseObjects]
  BY LeasesFinite DEF TypeOK, FailRefs, FailStatus, Delay, NoPool, SaveMissing, SaveRefs, SaveStatus
<1>2. Within(api[cur], Mem)
  BY <1>1 DEF CalmInv, MapCovers, Mem
<1>3. /\ Within(WithRefs, Mem) /\ Within(WithStatus, api[cur]) /\ Within(WithStatus, Mem)
      /\ \A obj \in {WithRefs, WithStatus} : Within(obj, Decoded(Mem, obj)) /\ Within(Decoded(Mem, obj), Mem)
  BY <1>1, <1>2, WrittenRefs, WithinOrder
<1>4. Within(Mem, Mem) /\ \A obj : Within(obj, obj)
  BY WithinOrder
<1>5. ASSUME NEW obj \in {WithRefs, WithStatus}, NEW new \in {Mem, Decoded(Mem, obj)},
             api' = [api EXCEPT ![cur] = obj], leases' = [leases EXCEPT ![cur] = new]
      PROVE  MapCovers' /\ MapLoses
  <2>1. /\ api'[cur] = obj /\ leases'[cur] = new
        /\ \A l \in Leases \ {cur} : api'[l] = api[l] /\ leases'[l] = leases[l]
    BY <1>1, <1>5
  <2>2. Within(obj, new) /\ Within(new, leases[cur])
    BY <1>3, <1>4, <1>5 DEF Mem
  <2> QED BY <1>1, <2>1, <2>2, RewritesAreSafe
<1>6. leases = [leases EXCEPT ![cur] = Mem]
  BY <1>1 DEF Mem
<1>7. CASE FailRefs \/ SaveRefs
  BY <1>5, <1>6, <1>7 DEF FailRefs, SaveRefs, Write, inMaps
<1>8. CASE SaveMissing
  BY <1>5, <1>8 DEF SaveMissing, Write, SetMem
<1>9. CASE NoPool
  BY <1>5, <1>9 DEF NoPool, Write, SetMem
<1>10. ASSUME WriteAndTriggerLeaseUpdates(cur, WithStatus, leases)
       PROVE  MapCovers' /\ MapLoses
  <2>1. api' = [api EXCEPT ![cur] = WithStatus] /\ \A m \in Leases : leases'[m] = api'[m] \/ leases'[m] = leases[m]
    BY <1>1, <1>10, TriggerGives DEF Calm
  <2>2. api'[cur] = WithStatus /\ \A l \in Leases \ {cur} : api'[l] = api[l]
    BY <1>1, <2>1
  <2>3. leases'[cur] \in {WithStatus, Mem} /\ \A l \in Leases \ {cur} : leases'[l] \in {api[l], leases[l]}
    BY <1>1, <2>1, <2>2 DEF Mem
  <2>4. Within(api'[cur], leases'[cur]) /\ Within(leases'[cur], leases[cur])
    BY <1>3, <1>4, <2>2, <2>3 DEF Mem
  <2> QED BY <1>1, <2>2, <2>3, <2>4, RewritesAreSafe
<1>11. CASE FailStatus \/ Delay
  BY <1>10, <1>11 DEF FailStatus, Delay
<1>12. CASE SaveStatus
  <2>1. CASE WriteAndTriggerLeaseUpdates(cur, WithStatus, leases)
    BY <1>10, <2>1
  <2>2. CASE Write(cur, WithStatus, {}) /\ leases' = leases
    BY <1>5, <1>6, <2>2 DEF Write
  <2> QED BY <1>12, <2>1, <2>2 DEF SaveStatus
<1> QED BY <1>7, <1>8, <1>9, <1>11, <1>12

\* A write whose answer is lost changes the API server only, to what the map covers.
LEMMA LostIsSafe ==
    ASSUME TypeOK, CalmInv, LostAnswer
    PROVE  MapCovers' /\ MapLoses
<1>1. /\ pc \in WriteSteps /\ cur \in Leases /\ api \in [Leases -> LeaseObjects] /\ work \in LeaseObjects
      /\ api' = [api EXCEPT ![cur] = Written] /\ leases' = leases
  BY LeasesFinite DEF LostAnswer, WriteSteps, Write, TypeOK, inMaps
<1>2. ASSUME Within(Written, Mem) PROVE MapCovers' /\ MapLoses
  <2>1. api'[cur] = Written /\ \A l \in Leases \ {cur} : api'[l] = api[l] /\ leases'[l] = leases[l]
    BY <1>1
  <2>2. Within(api'[cur], leases'[cur]) /\ Within(leases'[cur], leases[cur])
    BY <1>1, <1>2, <2>1, WithinOrder DEF Mem
  <2> QED BY <1>1, <2>1, <2>2, RewritesAreSafe
<1>3. CASE pc = "initStatus"
  <2>1. Written = Initialised /\ Within(work, Mem)
    BY <1>3 DEF Written, CalmInv, HandCovers, IntakeSteps
  <2> QED BY <1>1, <1>2, <2>1, IntakeKeepsRefs, WithinOrder
<1>4. CASE pc = "addFinalizer"
  <2>1. Written = Finalized /\ Within(work, Mem)
    BY <1>4 DEF Written, CalmInv, HandCovers, IntakeSteps
  <2> QED BY <1>1, <1>2, <2>1, IntakeKeepsRefs, WithinOrder
<1>5. CASE pc = "dropFinalizer"
  <2>1. Written = NoLease
    BY <1>5 DEF Written
  <2> QED BY <1>2, <2>1, BlankObjects, WithinOrder
<1>6. CASE pc \in WriteSteps \ {"initStatus", "addFinalizer", "dropFinalizer"}
  <2>1. Written = WithRefs \/ Written = WithStatus
    BY <1>6 DEF Written, WriteSteps, Steps
  <2>2. Within(WithRefs, Mem) /\ Within(WithStatus, api[cur]) /\ Within(api[cur], Mem)
    BY <1>1, WrittenRefs, WithinOrder DEF CalmInv, MapCovers, Mem
  <2> QED BY <1>2, <2>1, <2>2, WithinOrder
<1> QED BY <1>1, <1>3, <1>4, <1>5, <1>6

\* Only a lease that caps its vCenters releases its pools.
LEMMA OnlyCappedRelease ==
    ASSUME TypeOK, ReleasePools
    PROVE  ~Uncapped(cur)
<1>1. SUFFICES ASSUME Uncapped(cur) PROVE FALSE
  OBVIOUS
<1>2. Asked.vcenters = 0
  BY <1>1 DEF Uncapped, Asked
<1>3. Exclusions = {{}}
  BY <1>2 DEF Exclusions, ExcludedVCenters
<1>4. ~StuckOnFilters({})
  BY <1>2 DEF StuckOnFilters, CapReached
<1> QED BY <1>3, <1>4 DEF ReleasePools

\* Without a cap no pool is ever released for another combination of vCenters.
LEMMA NothingIsReleased ==
    ASSUME Calm, TypeOK, PersistInv, CalmInv
    PROVE  ~ReleasePools /\ ~ReleaseRefs
<1>1. ~ReleaseRefs
  BY DEF CalmInv, HandCovers, ReleaseRefs
<1>2. ReleasePools => cur \in Leases
  BY LeasesFinite DEF TypeOK, ReleasePools
<1> QED BY <1>1, <1>2, OnlyCappedRelease DEF Calm

\* The loops keep the references, where they do not add to them.
LEMMA LoopsAreSafe ==
    ASSUME Calm, TypeOK, PersistInv, CalmInv, PoolsDone \/ NetworksDone
    PROVE  MapCovers' /\ MapLoses
<1>1. cur \in Leases /\ Mem \in LeaseObjects /\ leases \in [Leases -> LeaseObjects] /\ api' = api
  BY LeasesFinite DEF TypeOK, PoolsDone, NetworksDone, Mem, InMemory
<1>2. ASSUME NEW obj, SetMem(obj), obj.pools = Mem.pools, obj.nets = Mem.nets
      PROVE  MapCovers' /\ MapLoses
  <2>1. leases'[cur] = obj /\ \A l \in Leases \ {cur} : leases'[l] = leases[l]
    BY <1>1, <1>2 DEF SetMem
  <2>2. Within(obj, Mem) /\ Within(Mem, obj)
    BY <1>2, WithinOrder
  <2>3. Within(api[cur], obj)
    BY <1>1, <2>2, WithinOrder DEF CalmInv, MapCovers, Mem
  <2> QED BY <1>1, <2>1, <2>2, <2>3, RewritesAreSafe DEF Mem
<1>3. CASE PoolsDone
  <2> DEFINE obj == [Mem EXCEPT !.name = PoolSpec[Mem.pools[1]].name]
  <2>1. SetMem(obj)
    BY <1>3 DEF PoolsDone
  <2>2. obj.pools = Mem.pools /\ obj.nets = Mem.nets
    BY <1>1 DEF LeaseObjects
  <2> HIDE DEF obj
  <2> QED BY <1>2, <2>1, <2>2
<1>4. CASE NetworksDone
  <2> DEFINE done == ~Incomplete /\ AllPoolsHaveNetworks(Assigned, Mem.nets, Asked.networks, loaded)
             obj  == WithPhase(Mem, IF done THEN "Fulfilled" ELSE "Partial")
  <2>1. SetMem(IF Missing THEN Mem ELSE obj)
    BY <1>4 DEF NetworksDone
  <2>2. obj.pools = Mem.pools /\ obj.nets = Mem.nets
    BY <1>1 DEF WithPhase, LeaseObjects
  <2> HIDE DEF obj
  <2> QED BY <1>2, <2>1, <2>2
<1> QED BY <1>3, <1>4

\* Users, and the steps of the other controllers, give no lease a reference.
LEMMA OthersGiveNothing ==
    ASSUME TypeOK,
           \/ Environment
           \/ \E p \in Pools : ReconcilePool(p)
           \/ \E n \in Networks : ReconcileNetwork(n)
           \/ UNCHANGED vars
    PROVE  \A l \in Leases : Within(api'[l], api[l])
<1>1. ASSUME NEW l \in Leases, NEW obj, Write(l, obj, {}), Within(obj, api[l])
      PROVE  \A m \in Leases : Within(api'[m], api[m])
  BY <1>1, WithinOrder DEF Write, TypeOK
<1>2. ASSUME NEW l \in Leases, CreateLease(l) PROVE \A m \in Leases : Within(api'[m], api[m])
  BY <1>1, <1>2, BlankObjects, WithinOrder DEF CreateLease
<1>3. ASSUME NEW l \in Leases, DeleteLease(l) PROVE \A m \in Leases : Within(api'[m], api[m])
  <2> DEFINE mark == [api[l] EXCEPT !.deleting = TRUE]
  <2>1. Write(l, mark, {}) \/ Write(l, NoLease, {})
    BY <1>3 DEF DeleteLease
  <2>2. mark.pools = api[l].pools /\ mark.nets = api[l].nets
    BY DEF TypeOK, LeaseObjects
  <2>3. Within(mark, api[l]) /\ Within(NoLease, api[l])
    <3> HIDE DEF mark
    <3> QED BY <2>2, BlankObjects, WithinOrder
  <2> HIDE DEF mark
  <2> QED BY <1>1, <2>1, <2>3
<1>4. ASSUME NEW l \in Leases, CollectGarbage(l) PROVE \A m \in Leases : Within(api'[m], api[m])
  <2> DEFINE left == [api[l] EXCEPT !.pools = Without(@, removed), !.nets = @ \ removed]
             mark == [api[l] EXCEPT !.deleting = TRUE]
  <2>1. Write(l, mark, {}) \/ Write(l, left, {})
    BY <1>4 DEF CollectGarbage
  <2>2. api[l] \in LeaseObjects
    BY DEF TypeOK
  <2>3. /\ mark.pools = api[l].pools /\ mark.nets = api[l].nets /\ api[l].pools \in Seq(Pools)
        /\ left.pools = Without(api[l].pools, removed) /\ left.nets \subseteq api[l].nets
    BY <2>2 DEF LeaseObjects
  <2> HIDE DEF left, mark
  <2>4. PoolsOf(left) \subseteq PoolsOf(api[l])
    BY <2>3, WithoutMembers DEF PoolsOf
  <2>5. Within(mark, api[l]) /\ Within(left, api[l])
    BY <2>3, <2>4, WithinOrder DEF Within
  <2> QED BY <1>1, <2>1, <2>5
<1>5. CASE api' = api
  BY <1>5, WithinOrder
<1>6. CASE Environment
  <2>1. \A l \in Leases : Sync(l) => api' = api
    BY DEF Sync
  <2>2. \A p : SetNoSchedule(p) \/ RemovePool(p) \/ RemoveNetwork(p) => api' = api
    BY DEF SetNoSchedule, RemovePool, RemoveNetwork
  <2> QED BY <1>2, <1>3, <1>4, <1>5, <1>6, <2>1, <2>2 DEF Environment
<1>7. CASE \/ \E p \in Pools : ReconcilePool(p)
           \/ \E n \in Networks : ReconcileNetwork(n)
           \/ UNCHANGED vars
  BY <1>5, <1>7 DEF ReconcilePool, ReconcileNetwork, vars
<1> QED BY <1>6, <1>7

\* Only the two loops give: every other step leaves the map covering the API server, and
\* no lease with more than it had there.
LEMMA OnlyLoopsGive ==
    ASSUME Calm, TypeOK, PersistInv, CalmInv, [Next]_vars
    PROVE  (MapCovers' /\ MapLoses) \/ AssignPool \/ AssignNetworks
<1>1. CASE \/ Environment
           \/ \E p \in Pools : ReconcilePool(p)
           \/ \E n \in Networks : ReconcileNetwork(n)
           \/ UNCHANGED vars
  <2>1. leases' = leases
    BY <1>1, OthersKeepHand
  <2>2. MapCovers'
    BY <1>1, <2>1, OthersGiveNothing, WithinOrder DEF CalmInv, MapCovers
  <2>3. MapLoses
    BY <2>1, WithinOrder DEF MapLoses
  <2> QED BY <2>2, <2>3
<1>2. CASE (\E l \in Leases : GetLease(l)) \/ WriteError \/ NoPoolFits
  <2>1. api' = api /\ leases' = leases
    BY <1>2 DEF GetLease, WriteError, NoPoolFits, InMemory, inMaps
  <2>2. MapCovers'
    BY <2>1 DEF CalmInv, MapCovers
  <2>3. MapLoses
    BY <2>1, WithinOrder DEF MapLoses
  <2> QED BY <2>2, <2>3
<1>3. ~Restart
  BY DEF Restart, Calm
<1>4. CASE Reconcile
  BY <1>2, <1>4, IntakeIsSafe, AdmitIsSafe, WritesAreSafe, LostIsSafe, NothingIsReleased, LoopsAreSafe DEF Reconcile
<1> QED BY <1>1, <1>3, <1>4 DEF Next

\* So every step leaves the map covering the API server, exclusive and within the pools.
LEMMA MapStep ==
    ASSUME Calm, TypeOK, PersistInv, CalmInv, [Next]_vars
    PROVE  MapCovers' /\ MapExclusive' /\ MapFits'
<1>1. CASE MapCovers' /\ MapLoses
  BY <1>1, LosingIsSafe
<1>2. CASE AssignPool
  BY <1>2, PoolsAreShared
<1>3. CASE AssignNetworks
  BY <1>3, NetworksAreExclusive
<1> QED BY <1>1, <1>2, <1>3, OnlyLoopsGive

----------------------------------------------------------------------------
(* The rest of the invariant.                                              *)

\* The inventory of the maps stays complete.
LEMMA InventoryStep ==
    ASSUME Calm, TypeOK, PersistInv, CalmInv, [Next]_vars
    PROVE  InventoryComplete'
<1>1. known = Pools /\ noSchedule = {} /\ cordoned = {}
  BY DEF CalmInv, InventoryComplete
<1>2. CASE Reconcile
  <2>1. UNCHANGED <<cordoned, known>>
    BY <1>2, ReconcileKeepsInventory
  <2>2. noSchedule' = noSchedule \/ triggerPoolUpdates
    <3>1. CASE \E l \in Leases : GetLease(l)
      BY <3>1 DEF GetLease, inMaps
    <3>2. CASE WriteError \/ LostAnswer \/ InitStatus \/ AddFinalizer \/ DropFinalizer
      BY <3>2 DEF WriteError, LostAnswer, InitStatus, AddFinalizer, DropFinalizer, Intake, inMaps
    <3>3. CASE AdmitTerminal \/ failLeaseIfUnsatisfiable \/ AdmitWaiting
      BY <3>3 DEF AdmitTerminal, failLeaseIfUnsatisfiable, AdmitWaiting, AdmitOrDelay, Admit, InMemory
    <3>4. CASE FailRefs \/ FailStatus \/ Delay \/ ReleaseRefs \/ NoPool \/ SaveMissing \/ SaveRefs \/ SaveStatus
      BY <3>4 DEF FailRefs, FailStatus, Delay, ReleaseRefs, NoPool, SaveMissing, SaveRefs, SaveStatus, inMaps
    <3>5. CASE AssignPool \/ ReleasePools \/ NoPoolFits \/ PoolsDone \/ AssignNetworks \/ NetworksDone
      BY <3>5 DEF AssignPool, ReleasePools, NoPoolFits, PoolsDone, AssignNetworks, NetworksDone, InMemory
    <3> QED BY <1>2, <3>1, <3>2, <3>3, <3>4, <3>5 DEF Reconcile
  <2> QED BY <1>1, <2>1, <2>2 DEF triggerPoolUpdates, InventoryComplete
<1>3. ASSUME NEW p \in Pools, ReconcilePool(p) PROVE InventoryComplete'
  BY <1>1, <1>3 DEF ReconcilePool, inventory, InventoryComplete
<1>4. ASSUME NEW n \in Networks, ReconcileNetwork(n) PROVE InventoryComplete'
  BY <1>1, <1>4 DEF ReconcileNetwork, inventory, InventoryComplete
<1>5. CASE Environment
  <2>1. CASE \E l \in Leases : CreateLease(l) \/ DeleteLease(l) \/ Sync(l) \/ CollectGarbage(l)
    BY <1>1, <2>1 DEF CreateLease, DeleteLease, Sync, CollectGarbage, inventory, inMaps, InventoryComplete
  <2>2. CASE \E n \in Removable \cap Networks : RemoveNetwork(n)
    BY <1>1, <2>2 DEF RemoveNetwork, inMaps, InventoryComplete
  <2> QED BY <1>5, <2>1, <2>2 DEF Environment, Calm
<1>6. CASE UNCHANGED vars
  BY <1>1, <1>6 DEF vars, InventoryComplete
<1> QED BY <1>2, <1>3, <1>4, <1>5, <1>6 DEF Next, Restart, Calm

\* A lease that cannot be satisfied is given nothing.
LEMMA UnachievableStep ==
    ASSUME Calm, TypeOK, PersistInv, CalmInv, [Next]_vars
    PROVE  UnachievableHoldNothing'
<1> SUFFICES ASSUME NEW l \in Leases, ~Achievable(l), api'[l] # api[l] PROVE HoldsNothing(api'[l])
  BY DEF UnachievableHoldNothing, CalmInv
<1>1. HoldsNothing(api[l]) /\ api[l] \in LeaseObjects
  BY DEF CalmInv, UnachievableHoldNothing, TypeOK
<1>2. PICK obj : api' = [api EXCEPT ![l] = obj] /\ Changes(l, obj)
  BY ApiSteps DEF TypeOK
<1>3. api'[l] = obj
  BY <1>2 DEF TypeOK
<1>4. CASE Creates(l, obj) \/ Forgets(l, obj) \/ Drops(l, obj)
  <2>1. obj = NewLease \/ obj = NoLease
    BY <1>4, Zenon DEF Creates, Forgets, Drops
  <2> QED BY <1>3, <2>1, BlankObjects
<1>5. CASE Marks(l, obj) \/ Accepts(l, obj) \/ Finalizes(l, obj) \/ WritesStatus(l, obj)
  <2>1. api[l] \in LeaseObjects
    BY DEF TypeOK
  <2>2. CASE Marks(l, obj) \/ Finalizes(l, obj)
    BY <1>1, <1>3, <2>1, <2>2 DEF Marks, Finalizes, LeaseObjects, HoldsNothing
  <2>3. CASE Accepts(l, obj)
    BY <1>1, <1>3, <2>1, <2>3 DEF Accepts, LeaseObjects, HoldsNothing
  <2>4. CASE WritesStatus(l, obj)
    <3>1. obj.pools = api[l].pools /\ obj.nets = api[l].nets
      BY <2>1, <2>4 DEF WritesStatus, WithStatus, InHand, LeaseObjects
    <3> QED BY <1>1, <1>3, <3>1 DEF HoldsNothing
  <2> QED BY <1>5, <2>2, <2>3, <2>4
<1>6. CASE WritesRefs(l, obj)
  <2>1. l = cur /\ ~stale /\ obj = WithRefs /\ pc \in {"failRefs", "releaseRefs", "saveMissing", "saveRefs"}
    BY <1>6 DEF WritesRefs, InHand
  <2>2. pc \notin {"releaseRefs", "saveMissing", "saveRefs"}
    BY <2>1 DEF CalmInv, HandCovers, PoolSteps
  <2>3. pc = "failRefs" /\ pc \in MapSteps
    BY <2>1, <2>2 DEF MapSteps, Steps, IntakeSteps
  <2>4. HoldsNothing(Mem)
    BY <2>1, <2>3 DEF PersistInv, HandSound
  <2>5. obj.pools = Mem.pools /\ obj.nets = Mem.nets
    BY <1>1, <2>1 DEF WithRefs, LeaseObjects
  <2> QED BY <1>3, <2>4, <2>5 DEF HoldsNothing
<1>7. ~Collects(l, obj)
  BY <1>1 DEF Collects
<1> QED BY <1>2, <1>4, <1>5, <1>6, <1>7 DEF Changes

\* What a reconcile has in hand on its way to the map, and for whom it goes which way.
LEMMA HandCoversStep ==
    ASSUME Calm, TypeOK, PersistInv, CalmInv, [Next]_vars
    PROVE  HandCovers'
<1> DEFINE Others == \/ Environment
                     \/ \E p \in Pools : ReconcilePool(p)
                     \/ \E n \in Networks : ReconcileNetwork(n)
                     \/ UNCHANGED vars
<1>1. ~ReleasePools /\ ~ReleaseRefs /\ ~Restart
  BY NothingIsReleased DEF Restart, Calm
<1>2. Satisfiable <=> Achievable(cur)
  BY DEF CalmInv, InventoryComplete, Satisfiable, Achievable
<1>3. CASE Others
  <2>1. UNCHANGED <<leases, cur, pc, work>> /\ \A l \in Leases : Within(api'[l], api[l])
    BY <1>3, OthersKeepHand, OthersGiveNothing
  <2>2. pc \in IntakeSteps => cur \in Leases
    BY LeasesFinite DEF TypeOK, IntakeSteps
  <2>3. pc \in IntakeSteps => Within(api'[cur], work)
    BY <2>1, <2>2, WithinOrder DEF CalmInv, HandCovers
  <2> QED BY <2>1, <2>3 DEF CalmInv, HandCovers, Mem, Achievable
<1>4. CASE \E l \in Leases : GetLease(l)
  <2>1. PICK l \in Leases : GetLease(l)
    BY <1>4
  <2>2. cur' = l /\ work' = api[l] /\ leases' = leases /\ api' = api /\ pc' \in IntakeSteps
    BY <2>1, CacheIsCurrent DEF Calm, GetLease, NextIntake, inMaps, IntakeSteps
  <2>3. Within(api[l], api[l]) /\ Within(api[l], leases[l])
    BY WithinOrder DEF CalmInv, MapCovers
  <2>4. Within(api'[cur'], work') /\ Within(work', leases'[cur'])
    BY <2>2, <2>3
  <2>5. pc' \notin {"releaseRefs", "failRefs", "failStatus"} \cup PoolSteps
    BY <2>2 DEF IntakeSteps, PoolSteps
  <2> QED BY <2>4, <2>5 DEF HandCovers, Mem
<1>5. ASSUME NEW step, NEW obj, Intake(step, obj), step \in IntakeSteps,
             obj.pools = work.pools, obj.nets = work.nets
      PROVE  HandCovers'
  <2>1. pc \in IntakeSteps /\ cur \in Leases /\ api \in [Leases -> LeaseObjects]
    BY <1>5, LeasesFinite DEF Intake, IntakeSteps, TypeOK
  <2>2. /\ api' = [api EXCEPT ![cur] = obj] /\ work' = obj /\ leases' = leases /\ cur' = cur
        /\ pc' \in IntakeSteps
    BY <1>5 DEF Intake, Write, Goto, NextIntake, inMaps, IntakeSteps
  <2>3. Within(obj, obj) /\ Within(obj, Mem)
    BY <1>5, <2>1, WithinOrder DEF CalmInv, HandCovers
  <2>4. Within(api'[cur'], work') /\ Within(work', leases'[cur'])
    BY <2>1, <2>2, <2>3 DEF Mem
  <2>5. pc' \notin {"releaseRefs", "failRefs", "failStatus"} \cup PoolSteps
    BY <2>2 DEF IntakeSteps, PoolSteps
  <2> QED BY <2>4, <2>5 DEF HandCovers, Mem
<1>6. CASE InitStatus \/ AddFinalizer
  <2>1. Intake("initStatus", Initialised) \/ Intake("addFinalizer", Finalized)
    BY <1>6 DEF InitStatus, AddFinalizer
  <2>2. /\ Initialised.pools = work.pools /\ Initialised.nets = work.nets
        /\ Finalized.pools = work.pools /\ Finalized.nets = work.nets
    BY IntakeKeepsRefs DEF TypeOK
  <2> QED BY <1>5, <2>1, <2>2 DEF IntakeSteps
<1>7. ASSUME pc' = "idle" PROVE HandCovers'
  BY <1>7 DEF HandCovers, IntakeSteps, PoolSteps
<1>8. CASE \/ WriteError \/ LostAnswer \/ DropFinalizer \/ AdmitTerminal \/ FailStatus \/ Delay \/ NoPool
           \/ SaveMissing \/ SaveStatus
  BY <1>7, <1>8 DEF WriteError, LostAnswer, DropFinalizer, AdmitTerminal, FailStatus, Delay, NoPool, SaveMissing,
                    SaveStatus, EndReconcile
<1>9. ASSUME cur' = cur, pc' = "delay" \/ (pc' \in {"failRefs", "failStatus"} /\ ~Achievable(cur))
                         \/ (pc' \in PoolSteps /\ Achievable(cur))
      PROVE  HandCovers'
  <2>1. pc' \notin IntakeSteps \cup {"releaseRefs"}
    BY <1>9 DEF IntakeSteps, PoolSteps
  <2>2. pc' \in {"failRefs", "failStatus"} => ~Achievable(cur)
    BY <1>9 DEF PoolSteps
  <2>3. pc' \in PoolSteps => Achievable(cur)
    BY <1>9 DEF PoolSteps
  <2>4. Achievable(cur)' = Achievable(cur)
    BY <1>9 DEF Achievable
  <2> QED BY <2>1, <2>2, <2>3, <2>4 DEF HandCovers
<1>10. CASE failLeaseIfUnsatisfiable
  BY <1>2, <1>9, <1>10 DEF failLeaseIfUnsatisfiable, Admit, Goto
<1>11. CASE FailRefs
  BY <1>9, <1>11 DEF FailRefs, Goto, CalmInv, HandCovers
<1>12. CASE AdmitWaiting
  <2>1. Achievable(cur) /\ (pc' = "idle" \/ (cur' = cur /\ pc' \in {"delay", "pools"}))
    BY <1>2, <1>12 DEF AdmitWaiting, AdmitOrDelay, Admit, Goto, EndReconcile
  <2> QED BY <1>7, <1>9, <2>1 DEF PoolSteps
<1>13. CASE AssignPool \/ NoPoolFits \/ PoolsDone \/ AssignNetworks \/ NetworksDone \/ SaveRefs
  <2>1. pc \in PoolSteps /\ pc' \in PoolSteps /\ cur' = cur
    BY <1>13 DEF AssignPool, NoPoolFits, PoolsDone, AssignNetworks, NetworksDone, SaveRefs, Goto, inReconcile,
                 PoolSteps
  <2>2. Achievable(cur)
    BY <2>1 DEF CalmInv, HandCovers
  <2> QED BY <1>9, <2>1, <2>2
<1> HIDE DEF Others
<1>14. CASE Reconcile
  BY <1>1, <1>4, <1>6, <1>8, <1>10, <1>11, <1>12, <1>13, <1>14 DEF Reconcile
<1> QED BY <1>1, <1>3, <1>14 DEF Next, Others

----------------------------------------------------------------------------
(* The theorems.                                                           *)

\* The invariant holds of a system that starts without leases.
LEMMA CalmInit == Calm /\ Init => CalmInv
<1> SUFFICES ASSUME Calm, Init PROVE CalmInv
  OBVIOUS
<1>1. \A l \in Leases : api[l] = Uncreated /\ leases[l] = NoLease
  BY DEF Init
<1>2. /\ HoldsNothing(Uncreated) /\ NoLease.nets = {} /\ NoLease.pools = <<>>
  BY BlankObjects
<1>3. PoolsOf(NoLease) = {}
  BY <1>2 DEF PoolsOf
<1>4. MapCovers
  BY <1>1, <1>2, WithinOrder DEF MapCovers
<1>5. InventoryComplete /\ HandCovers
  BY DEF Init, InventoryComplete, HandCovers, IntakeSteps, PoolSteps
<1>6. UnachievableHoldNothing
  BY <1>1, <1>2 DEF UnachievableHoldNothing
<1>7. MapExclusive
  BY <1>1, <1>2 DEF MapExclusive
<1>8. MapFits
  BY <1>1, <1>3 DEF MapFits, UsersOf
<1> QED BY <1>4, <1>5, <1>6, <1>7, <1>8 DEF CalmInv

\* It is inductive.
LEMMA CalmHolds ==
    ASSUME Calm
    PROVE  Spec => []CalmInv
<1>1. TypeOK /\ PersistInv /\ CalmInv /\ [Next]_vars => CalmInv'
  BY MapStep, InventoryStep, UnachievableStep, HandCoversStep DEF CalmInv
<1>2. Init => CalmInv
  BY CalmInit
<1> QED BY <1>1, <1>2, TypeCorrect, PersistHolds, PTL DEF Spec

\* No two leases own a network that they may not share, whichever writes fail and
\* whenever leases come and go: what the map shows is exclusive, and it shows all that
\* the API server has.
THEOREM NoDoubleBookingHolds ==
    ASSUME Calm
    PROVE  Spec => []NoDoubleBooking
<1>1. CalmInv => NoDoubleBooking
  BY DEF CalmInv, MapCovers, MapExclusive, Within, NoDoubleBooking
<1> QED BY <1>1, CalmHolds, PTL

\* The leases that own a pool fit into it together, under the same circumstances.
THEOREM CapacityRespectedHolds ==
    ASSUME Calm
    PROVE  Spec => []CapacityRespected
<1>1. ASSUME CalmInv PROVE CapacityRespected
  <2> SUFFICES ASSUME NEW p \in Pools, {l \in Leases : p \in PoolsOf(api[l])} # {}
               PROVE  Fits(p, {l \in Leases : p \in PoolsOf(api[l])})
    BY DEF CapacityRespected, Fits
  <2> DEFINE users == {l \in Leases : p \in PoolsOf(api[l])}
  <2>1. users \in SUBSET UsersOf(p) /\ UsersOf(p) \in SUBSET Leases
    BY <1>1 DEF CalmInv, MapCovers, Within, UsersOf
  <2>2. Fits(p, UsersOf(p))
    BY <1>1, <2>1 DEF CalmInv, MapFits
  <2> HIDE DEF users
  <2>3. Fits(p, users)
    BY <2>1, <2>2, FitsCount
  <2> QED BY <2>3 DEF users
<1> QED BY <1>1, CalmHolds, PTL

----------------------------------------------------------------------------
(* Caps and cordons: the leases that are not being deleted.                *)

\* The circumstances of the last theorem: leases may cap their vCenters, pools are
\* cordoned and uncordoned, and leases are created and deleted, all at any point of a
\* reconcile; but the reads are current, the process does not die, a write fails only if
\* the object has changed, and the garbage collector has nothing to do.  A lease that
\* caps its vCenters has no siblings: they would take its networks after it lost them.
Undisturbed ==
    /\ Faults = {} /\ Removable = {}
    /\ \A l, m \in Leases : Siblings(l, m) => Uncapped(l)

\* A lease that gives its references back has lost them in the map, but owns them until
\* they are written.  What a lease holds is what it has in the map, except for that.
GivingBack(l) == Live(l) /\ l = cur /\ pc \in {"failRefs", "releaseRefs"}
Held(l) == IF GivingBack(l) THEN api[l] ELSE leases[l]

\* The entry of a lease that is being deleted still counts if the lease never released
\* anything; what the lease owns is in the entry unless it failed there.
Sure(l) == Live(l) \/ Uncapped(l)
Mapped(l) == Live(l) \/ (Uncapped(l) /\ leases[l].phase # "Failed")

\* Such leases own nothing that they do not hold, and what they hold excludes each other
\* and fits.
HeldCovers == \A l \in Leases : Mapped(l) => Within(api[l], Held(l))
HeldExclusive ==
    \A l, m \in Leases :
        l # m /\ Sure(l) /\ Sure(m) /\ Held(l).nets \cap Held(m).nets # {} => Siblings(l, m)
HeldUsers(p) == {l \in Leases : Sure(l) /\ p \in PoolsOf(Held(l))}
HeldFits == \A p \in Pools : HeldUsers(p) # {} => Fits(p, HeldUsers(p))

\* A reconcile on its way to the map will not take more into it; only a capped lease
\* releases anything, and a failed one gets nothing.
HandHolds ==
    /\ pc \in IntakeSteps \ {"dropFinalizer"} => Within(api[cur], work) /\ Within(work, Mem)
    /\ pc = "failRefs" => Mem.phase = "Failed"
    /\ pc = "releaseRefs" => ~Uncapped(cur)
    /\ pc \in PoolSteps => Mem.phase # "Failed"

\* Nothing but its deletion makes the object in hand an old version.
StaleIsDeleted == pc # "idle" /\ stale => api[cur].deleting \/ api[cur].phase = "Gone"

LiveInv == HeldCovers /\ HeldExclusive /\ HeldFits /\ HandHolds /\ StaleIsDeleted

\* A step leaves lease l with no more than it held, and with what it owns.
LosesOne(l) ==
    /\ Sure(l)' => (Sure(l) /\ Within(Held(l)', Held(l))) \/ HoldsNothing(Held(l)')
    /\ Mapped(l)' => Within(api'[l], Held(l)')
LiveLoses == \A l \in Leases : LosesOne(l)

\* A step that leaves every lease so disturbs nobody.
LEMMA LiveLosingIsSafe ==
    ASSUME LiveInv, LiveLoses
    PROVE  HeldCovers' /\ HeldExclusive' /\ HeldFits'
<1>1. HeldCovers'
  BY DEF HeldCovers, LiveLoses, LosesOne
<1>2. ASSUME NEW l \in Leases, Sure(l)'
      PROVE  (Sure(l) /\ Within(Held(l)', Held(l))) \/ HoldsNothing(Held(l)')
  BY <1>2 DEF LiveLoses, LosesOne
<1>3. HeldExclusive'
  <2> SUFFICES ASSUME NEW l \in Leases, NEW m \in Leases, l # m, Sure(l)', Sure(m)',
                      Held(l)'.nets \cap Held(m)'.nets # {}
               PROVE  Siblings(l, m)
    BY DEF HeldExclusive
  <2>1. ~HoldsNothing(Held(l)') /\ ~HoldsNothing(Held(m)')
    BY DEF HoldsNothing
  <2>2. /\ Sure(l) /\ Sure(m) /\ Held(l)'.nets \subseteq Held(l).nets /\ Held(m)'.nets \subseteq Held(m).nets
    BY <1>2, <2>1 DEF Within
  <2> QED BY <2>2 DEF LiveInv, HeldExclusive
<1>4. ASSUME NEW p \in Pools, HeldUsers(p)' # {} PROVE Fits(p, HeldUsers(p)')
  <2>1. HeldUsers(p)' \in SUBSET HeldUsers(p)
    <3> SUFFICES ASSUME NEW l \in Leases, Sure(l)', p \in PoolsOf(Held(l)') PROVE Sure(l) /\ p \in PoolsOf(Held(l))
      BY DEF HeldUsers, PoolsOf
    <3>1. ~HoldsNothing(Held(l)')
      BY DEF HoldsNothing, PoolsOf
    <3> QED BY <1>2, <3>1 DEF Within
  <2>2. HeldUsers(p) \in SUBSET Leases
    BY DEF HeldUsers
  <2>3. Fits(p, HeldUsers(p))
    BY <1>4, <2>1 DEF LiveInv, HeldFits
  <2> QED BY <2>1, <2>2, <2>3, FitsCount
<1> QED BY <1>1, <1>3, <1>4 DEF HeldFits, Fits

\* A step of a reconcile that leaves the other leases alone, or refreshes them.
Refreshed(l) == leases'[l] = leases[l] \/ (leases'[l] = api[l] /\ leases[l].phase # "Failed")
LEMMA LiveRewrites ==
    ASSUME TypeOK, LiveInv, NEW c \in Leases, c = cur, cur' = c \/ pc' = "idle",
           \A l \in Leases \ {c} : api'[l] = api[l] /\ Refreshed(l),
           LosesOne(c)
    PROVE  LiveLoses
<1> SUFFICES ASSUME NEW l \in Leases, l # c PROVE LosesOne(l)
  BY DEF LiveLoses
<1>1. Held(l) = leases[l] /\ Held(l)' = leases'[l]
  BY DEF Held, GivingBack
<1>2. (Live(l)' <=> Live(l)) /\ (Sure(l)' <=> Sure(l))
  BY DEF Live, Sure, Uncapped
<1>3. Mapped(l) => Within(api[l], leases[l])
  BY <1>1 DEF LiveInv, HeldCovers
<1>4. CASE leases'[l] = leases[l]
  <2>1. Mapped(l)' => Mapped(l)
    BY <1>2, <1>4 DEF Mapped, Uncapped
  <2> QED BY <1>1, <1>2, <1>3, <1>4, <2>1, WithinOrder DEF LosesOne
<1>5. CASE leases'[l] = api[l] /\ leases[l].phase # "Failed"
  <2>1. Sure(l) => Mapped(l)
    BY <1>5 DEF Sure, Mapped
  <2>2. Within(api'[l], leases'[l])
    BY <1>5, WithinOrder
  <2> QED BY <1>1, <1>2, <1>3, <1>5, <2>1, <2>2 DEF LosesOne
<1> QED BY <1>4, <1>5 DEF Refreshed

\* Such a step, when the lease gives nothing back before or after it.
LEMMA LiveInTheMap ==
    ASSUME NEW c \in Leases, ~GivingBack(c), ~GivingBack(c)',
           Sure(c)' => Sure(c), Within(leases'[c], leases[c]),
           Mapped(c)' => Within(api'[c], leases'[c])
    PROVE  LosesOne(c)
BY DEF LosesOne, Held

\* An object that was accepted and is an old version is being deleted.
LEMMA OldIsDeleted ==
    ASSUME TypeOK, PersistInv, LiveInv, stale, pc = "admit" \/ pc \in MapSteps
    PROVE  api[cur].deleting
<1>1. cur \in Leases /\ pc # "idle"
  BY LeasesFinite DEF TypeOK, MapSteps
<1>2. api[cur].finalizer
  BY <1>1 DEF PersistInv, IntakeSound, IntakeSteps, HandSound
<1>3. api[cur].phase # "Gone"
  BY <1>1, <1>2 DEF PersistInv, ObjectsSound, Sound, Exists, Phases, Terminal
<1> QED BY <1>1, <1>3 DEF LiveInv, StaleIsDeleted

\* Users and the other controllers bring no lease back, and take a lease that gives
\* something back away from it.
LEMMA OthersLose ==
    ASSUME TypeOK, PersistInv, LiveInv,
           \/ Environment
           \/ \E p \in Pools : ReconcilePool(p)
           \/ \E n \in Networks : ReconcileNetwork(n)
           \/ UNCHANGED vars
    PROVE  LiveLoses
<1>1. UNCHANGED <<leases, cur, pc>> /\ \A l \in Leases : Within(api'[l], api[l])
  BY OthersKeepHand, OthersGiveNothing
<1>2. ASSUME NEW l \in Leases, Live(l)' PROVE Live(l)
  <2>1. CASE api'[l] = api[l]
    BY <1>2, <2>1 DEF Live
  <2>2. CASE api'[l] # api[l]
    <3>1. CreateLease(l) \/ DeleteLease(l) \/ CollectGarbage(l)
      <4>1. api' # api
        BY <2>2
      <4>2. PICK k \in Leases : CreateLease(k) \/ DeleteLease(k) \/ CollectGarbage(k)
        BY <4>1 DEF Environment, Sync, SetNoSchedule, RemovePool, RemoveNetwork, ReconcilePool, ReconcileNetwork, vars
      <4>3. \E obj : api' = [api EXCEPT ![k] = obj]
        BY <4>2 DEF CreateLease, DeleteLease, CollectGarbage, Write
      <4>4. k = l
        BY <2>2, <4>3 DEF TypeOK
      <4> QED BY <4>2, <4>4
    <3>2. CASE CreateLease(l)
      <4>1. api[l].phase = "Uncreated"
        BY <3>2 DEF CreateLease
      <4>2. ~Exists(api[l])
        BY <4>1 DEF Exists, Phases, Terminal
      <4>3. api[l] = Uncreated \/ api[l] = NoLease
        BY <4>2 DEF PersistInv, ObjectsSound, Sound
      <4>4. Uncreated.deleting = FALSE /\ NoLease.deleting = FALSE
        BY DEF Uncreated, NoLease, NewLease
      <4> QED BY <4>3, <4>4 DEF Live
    <3> QED BY <3>1, <3>2 DEF DeleteLease, CollectGarbage, Live
  <2> QED BY <2>1, <2>2
<1> SUFFICES ASSUME NEW l \in Leases PROVE LosesOne(l)
  BY DEF LiveLoses
<1>3. /\ Live(l)' => Live(l)
      /\ Sure(l)' => Sure(l)
      /\ Mapped(l)' => Mapped(l)
  BY <1>1, <1>2 DEF Sure, Mapped, Uncapped
<1>4. Within(api'[l], api[l]) /\ (Mapped(l) => Within(api[l], Held(l)))
  BY <1>1 DEF LiveInv, HeldCovers
<1>5. CASE GivingBack(l) /\ Live(l)'
  <2>1. Held(l) = api[l] /\ Held(l)' = api'[l]
    BY <1>1, <1>5 DEF Held, GivingBack
  <2> QED BY <1>3, <1>4, <2>1, WithinOrder DEF LosesOne
<1>6. CASE GivingBack(l) /\ ~Live(l)'
  <2>1. pc \in MapSteps /\ l = cur /\ Live(l) /\ pc \in {"failRefs", "releaseRefs"}
    BY <1>6 DEF GivingBack, MapSteps, Steps, IntakeSteps
  <2>2. ~stale
    BY <2>1, OldIsDeleted DEF Live
  <2>3. HoldsNothing(leases[l])
    BY <2>1, <2>2 DEF PersistInv, HandSound, Mem
  <2>4. Held(l)' = leases[l]
    BY <1>1, <1>6 DEF Held, GivingBack
  <2>5. leases[l].phase = "Failed" \/ ~Uncapped(l)
    BY <2>1 DEF LiveInv, HandHolds, Mem
  <2>6. ~Mapped(l)'
    BY <1>1, <1>6, <2>5 DEF Mapped, Uncapped
  <2> QED BY <2>3, <2>4, <2>6 DEF LosesOne
<1>7. CASE ~GivingBack(l)
  <2>1. ~GivingBack(l)'
    BY <1>1, <1>3, <1>7 DEF GivingBack
  <2>2. Held(l) = leases[l] /\ Held(l)' = leases[l]
    BY <1>1, <1>7, <2>1 DEF Held
  <2> QED BY <1>3, <1>4, <2>2, WithinOrder DEF LosesOne
<1> QED BY <1>5, <1>6, <1>7

\* Before the leases map: nothing is written but what is read.
LEMMA IntakeLoses ==
    ASSUME Undisturbed, TypeOK, PersistInv, LiveInv,
           (\E l \in Leases : GetLease(l)) \/ InitStatus \/ AddFinalizer \/ DropFinalizer
    PROVE  LiveLoses
<1>1. CASE \E l \in Leases : GetLease(l)
  <2>1. /\ pc = "idle" /\ pc' \in IntakeSteps /\ api' = api /\ leases' = leases
    BY <1>1 DEF GetLease, NextIntake, inMaps, IntakeSteps
  <2> SUFFICES ASSUME NEW l \in Leases PROVE LosesOne(l)
    BY DEF LiveLoses
  <2>2. ~GivingBack(l) /\ ~GivingBack(l)'
    BY <2>1 DEF GivingBack, IntakeSteps
  <2>3. (Sure(l)' => Sure(l)) /\ (Mapped(l)' => Mapped(l))
    BY <2>1 DEF Live, Sure, Mapped, Uncapped
  <2>4. Mapped(l) => Within(api[l], leases[l])
    BY <2>2 DEF LiveInv, HeldCovers, Held
  <2> QED BY <2>1, <2>2, <2>3, <2>4, WithinOrder, LiveInTheMap
<1>2. CASE InitStatus \/ AddFinalizer
  <2>1. /\ pc \in IntakeSteps /\ pc' \in IntakeSteps /\ cur' = cur /\ leases' = leases /\ ~stale
        /\ api' = [api EXCEPT ![cur] = Initialised] \/ api' = [api EXCEPT ![cur] = Finalized]
    BY <1>2 DEF InitStatus, AddFinalizer, Intake, Write, WriteSucceeds, Goto, NextIntake, IntakeSteps, inMaps
  <2>2. PICK c \in Leases : c = cur
    BY <2>1, LeasesFinite DEF TypeOK, IntakeSteps
  <2>3. work = api[c]
    BY <2>1, <2>2 DEF PersistInv, IntakeSound
  <2>4. \A obj \in {Initialised, Finalized} :
           obj.pools = work.pools /\ obj.nets = work.nets /\ obj.deleting = work.deleting
    BY IntakeKeepsRefs DEF TypeOK
  <2>5. /\ api'[c].pools = api[c].pools /\ api'[c].nets = api[c].nets /\ api'[c].deleting = api[c].deleting
        /\ \A l \in Leases \ {c} : api'[l] = api[l]
    BY <2>1, <2>2, <2>3, <2>4 DEF TypeOK
  <2>6. ~GivingBack(c) /\ ~GivingBack(c)'
    BY <2>1 DEF GivingBack, IntakeSteps
  <2>7. (Sure(c)' => Sure(c)) /\ (Mapped(c)' => Mapped(c))
    BY <2>1, <2>5 DEF Live, Sure, Mapped, Uncapped
  <2>8. Mapped(c) => Within(api[c], leases[c])
    BY <2>6 DEF LiveInv, HeldCovers, Held
  <2>9. LosesOne(c)
    BY <2>1, <2>5, <2>6, <2>7, <2>8, WithinOrder, LiveInTheMap
  <2> QED BY <2>1, <2>2, <2>5, <2>9, LiveRewrites DEF Refreshed
<1>3. CASE DropFinalizer
  <2> DEFINE map == [leases EXCEPT ![cur] = NoLease]
  <2>1. /\ pc = "dropFinalizer" /\ pc' = "idle" /\ WriteAndTriggerLeaseUpdates(cur, NoLease, map)
    BY <1>3 DEF DropFinalizer, EndReconcile
  <2>2. PICK c \in Leases : c = cur
    BY <2>1, LeasesFinite DEF TypeOK
  <2>3. map[c] = NoLease /\ \A l \in Leases \ {c} : map[l] = leases[l]
    BY <2>2 DEF TypeOK
  <2> HIDE DEF map
  <2>4. /\ api' = [api EXCEPT ![c] = NoLease]
        /\ \A m \in Leases : leases'[m] = map[m] \/ (leases'[m] = api'[m] /\ map[m].phase # "Failed")
    BY <2>1, <2>2, TriggerGives DEF Undisturbed
  <2>5. api'[c] = NoLease /\ \A l \in Leases \ {c} : api'[l] = api[l]
    BY <2>4 DEF TypeOK
  <2>6. leases'[c] = NoLease /\ \A l \in Leases \ {c} : Refreshed(l)
    BY <2>3, <2>4, <2>5 DEF Refreshed
  <2>7. Held(c)' = NoLease /\ HoldsNothing(NoLease)
    BY <2>1, <2>6, BlankObjects DEF Held, GivingBack
  <2>8. LosesOne(c)
    BY <2>5, <2>7, WithinOrder DEF LosesOne
  <2> QED BY <2>1, <2>2, <2>5, <2>6, <2>8, LiveRewrites
<1> QED BY <1>1, <1>2, <1>3

\* Entering the map: the object read has no more than the entry it replaces.
LEMMA AdmitLoses ==
    ASSUME TypeOK, PersistInv, LiveInv, AdmitTerminal \/ AdmitWaiting
    PROVE  LiveLoses
<1> DEFINE wait == [work EXCEPT !.conds = Set(@, {}, {"Fulfilled"})]
<1>1. /\ pc = "admit" /\ api' = api /\ (SetMem(work) \/ SetMem(wait))
      /\ pc' = "idle" \/ (cur' = cur /\ pc' \in {"delay", "pools"})
  BY DEF AdmitTerminal, AdmitWaiting, AdmitOrDelay, Admit, Goto, EndReconcile, InMemory
<1>2. PICK c \in Leases : c = cur
  BY <1>1, LeasesFinite DEF TypeOK
<1>3. wait.pools = work.pools /\ wait.nets = work.nets
  BY DEF TypeOK, LeaseObjects
<1> HIDE DEF wait
<1>4. /\ leases'[c].pools = work.pools /\ leases'[c].nets = work.nets
      /\ \A l \in Leases \ {c} : leases'[l] = leases[l]
  BY <1>1, <1>2, <1>3 DEF SetMem, TypeOK
<1>5. ~GivingBack(c) /\ ~GivingBack(c)'
  BY <1>1 DEF GivingBack
<1>6. Sure(c)' => Sure(c)
  BY <1>1 DEF Live, Sure, Uncapped
<1>7. Within(api[c], work) /\ Within(work, leases[c])
  BY <1>1, <1>2 DEF LiveInv, HandHolds, IntakeSteps, Mem
<1>8. Within(leases'[c], leases[c]) /\ Within(api'[c], leases'[c])
  BY <1>1, <1>4, <1>7, WithinOrder
<1>9. LosesOne(c)
  BY <1>5, <1>6, <1>8, LiveInTheMap
<1> QED BY <1>1, <1>2, <1>4, <1>9, LiveRewrites DEF Refreshed

\* The references leave the map, where they were, and stay in the API server.
LEMMA GivingBackLoses ==
    ASSUME TypeOK, PersistInv, LiveInv, failLeaseIfUnsatisfiable \/ ReleasePools
    PROVE  LiveLoses
<1> DEFINE failed == [NoRefs(work) EXCEPT !.phase = "Failed", !.conds = Set(@, {}, ConditionTypes)]
<1>1. /\ pc \in {"admit", "pools"} /\ pc' \in {"failRefs", "releaseRefs"} /\ cur' = cur /\ api' = api
      /\ SetMem(failed) \/ (SetMem(NoRefs(Mem)) /\ ~Uncapped(cur))
  BY OnlyCappedRelease DEF failLeaseIfUnsatisfiable, ReleasePools, Admit, Goto, InMemory
<1>2. PICK c \in Leases : c = cur
  BY <1>1, LeasesFinite DEF TypeOK
<1>3. Mem \in LeaseObjects /\ NoRefs(work) \in LeaseObjects /\ HoldsNothing(NoRefs(work))
  BY <1>2, ObjectTypes DEF TypeOK, Mem, NoRefs, HoldsNothing, LeaseObjects
<1>4. HoldsNothing(failed) /\ failed.phase = "Failed" /\ HoldsNothing(NoRefs(Mem))
  BY <1>3 DEF NoRefs, HoldsNothing, LeaseObjects
<1> HIDE DEF failed
<1>5. /\ HoldsNothing(leases'[c])
      /\ leases'[c].phase = "Failed" \/ ~Uncapped(c)
      /\ \A l \in Leases \ {c} : leases'[l] = leases[l]
  BY <1>1, <1>2, <1>4 DEF SetMem, TypeOK
<1>6. LosesOne(c)
  <2>1. CASE Live(c)
    <3>1. Held(c) = leases[c] /\ Held(c)' = api[c]
      BY <1>1, <1>2, <2>1 DEF Held, GivingBack, Live
    <3>2. Within(api[c], leases[c])
      BY <2>1, <3>1 DEF LiveInv, HeldCovers, Mapped
    <3> QED BY <1>1, <2>1, <3>1, <3>2, WithinOrder DEF LosesOne, Sure
  <2>2. CASE ~Live(c)
    <3>1. ~Live(c)'
      BY <1>1, <2>2 DEF Live
    <3>2. Held(c)' = leases'[c]
      BY <3>1 DEF Held, GivingBack
    <3>3. ~Mapped(c)'
      BY <1>5, <3>1 DEF Mapped, Uncapped
    <3> QED BY <1>5, <3>2, <3>3 DEF LosesOne
  <2> QED BY <2>1, <2>2
<1> QED BY <1>1, <1>2, <1>5, <1>6, LiveRewrites DEF Refreshed

\* Then they leave the API server.
LEMMA GivenBackLoses ==
    ASSUME TypeOK, PersistInv, LiveInv, FailRefs \/ ReleaseRefs
    PROVE  LiveLoses
<1>1. /\ pc \in {"failRefs", "releaseRefs"} /\ ~stale /\ api' = [api EXCEPT ![cur] = WithRefs]
      /\ leases' = leases \/ SetMem(Decoded(Mem, WithRefs))
      /\ (cur' = cur /\ pc' = "failStatus") \/ pc' = "idle"
  BY DEF FailRefs, ReleaseRefs, WriteSucceeds, Write, Goto, EndReconcile, inMaps
<1>2. PICK c \in Leases : c = cur
  BY <1>1, LeasesFinite DEF TypeOK
<1>3. pc \in MapSteps
  BY <1>1 DEF MapSteps, Steps, IntakeSteps
<1>4. HoldsNothing(Mem)
  BY <1>1, <1>3 DEF PersistInv, HandSound
<1>5. HoldsNothing(WithRefs) /\ HoldsNothing(Decoded(Mem, WithRefs))
  BY <1>2, <1>4, WrittenRefs DEF HoldsNothing
<1>6. api'[c] = WithRefs /\ \A l \in Leases \ {c} : api'[l] = api[l] /\ leases'[l] = leases[l]
  BY <1>1, <1>2 DEF SetMem, TypeOK
<1>7. leases'[c] = Mem \/ leases'[c] = Decoded(Mem, WithRefs)
  BY <1>1, <1>2 DEF SetMem, TypeOK, Mem
<1>8. Held(c)' = leases'[c]
  BY <1>1 DEF Held, GivingBack
<1>9. LosesOne(c)
  BY <1>4, <1>5, <1>6, <1>7, <1>8, WithinOrder DEF LosesOne
<1> QED BY <1>1, <1>2, <1>6, <1>9, LiveRewrites DEF Refreshed

\* The other writes, which are accepted for a lease that is not being deleted, with what
\* their answers and the wake-ups put into the map.
LEMMA WritesLose ==
    ASSUME Undisturbed, TypeOK, PersistInv, LiveInv,
           FailStatus \/ Delay \/ NoPool \/ SaveMissing \/ SaveRefs \/ SaveStatus
    PROVE  LiveLoses
<1>1. /\ pc \in {"failStatus", "delay", "noPool", "saveMissing", "saveRefs", "saveStatus"} /\ ~stale
      /\ (cur' = cur /\ pc' = "saveStatus") \/ pc' = "idle"
  BY DEF FailStatus, Delay, NoPool, SaveMissing, SaveRefs, SaveStatus, Goto, EndReconcile, WriteSucceeds
<1>2. PICK c \in Leases : c = cur
  BY <1>1, LeasesFinite DEF TypeOK
<1>3. /\ Mem = leases[c] /\ cur \in Leases
      /\ ~GivingBack(c) /\ ~GivingBack(c)'
  BY <1>1, <1>2 DEF Mem, GivingBack
<1>4. Live(c) /\ Within(api[c], Mem)
  <2>1. pc \in MapSteps
    BY <1>1 DEF MapSteps, Steps, IntakeSteps
  <2>2. Live(c)
    BY <1>1, <1>2, <2>1 DEF PersistInv, HandSound, Live
  <2> QED BY <1>3, <2>2 DEF LiveInv, HeldCovers, Mapped, Held
<1>5. ASSUME NEW obj \in {WithRefs, WithStatus}, NEW new \in {Mem, obj, Decoded(Mem, obj)},
             api'[c] = obj, leases'[c] = new,
             \A l \in Leases \ {c} : api'[l] = api[l] /\ Refreshed(l)
      PROVE  LiveLoses
  <2>1. Within(obj, Mem) /\ Within(obj, Decoded(Mem, obj)) /\ Within(Decoded(Mem, obj), Mem)
    BY <1>2, <1>3, <1>4, <1>5, WrittenRefs, WithinOrder
  <2>2. Within(Mem, Mem) /\ Within(obj, obj)
    BY WithinOrder
  <2>3. Within(leases'[c], leases[c]) /\ Within(api'[c], leases'[c])
    BY <1>3, <1>5, <2>1, <2>2
  <2>4. LosesOne(c)
    BY <1>3, <1>4, <2>3, LiveInTheMap DEF Sure
  <2> QED BY <1>1, <1>2, <1>5, <2>4, LiveRewrites
<1>6. CASE NoPool \/ SaveMissing \/ SaveRefs
  <2>1. PICK obj \in {WithRefs, WithStatus} :
          api' = [api EXCEPT ![cur] = obj] /\ (leases' = leases \/ SetMem(Decoded(Mem, obj)))
    BY <1>6 DEF NoPool, SaveMissing, SaveRefs, Write, inMaps
  <2>2. api'[c] = obj /\ \A l \in Leases \ {c} : api'[l] = api[l] /\ leases'[l] = leases[l]
    BY <1>2, <2>1 DEF SetMem, TypeOK
  <2>3. leases'[c] = Mem \/ leases'[c] = Decoded(Mem, obj)
    BY <1>2, <1>3, <2>1 DEF SetMem, TypeOK
  <2> QED BY <1>5, <2>2, <2>3 DEF Refreshed
<1>7. CASE FailStatus \/ Delay \/ SaveStatus
  <2>1. /\ api' = [api EXCEPT ![c] = WithStatus]
        /\ \A m \in Leases : leases'[m] = leases[m] \/ (leases'[m] = api'[m] /\ leases[m].phase # "Failed")
    <3>1. CASE WriteAndTriggerLeaseUpdates(cur, WithStatus, leases)
      BY <1>2, <3>1, TriggerGives DEF Undisturbed
    <3>2. CASE Write(cur, WithStatus, {}) /\ leases' = leases
      BY <1>2, <3>2 DEF Write
    <3> QED BY <1>7, <3>1, <3>2 DEF FailStatus, Delay, SaveStatus
  <2>2. api'[c] = WithStatus /\ \A l \in Leases \ {c} : api'[l] = api[l]
    BY <2>1 DEF TypeOK
  <2>3. \A l \in Leases \ {c} : Refreshed(l)
    BY <2>1, <2>2 DEF Refreshed
  <2>4. leases'[c] = WithStatus \/ leases'[c] = Mem
    BY <1>3, <2>1, <2>2
  <2> QED BY <1>5, <2>2, <2>3, <2>4
<1> QED BY <1>6, <1>7

\* No answer is lost.
LEMMA NothingIsLost ==
    ASSUME Undisturbed
    PROVE  ~LostAnswer
BY DEF LostAnswer, Undisturbed

\* A write that fails is one of a lease that is being deleted.
LEMMA ErrorsLose ==
    ASSUME Undisturbed, TypeOK, PersistInv, LiveInv, WriteError
    PROVE  LiveLoses
<1>1. /\ pc # "idle" /\ stale /\ pc' = "idle" /\ api' = api /\ leases' = leases
  BY DEF WriteError, WriteSteps, WriteFails, EndReconcile, Undisturbed, inMaps
<1>2. PICK c \in Leases : c = cur
  BY <1>1, LeasesFinite DEF TypeOK
<1>3. ~GivingBack(c) /\ ~GivingBack(c)'
  <2>1. ASSUME GivingBack(c) PROVE FALSE
    <3>1. pc \in MapSteps /\ Live(c)
      BY <2>1 DEF GivingBack, MapSteps, Steps, IntakeSteps
    <3> QED BY <1>1, <1>2, <3>1, OldIsDeleted DEF Live
  <2> QED BY <1>1, <2>1 DEF GivingBack
<1>4. (Sure(c)' => Sure(c)) /\ (Mapped(c)' => Mapped(c))
  BY <1>1 DEF Live, Sure, Mapped, Uncapped
<1>5. Mapped(c) => Within(api[c], leases[c])
  BY <1>3 DEF LiveInv, HeldCovers, Held
<1>6. LosesOne(c)
  BY <1>1, <1>3, <1>4, <1>5, WithinOrder, LiveInTheMap
<1> QED BY <1>1, <1>2, <1>6, LiveRewrites DEF Refreshed

\* The loops, where they give nothing.
LEMMA LoopsLose ==
    ASSUME TypeOK, PersistInv, LiveInv, NoPoolFits \/ PoolsDone \/ NetworksDone
    PROVE  LiveLoses
<1>1. /\ pc \in {"pools", "networks"} /\ pc' \in {"noPool", "networks", "saveMissing", "saveRefs"}
      /\ cur' = cur /\ api' = api
  BY DEF NoPoolFits, PoolsDone, NetworksDone, Goto, InMemory
<1>2. PICK c \in Leases : c = cur
  BY <1>1, LeasesFinite DEF TypeOK
<1>3. Mem = leases[c] /\ Mem \in LeaseObjects /\ ~GivingBack(c) /\ ~GivingBack(c)'
  BY <1>1, <1>2 DEF Mem, GivingBack, TypeOK
<1>4. /\ leases'[c].pools = leases[c].pools /\ leases'[c].nets = leases[c].nets
      /\ \A l \in Leases \ {c} : leases'[l] = leases[l]
  <2>1. CASE NoPoolFits
    BY <2>1 DEF NoPoolFits
  <2>2. ASSUME NEW obj, SetMem(obj), obj.pools = Mem.pools, obj.nets = Mem.nets
        PROVE  /\ leases'[c].pools = leases[c].pools /\ leases'[c].nets = leases[c].nets
               /\ \A l \in Leases \ {c} : leases'[l] = leases[l]
    BY <1>2, <1>3, <2>2 DEF SetMem, TypeOK
  <2>3. CASE PoolsDone
    <3> DEFINE obj == [Mem EXCEPT !.name = PoolSpec[Mem.pools[1]].name]
    <3>1. SetMem(obj)
      BY <2>3 DEF PoolsDone
    <3>2. obj.pools = Mem.pools /\ obj.nets = Mem.nets
      BY <1>3 DEF LeaseObjects
    <3> HIDE DEF obj
    <3> QED BY <2>2, <3>1, <3>2
  <2>4. CASE NetworksDone
    <3> DEFINE done == ~Incomplete /\ AllPoolsHaveNetworks(Assigned, Mem.nets, Asked.networks, loaded)
               obj  == WithPhase(Mem, IF done THEN "Fulfilled" ELSE "Partial")
    <3>1. SetMem(IF Missing THEN Mem ELSE obj)
      BY <2>4 DEF NetworksDone
    <3>2. obj.pools = Mem.pools /\ obj.nets = Mem.nets
      BY <1>3 DEF WithPhase, LeaseObjects
    <3> HIDE DEF obj
    <3> QED BY <2>2, <3>1, <3>2
  <2> QED BY <2>1, <2>3, <2>4
<1>5. (Sure(c)' => Sure(c)) /\ (Mapped(c)' => Mapped(c))
  <2>1. leases[c].phase # "Failed"
    BY <1>1, <1>3 DEF LiveInv, HandHolds, PoolSteps
  <2> QED BY <1>1, <2>1 DEF Live, Sure, Mapped, Uncapped
<1>6. Mapped(c) => Within(api[c], leases[c])
  BY <1>3 DEF LiveInv, HeldCovers, Held
<1>7. Within(leases'[c], leases[c]) /\ Within(leases[c], leases'[c])
  BY <1>4, WithinOrder
<1>8. LosesOne(c)
  BY <1>1, <1>3, <1>5, <1>6, <1>7, WithinOrder, LiveInTheMap
<1> QED BY <1>1, <1>2, <1>4, <1>8, LiveRewrites DEF Refreshed

\* The pool loop gives a pool with room for the lease next to all of the map.
LEMMA HeldPoolsAreShared ==
    ASSUME TypeOK, PersistInv, LiveInv, AssignPool
    PROVE  HeldCovers' /\ HeldExclusive' /\ HeldFits'
<1>1. /\ cur \in Leases /\ Mem \in LeaseObjects /\ leases \in [Leases -> LeaseObjects]
      /\ api' = api /\ pc = "pools" /\ pc' = pc
  BY LeasesFinite DEF TypeOK, AssignPool, Mem, InMemory, inReconcile
<1>2. PICK excluded \in Exclusions : \E p \in Candidates(excluded) : SetMem([Mem EXCEPT !.pools = Append(@, p)])
  BY DEF AssignPool
<1>3. PICK p \in Candidates(excluded) : SetMem([Mem EXCEPT !.pools = Append(@, p)])
  BY <1>2
<1>4. p \in Pools /\ p \notin PoolsOf(Mem) /\ FreeNow[p].vcpus >= Asked.vcpus /\ FreeNow[p].memory >= Asked.memory
  BY <1>3, PickIsKnown DEF TypeOK, Assigned, Candidates, GetPoolWithStrategy, GetFittingPools
<1>5. /\ leases'[cur].pools = Append(Mem.pools, p) /\ leases'[cur].nets = Mem.nets
      /\ leases'[cur].phase = Mem.phase /\ Mem.pools \in Seq(Pools)
  BY <1>1, <1>3 DEF SetMem, LeaseObjects
<1>6. PoolsOf(leases'[cur]) = PoolsOf(Mem) \cup {p}
  BY <1>4, <1>5, AppendMembers DEF PoolsOf
<1>7. \A l \in Leases \ {cur} : leases'[l] = leases[l]
  BY <1>1, <1>3 DEF SetMem
<1>8. \A l \in Leases : /\ Held(l) = leases[l] /\ Held(l)' = leases'[l]
                        /\ leases'[l].nets = leases[l].nets /\ leases'[l].phase = leases[l].phase
                        /\ PoolsOf(leases[l]) \subseteq PoolsOf(leases'[l])
  BY <1>1, <1>5, <1>6, <1>7 DEF Held, GivingBack, Mem
<1>9. \A l \in Leases : (Sure(l)' <=> Sure(l)) /\ (Mapped(l)' <=> Mapped(l))
  BY <1>1, <1>8 DEF Sure, Mapped, Live, Uncapped
<1>10. HeldCovers'
  BY <1>1, <1>8, <1>9 DEF LiveInv, HeldCovers, Within
<1>11. HeldExclusive'
  BY <1>8, <1>9 DEF LiveInv, HeldExclusive
<1>12. Fits(p, UsersOf(p) \cup {cur})
  <2>1. cur \in Leases \ UsersOf(p) /\ UsersOf(p) \in SUBSET Leases
    BY <1>1, <1>4 DEF UsersOf, Mem
  <2>2. FreeNow[p] = FreeResources(p, Total(UsersOf(p)))
    BY <1>4 DEF FreeNow, UsersOf
  <2> QED BY <1>4, <2>1, <2>2, FitsCount DEF Asked
<1>13. ASSUME NEW q \in Pools, HeldUsers(q)' # {} PROVE Fits(q, HeldUsers(q)')
  <2>1. CASE q = p
    <3>1. HeldUsers(p)' \in SUBSET (UsersOf(p) \cup {cur}) /\ UsersOf(p) \cup {cur} \in SUBSET Leases
      BY <1>1, <1>7, <1>8 DEF HeldUsers, UsersOf
    <3> QED BY <1>12, <2>1, <3>1, FitsCount
  <2>2. CASE q # p
    <3>1. HeldUsers(q)' = HeldUsers(q)
      BY <1>1, <1>6, <1>7, <1>8, <1>9, <2>2 DEF HeldUsers, Mem
    <3> QED BY <1>13, <3>1 DEF LiveInv, HeldFits
  <2> QED BY <2>1, <2>2
<1> QED BY <1>10, <1>11, <1>13 DEF HeldFits, Fits

\* The network loop gives networks that are free, or that a sibling has in the map: a
\* sibling is not capped, so that what it has there only siblings hold.
LEMMA HeldNetworksAreExclusive ==
    ASSUME Undisturbed, TypeOK, PersistInv, LiveInv, AssignNetworks
    PROVE  HeldCovers' /\ HeldExclusive' /\ HeldFits'
<1> DEFINE q     == Mem.pools[poolIdx]
           first == poolIdx = 1
<1>1. /\ cur \in Leases /\ Mem \in LeaseObjects /\ leases \in [Leases -> LeaseObjects]
      /\ api' = api /\ pc = "networks" /\ pc' = pc
  BY LeasesFinite DEF TypeOK, AssignNetworks, Mem, InMemory
<1>2. PICK avail \in ConsideredNetworks(cur, q, first) :
        \E S \in NetworkPicks(first, q, Mem.nets, avail, Asked.networks, loaded) :
            SetMem([Mem EXCEPT !.nets = @ \cup S])
  BY DEF AssignNetworks
<1>3. PICK S \in NetworkPicks(first, q, Mem.nets, avail, Asked.networks, loaded) :
        SetMem([Mem EXCEPT !.nets = @ \cup S])
  BY <1>2
<1>4. \A n \in S : n \notin OwnedNetworks \/ \E m \in Leases : Siblings(cur, m) /\ n \in leases[m].nets
  BY <1>1, <1>2, <1>3, PicksAreConsidered, ConsideredAreFree
<1>5. leases'[cur].pools = Mem.pools /\ leases'[cur].nets = Mem.nets \cup S /\ leases'[cur].phase = Mem.phase
  BY <1>1, <1>3 DEF SetMem, LeaseObjects
<1>6. \A l \in Leases \ {cur} : leases'[l] = leases[l]
  BY <1>1, <1>3 DEF SetMem
<1> HIDE DEF q, first
<1>7. \A l \in Leases : /\ Held(l) = leases[l] /\ Held(l)' = leases'[l]
                        /\ PoolsOf(leases'[l]) = PoolsOf(leases[l]) /\ leases'[l].phase = leases[l].phase
                        /\ leases[l].nets \subseteq leases'[l].nets
  BY <1>1, <1>5, <1>6 DEF Held, GivingBack, PoolsOf, Mem
<1>8. \A l \in Leases : (Sure(l)' <=> Sure(l)) /\ (Mapped(l)' <=> Mapped(l))
  BY <1>1, <1>7 DEF Sure, Mapped, Live, Uncapped
<1>9. HeldCovers'
  BY <1>1, <1>7, <1>8 DEF LiveInv, HeldCovers, Within
<1>10. HeldFits'
  <2>1. \A p \in Pools : HeldUsers(p)' = HeldUsers(p)
    BY <1>7, <1>8 DEF HeldUsers
  <2> QED BY <2>1 DEF LiveInv, HeldFits, Fits
<1>11. ASSUME NEW k \in Leases \ {cur}, Sure(k), Sure(cur), NEW n \in leases[k].nets, n \in Mem.nets \cup S
       PROVE  Siblings(cur, k)
  <2>1. CASE n \in Mem.nets
    BY <1>1, <1>7, <1>11, <2>1 DEF LiveInv, HeldExclusive, Mem
  <2>2. CASE n \in S
    <3>1. n \in OwnedNetworks
      BY <1>11 DEF OwnedNetworks
    <3>2. PICK m \in Leases : Siblings(cur, m) /\ n \in leases[m].nets
      BY <1>4, <2>2, <3>1
    <3>3. CASE m = k
      BY <3>2, <3>3
    <3>4. CASE m # k
      <4>1. Siblings(m, cur)
        BY <3>2 DEF Siblings
      <4>2. Sure(m)
        BY <1>1, <4>1 DEF Undisturbed, Sure
      <4>3. Siblings(k, m)
        BY <1>7, <1>11, <3>2, <3>4, <4>2 DEF LiveInv, HeldExclusive
      <4> QED BY <1>11, <3>2, <4>3 DEF Siblings
    <3> QED BY <3>3, <3>4
  <2> QED BY <1>11, <2>1, <2>2
<1>12. \A l, m : Siblings(l, m) => Siblings(m, l)
  BY DEF Siblings
<1>13. HeldExclusive'
  <2> SUFFICES ASSUME NEW l \in Leases, NEW m \in Leases, l # m, Sure(l), Sure(m),
                      leases'[l].nets \cap leases'[m].nets # {}
               PROVE  Siblings(l, m)
    BY <1>7, <1>8 DEF HeldExclusive
  <2>1. CASE l = cur
    BY <1>5, <1>6, <1>11, <2>1
  <2>2. CASE m = cur
    BY <1>5, <1>6, <1>11, <1>12, <2>2
  <2>3. CASE l # cur /\ m # cur
    BY <1>6, <1>7, <2>3 DEF LiveInv, HeldExclusive
  <2> QED BY <2>1, <2>2, <2>3
<1> QED BY <1>9, <1>10, <1>13

\* So the leases that count keep what they own, apart and within the pools.
LEMMA HeldStep ==
    ASSUME Undisturbed, TypeOK, PersistInv, LiveInv, [Next]_vars
    PROVE  HeldCovers' /\ HeldExclusive' /\ HeldFits'
<1>1. CASE LiveLoses
  BY <1>1, LiveLosingIsSafe
<1>2. CASE \/ Environment
           \/ \E p \in Pools : ReconcilePool(p)
           \/ \E n \in Networks : ReconcileNetwork(n)
           \/ UNCHANGED vars
  BY <1>1, <1>2, OthersLose
<1>3. CASE Reconcile
  BY <1>1, <1>3, NothingIsLost, IntakeLoses, AdmitLoses, GivingBackLoses, GivenBackLoses, WritesLose, ErrorsLose, LoopsLose,
     HeldPoolsAreShared, HeldNetworksAreExclusive DEF Reconcile
<1>4. ~Restart
  BY DEF Restart, Undisturbed
<1> QED BY <1>2, <1>3, <1>4 DEF Next

\* A deletion, and nothing else, makes the object in hand an old version.
LEMMA StaleStep ==
    ASSUME Undisturbed, TypeOK, PersistInv, LiveInv, [Next]_vars
    PROVE  StaleIsDeleted'
<1> SUFFICES ASSUME pc' # "idle", stale' PROVE api'[cur'].deleting \/ api'[cur'].phase = "Gone"
  BY DEF StaleIsDeleted
<1>1. CASE \E l \in Leases : GetLease(l)
  BY <1>1, CacheIsCurrent DEF GetLease, Undisturbed
<1>2. CASE InitStatus \/ AddFinalizer \/ FailRefs \/ SaveRefs
  BY <1>2 DEF InitStatus, AddFinalizer, FailRefs, SaveRefs, Intake, WriteSucceeds, Goto
<1>3. CASE \/ AdmitTerminal \/ failLeaseIfUnsatisfiable \/ AdmitWaiting
           \/ AssignPool \/ ReleasePools \/ NoPoolFits \/ PoolsDone \/ AssignNetworks \/ NetworksDone
  <2>1. UNCHANGED <<api, cur, stale>> /\ pc # "idle"
    BY <1>3 DEF AdmitTerminal, failLeaseIfUnsatisfiable, AdmitWaiting, AdmitOrDelay, Admit, AssignPool, ReleasePools,
                NoPoolFits, PoolsDone, AssignNetworks, NetworksDone, Goto, EndReconcile, InMemory, inReconcile
  <2> QED BY <2>1 DEF LiveInv, StaleIsDeleted
<1>4. CASE \/ WriteError \/ DropFinalizer \/ FailStatus \/ Delay \/ ReleaseRefs \/ NoPool
           \/ SaveMissing \/ SaveStatus
  BY <1>4 DEF WriteError, DropFinalizer, FailStatus, Delay, ReleaseRefs, NoPool, SaveMissing, SaveStatus, EndReconcile
<1>5. CASE Reconcile
  BY <1>1, <1>2, <1>3, <1>4, <1>5, NothingIsLost DEF Reconcile
<1>6. ASSUME UNCHANGED <<api, cur, pc, stale>> PROVE api'[cur'].deleting \/ api'[cur'].phase = "Gone"
  BY <1>6 DEF LiveInv, StaleIsDeleted
<1>7. ASSUME NEW l \in Leases, CreateLease(l) PROVE api'[cur'].deleting \/ api'[cur'].phase = "Gone"
  <2>1. UNCHANGED <<cur, pc, stale>> /\ api[l].phase = "Uncreated" /\ api' = [api EXCEPT ![l] = NewLease]
    BY <1>7 DEF CreateLease, Write, inReconcile
  <2>2. api[cur].deleting \/ api[cur].phase = "Gone"
    BY <2>1 DEF LiveInv, StaleIsDeleted
  <2>3. api[l] = Uncreated \/ api[l] = NoLease
    BY <2>1 DEF PersistInv, ObjectsSound, Sound, Exists, Phases, Terminal
  <2>4. Uncreated.deleting = FALSE /\ NoLease.deleting = FALSE
    BY DEF Uncreated, NoLease, NewLease
  <2>5. cur # l
    BY <2>1, <2>2, <2>3, <2>4
  <2>6. api'[cur] = api[cur]
    BY <2>1, <2>5, LeasesFinite DEF TypeOK
  <2> QED BY <2>1, <2>2, <2>6
<1>8. ASSUME NEW l \in Leases, DeleteLease(l) PROVE api'[cur'].deleting \/ api'[cur'].phase = "Gone"
  <2> DEFINE mark == [api[l] EXCEPT !.deleting = TRUE]
  <2>1. /\ UNCHANGED <<cur, pc>> /\ stale' = (stale \/ cur = l)
        /\ api' = [api EXCEPT ![l] = mark] \/ api' = [api EXCEPT ![l] = NoLease]
    BY <1>8 DEF DeleteLease, Write
  <2>2. mark.deleting = TRUE /\ NoLease.phase = "Gone"
    BY DEF TypeOK, LeaseObjects, NoLease, NewLease
  <2> HIDE DEF mark
  <2>3. CASE cur = l
    BY <2>1, <2>2, <2>3 DEF TypeOK
  <2>4. CASE cur # l
    <3>1. cur \in Leases
      BY <2>1, LeasesFinite DEF TypeOK
    <3>2. api'[cur] = api[cur] /\ stale
      BY <2>1, <2>4, <3>1 DEF TypeOK
    <3> QED BY <2>1, <3>2 DEF LiveInv, StaleIsDeleted
  <2> QED BY <2>3, <2>4
<1>9. \A l \in Leases : ~CollectGarbage(l)
  BY DEF CollectGarbage, Undisturbed, TypeOK
<1>10. CASE Environment
  <2>1. ASSUME NEW l \in Leases, Sync(l) PROVE UNCHANGED <<api, cur, pc, stale>>
    BY <2>1 DEF Sync, inReconcile
  <2>2. ASSUME NEW p, SetNoSchedule(p) \/ RemovePool(p) \/ RemoveNetwork(p) PROVE UNCHANGED <<api, cur, pc, stale>>
    BY <2>2 DEF SetNoSchedule, RemovePool, RemoveNetwork, inReconcile
  <2> QED BY <1>6, <1>7, <1>8, <1>9, <1>10, <2>1, <2>2 DEF Environment
<1>11. CASE \/ \E p \in Pools : ReconcilePool(p)
            \/ \E n \in Networks : ReconcileNetwork(n)
            \/ UNCHANGED vars
  BY <1>6, <1>11 DEF ReconcilePool, ReconcileNetwork, vars, inReconcile
<1>12. ~Restart
  BY DEF Restart, Undisturbed
<1> QED BY <1>5, <1>10, <1>11, <1>12 DEF Next

\* What a reconcile has in hand on its way to the map, and for whom it goes which way.
LEMMA HandHoldsStep ==
    ASSUME Undisturbed, TypeOK, PersistInv, LiveInv, [Next]_vars
    PROVE  HandHolds'
<1> DEFINE Others == \/ Environment
                     \/ \E p \in Pools : ReconcilePool(p)
                     \/ \E n \in Networks : ReconcileNetwork(n)
                     \/ UNCHANGED vars
<1>1. CASE Others
  <2>1. UNCHANGED <<leases, cur, pc, work>> /\ \A l \in Leases : Within(api'[l], api[l])
    BY <1>1, OthersKeepHand, OthersGiveNothing
  <2>2. pc \in IntakeSteps => cur \in Leases
    BY LeasesFinite DEF TypeOK, IntakeSteps
  <2>3. pc \in IntakeSteps \ {"dropFinalizer"} => Within(api'[cur], work)
    BY <2>1, <2>2, WithinOrder DEF LiveInv, HandHolds
  <2> QED BY <2>1, <2>3 DEF LiveInv, HandHolds, Mem, Uncapped
<1>2. ASSUME pc' \in IntakeSteps, pc' # "dropFinalizer" => Within(api'[cur'], work') /\ Within(work', leases'[cur'])
      PROVE  HandHolds'
  BY <1>2 DEF HandHolds, Mem, IntakeSteps, PoolSteps
<1>3. CASE \E l \in Leases : GetLease(l)
  <2>1. PICK l \in Leases : GetLease(l)
    BY <1>3
  <2>2. /\ pc = "idle" /\ cur' = l /\ work' = api[l] /\ leases' = leases /\ api' = api
        /\ pc' = NextIntake(api[l]) /\ pc' \in IntakeSteps /\ Exists(api[l])
    BY <2>1, CacheIsCurrent DEF Undisturbed, GetLease, NextIntake, inMaps, IntakeSteps
  <2>3. ASSUME pc' # "dropFinalizer" PROVE Live(l)
    <3>1. api[l].phase = "" \/ ~api[l].finalizer \/ ~api[l].deleting
      BY <2>2, <2>3 DEF NextIntake
    <3> QED BY <2>2, <3>1 DEF PersistInv, ObjectsSound, Sound, Live
  <2>4. Held(l) = leases[l]
    BY <2>2 DEF Held, GivingBack
  <2>5. pc' # "dropFinalizer" => Within(api[l], leases[l])
    BY <2>3, <2>4 DEF LiveInv, HeldCovers, Mapped
  <2> QED BY <1>2, <2>2, <2>5, WithinOrder
<1>4. ASSUME NEW step, NEW obj, Intake(step, obj), step \in IntakeSteps \ {"dropFinalizer"},
             obj.pools = work.pools, obj.nets = work.nets
      PROVE  HandHolds'
  <2>1. pc \in IntakeSteps \ {"dropFinalizer"} /\ cur \in Leases /\ api \in [Leases -> LeaseObjects]
    BY <1>4, LeasesFinite DEF Intake, IntakeSteps, TypeOK
  <2>2. /\ api' = [api EXCEPT ![cur] = obj] /\ work' = obj /\ leases' = leases /\ cur' = cur
        /\ pc' \in IntakeSteps
    BY <1>4 DEF Intake, Write, Goto, NextIntake, inMaps, IntakeSteps
  <2>3. Within(obj, obj) /\ Within(obj, Mem)
    BY <1>4, <2>1, WithinOrder DEF LiveInv, HandHolds
  <2>4. Within(api'[cur'], work') /\ Within(work', leases'[cur'])
    BY <2>1, <2>2, <2>3 DEF Mem
  <2> QED BY <1>2, <2>2, <2>4
<1>5. CASE InitStatus \/ AddFinalizer
  <2>1. Intake("initStatus", Initialised) \/ Intake("addFinalizer", Finalized)
    BY <1>5 DEF InitStatus, AddFinalizer
  <2>2. /\ Initialised.pools = work.pools /\ Initialised.nets = work.nets
        /\ Finalized.pools = work.pools /\ Finalized.nets = work.nets
    BY IntakeKeepsRefs DEF TypeOK
  <2> QED BY <1>4, <2>1, <2>2 DEF IntakeSteps
<1>6. ASSUME pc' \in {"idle", "failStatus", "delay"} PROVE HandHolds'
  BY <1>6 DEF HandHolds, IntakeSteps, PoolSteps
<1>7. CASE \/ WriteError \/ DropFinalizer \/ AdmitTerminal \/ FailRefs \/ FailStatus \/ Delay \/ ReleaseRefs
           \/ NoPool \/ SaveMissing \/ SaveStatus
  BY <1>6, <1>7 DEF WriteError, DropFinalizer, AdmitTerminal, FailRefs, FailStatus, Delay, ReleaseRefs, NoPool,
                    SaveMissing, SaveStatus, Goto, EndReconcile
<1>8. CASE failLeaseIfUnsatisfiable
  <2> DEFINE obj == [NoRefs(work) EXCEPT !.phase = "Failed", !.conds = Set(@, {}, ConditionTypes)]
  <2>1. pc = "admit" /\ SetMem(obj) /\ pc' = "failRefs" /\ cur' = cur
    BY <1>8 DEF failLeaseIfUnsatisfiable, Admit, Goto
  <2>2. cur \in Leases /\ work \in LeaseObjects
    BY <2>1, LeasesFinite DEF TypeOK
  <2>3. obj.phase = "Failed"
    BY <2>2, ObjectTypes DEF NoRefs, LeaseObjects
  <2> HIDE DEF obj
  <2>4. leases'[cur'].phase = "Failed"
    BY <2>1, <2>2, <2>3 DEF SetMem, TypeOK
  <2> QED BY <2>1, <2>4 DEF HandHolds, Mem, IntakeSteps, PoolSteps
<1>9. CASE ReleasePools
  <2>1. pc' = "releaseRefs" /\ cur' = cur
    BY <1>9 DEF ReleasePools, Goto
  <2> QED BY <1>9, <2>1, OnlyCappedRelease DEF HandHolds, Uncapped, IntakeSteps, PoolSteps
<1>10. ASSUME pc' \in PoolSteps, leases'[cur'].phase # "Failed" PROVE HandHolds'
  BY <1>10 DEF HandHolds, Mem, IntakeSteps, PoolSteps
<1>11. CASE AdmitWaiting
  <2>1. CASE SetMem(work) /\ pc' = "pools" /\ cur' = cur
    <3>1. cur \in Leases /\ work.phase # "Failed"
      BY <1>11, LeasesFinite DEF AdmitWaiting, TypeOK, Terminal
    <3>2. leases'[cur'].phase # "Failed"
      BY <2>1, <3>1 DEF SetMem, TypeOK
    <3> QED BY <1>10, <2>1, <3>2 DEF PoolSteps
  <2> QED BY <1>6, <1>11, <2>1 DEF AdmitWaiting, AdmitOrDelay, Admit, Goto, EndReconcile
<1>12. CASE AssignPool \/ NoPoolFits \/ PoolsDone \/ AssignNetworks \/ NetworksDone \/ SaveRefs
  <2>1. pc \in PoolSteps /\ pc' \in PoolSteps /\ cur' = cur
    BY <1>12 DEF AssignPool, NoPoolFits, PoolsDone, AssignNetworks, NetworksDone, SaveRefs, Goto, inReconcile,
                 PoolSteps
  <2>2. cur \in Leases /\ Mem.phase # "Failed" /\ Mem \in LeaseObjects
    BY <2>1, LeasesFinite DEF LiveInv, HandHolds, TypeOK, PoolSteps, Mem
  <2>3. ASSUME NEW obj, SetMem(obj), obj.phase # "Failed" PROVE leases'[cur'].phase # "Failed"
    BY <2>1, <2>2, <2>3 DEF SetMem, TypeOK
  <2>4. CASE leases' = leases
    BY <1>10, <2>1, <2>2, <2>4 DEF Mem
  <2>5. CASE AssignPool
    <3>1. PICK p : SetMem([Mem EXCEPT !.pools = Append(@, p)])
      BY <2>5 DEF AssignPool
    <3>2. [Mem EXCEPT !.pools = Append(@, p)].phase # "Failed"
      BY <2>2 DEF LeaseObjects
    <3> QED BY <1>10, <2>1, <2>3, <3>1, <3>2
  <2>6. CASE AssignNetworks
    <3>1. PICK S : SetMem([Mem EXCEPT !.nets = @ \cup S])
      BY <2>6 DEF AssignNetworks
    <3>2. [Mem EXCEPT !.nets = @ \cup S].phase # "Failed"
      BY <2>2 DEF LeaseObjects
    <3> QED BY <1>10, <2>1, <2>3, <3>1, <3>2
  <2>7. CASE PoolsDone
    <3> DEFINE obj == [Mem EXCEPT !.name = PoolSpec[Mem.pools[1]].name]
    <3>1. SetMem(obj)
      BY <2>7 DEF PoolsDone
    <3>2. obj.phase # "Failed"
      BY <2>2 DEF LeaseObjects
    <3> HIDE DEF obj
    <3> QED BY <1>10, <2>1, <2>3, <3>1, <3>2
  <2>8. CASE NetworksDone
    <3> DEFINE done == ~Incomplete /\ AllPoolsHaveNetworks(Assigned, Mem.nets, Asked.networks, loaded)
               obj  == WithPhase(Mem, IF done THEN "Fulfilled" ELSE "Partial")
    <3>1. SetMem(IF Missing THEN Mem ELSE obj)
      BY <2>8 DEF NetworksDone
    <3>2. obj.phase # "Failed"
      BY <2>2 DEF WithPhase, LeaseObjects
    <3> HIDE DEF obj
    <3> QED BY <1>10, <2>1, <2>2, <2>3, <3>1, <3>2
  <2> QED BY <1>12, <2>4, <2>5, <2>6, <2>7, <2>8 DEF NoPoolFits, SaveRefs, inMaps
<1> HIDE DEF Others
<1>13. CASE Reconcile
  BY <1>3, <1>5, <1>7, <1>8, <1>9, <1>11, <1>12, <1>13, NothingIsLost DEF Reconcile
<1>14. ~Restart
  BY DEF Restart, Undisturbed
<1> QED BY <1>1, <1>13, <1>14 DEF Next, Others

\* The invariant holds of a system that starts without leases, and is inductive.
LEMMA LiveHolds ==
    ASSUME Undisturbed
    PROVE  Spec => []LiveInv
<1>1. ASSUME Init PROVE LiveInv
  <2>1. \A l \in Leases : /\ api[l] = Uncreated /\ leases[l] = NoLease /\ Held(l) = NoLease
    BY <1>1 DEF Init, Held, GivingBack
  <2>2. HoldsNothing(Uncreated) /\ NoLease.nets = {} /\ PoolsOf(NoLease) = {}
    <3>1. HoldsNothing(Uncreated) /\ NoLease.nets = {} /\ NoLease.pools = <<>>
      BY BlankObjects
    <3> QED BY <3>1 DEF PoolsOf
  <2>3. HeldCovers
    BY <2>1, <2>2, WithinOrder DEF HeldCovers
  <2>4. HeldExclusive
    BY <2>1, <2>2 DEF HeldExclusive
  <2>5. HeldFits
    BY <2>1, <2>2 DEF HeldFits, HeldUsers
  <2>6. HandHolds /\ StaleIsDeleted
    BY <1>1 DEF Init, HandHolds, StaleIsDeleted, IntakeSteps, PoolSteps
  <2> QED BY <2>3, <2>4, <2>5, <2>6 DEF LiveInv
<1>2. TypeOK /\ PersistInv /\ LiveInv /\ [Next]_vars => LiveInv'
  BY HeldStep, HandHoldsStep, StaleStep DEF LiveInv
<1> QED BY <1>1, <1>2, TypeCorrect, PersistHolds, PTL DEF Spec

\* The leases that are not being deleted never get into each other's way, although caps
\* and cordons take references from the map before the API server, and users delete
\* leases in between.
THEOREM LiveLeasesExcludeHolds ==
    ASSUME Undisturbed
    PROVE  Spec => []LiveLeasesExclude
<1>1. ASSUME LiveInv PROVE LiveLeasesExclude
  <2>1. \A l \in Leases : Live(l) => Sure(l) /\ Within(api[l], Held(l))
    BY <1>1 DEF LiveInv, HeldCovers, Sure, Mapped
  <2>2. ASSUME NEW l \in Leases, NEW m \in Leases, l # m, Live(l), Live(m), api[l].nets \cap api[m].nets # {}
        PROVE  Siblings(l, m)
    BY <1>1, <2>1, <2>2 DEF LiveInv, HeldExclusive, Within
  <2>3. ASSUME NEW p \in Pools, {l \in Leases : Live(l) /\ p \in PoolsOf(api[l])} # {}
        PROVE  Fits(p, {l \in Leases : Live(l) /\ p \in PoolsOf(api[l])})
    <3> DEFINE users == {l \in Leases : Live(l) /\ p \in PoolsOf(api[l])}
    <3>1. users \in SUBSET HeldUsers(p) /\ HeldUsers(p) \in SUBSET Leases
      BY <2>1 DEF Within, HeldUsers
    <3>2. Fits(p, HeldUsers(p))
      BY <1>1, <2>3, <3>1 DEF LiveInv, HeldFits
    <3> HIDE DEF users
    <3>3. Fits(p, users)
      BY <3>1, <3>2, FitsCount
    <3> QED BY <3>3 DEF users
  <2> QED BY <2>2, <2>3 DEF LiveLeasesExclude, Fits
<1> QED BY <1>1, LiveHolds, PTL
============================================================================
