------------------------- MODULE LeaseNetworkProofs -------------------------
(***************************************************************************)
(* Proofs about the networks of a lease of several pools.                  *)
(***************************************************************************)
EXTENDS LeaseLifecycleProofs

\* The circumstances of the theorem: the process does not die, so that every network
\* stays loaded; nothing is deleted from the inventory; and a lease asks for one
\* network per pool.  Reads may lag, writes may fail and pools may be cordoned.
OneNetworkEach ==
    /\ "restart" \notin Faults /\ Removable = {}
    /\ \A l \in Leases : LeaseSpec[l].networks <= 1

----------------------------------------------------------------------------
(* The inductive invariant.                                                *)

\* All networks of obj, an object of lease l, are of one VLAN, and if there is any, the
\* first pool has one: its network is picked first, and the others follow it.
OneVlan(l, obj) ==
    /\ \A n, m \in obj.nets : SameVlan(n, m)
    /\ obj.nets # {} => /\ obj.pools # <<>>
                        /\ obj.nets \cap getNetworksForPool(obj.pools[1], Networks) # {}
    /\ LeaseSpec[l].networks = 0 => obj.nets = {}

\* That holds of the persisted leases, and of the object in hand when the next write is
\* going to be accepted.
VlanInv ==
    /\ loaded = Networks
    /\ \A l \in Leases : OneVlan(l, api[l])
    /\ pc \in PoolSteps /\ ~stale => OneVlan(cur, Mem)

\* Only the references matter, and none are fine.
LEMMA SameVlans ==
    ASSUME NEW l, NEW a, NEW b, b.pools = a.pools, b.nets = a.nets
    PROVE  OneVlan(l, a) => OneVlan(l, b)
BY DEF OneVlan

\* An object without networks has no VLAN to differ in.
LEMMA NoVlans == \A l, obj : obj.nets = {} => OneVlan(l, obj)
BY DEF OneVlan

----------------------------------------------------------------------------
(* The network loop.                                                       *)

\* The networks considered for a pool are networks of the pool.
LEMMA ConsideredAreThePools ==
    ASSUME NEW l, NEW p, NEW first, NEW avail \in ConsideredNetworks(l, p, first)
    PROVE  avail \subseteq getNetworksForPool(p, loaded)
<1> DEFINE type == LeaseSpec[l].networkType
<1>1. getAvailableNetworks(p, type, loaded, OwnedNetworks) \subseteq getNetworksForPool(p, loaded)
  BY DEF getAvailableNetworks
<1>2. \A c : resolveCommonNetworksForPool(c, p, type, loaded, OwnedNetworks) \subseteq getNetworksForPool(p, loaded)
  BY <1>1 DEF resolveCommonNetworksForPool
<1>3. CASE SiblingNetworks(l) # {}
  BY <1>2, <1>3 DEF ConsideredNetworks
<1>4. CASE SiblingNetworks(l) = {}
  BY <1>1, <1>4 DEF ConsideredNetworks
<1> QED BY <1>3, <1>4

\* A lease that asks for one network per pool gets at most one in the first pool, and
\* only if it has none there; in a later pool it gets networks of VLANs it has.
LEMMA PicksFollow ==
    ASSUME NEW first \in BOOLEAN, NEW p, NEW nets \in SUBSET Networks, NEW avail \in SUBSET Networks,
           NEW perPool \in Nat, perPool <= 1,
           NEW S \in NetworkPicks(first, p, nets, avail, perPool, Networks), S # {}
    PROVE  /\ S \subseteq avail /\ perPool = 1
           /\ first => nets \cap getNetworksForPool(p, Networks) = {} /\ \A n, m \in S : n = m
           /\ ~first => \A n \in S : \E m \in nets : SameVlan(n, m)
<1> DEFINE held     == nets \cap getNetworksForPool(p, Networks)
           need     == perPool - Cardinality(held)
           matching == {n \in avail \cap getNetworksForPool(p, Networks) : \E m \in nets \cap Networks : SameVlan(n, m)}
<1>1. IsFiniteSet(held) /\ Cardinality(held) \in Nat
  BY NetworksFinite, FS_Subset, FS_CardinalityType
<1>2. ~(need <= 0) /\ S \in Picks(held, IF first THEN avail ELSE matching, need, first)
  BY DEF NetworkPicks
<1>3. perPool = 1 /\ Cardinality(held) = 0 /\ need = 1
  <2> HIDE DEF held
  <2> QED BY <1>1, <1>2
<1>4. held = {}
  BY <1>1, <1>3, FS_EmptySet
<1>5. S \subseteq (IF first THEN avail ELSE matching) /\ Cardinality(S) <= 1
  <2> HIDE DEF held, matching, need
  <2> QED BY <1>2, <1>3 DEF Picks
<1>6. CASE ~first
  BY <1>3, <1>5, <1>6
<1>7. CASE first
  <2>1. S \subseteq avail
    BY <1>5, <1>7
  <2>2. IsFiniteSet(S) /\ Cardinality(S) \in Nat
    BY <2>1, NetworksFinite, FS_Subset, FS_CardinalityType
  <2>3. Cardinality(S) # 0
    BY <2>2, FS_EmptySet
  <2>4. Cardinality(S) = 1
    BY <1>5, <2>2, <2>3
  <2>5. \E x : S = {x}
    BY <2>2, <2>4, FS_Singleton
  <2> QED BY <1>3, <1>4, <1>7, <2>1, <2>5
<1> QED BY <1>6, <1>7

\* The step of the network loop keeps the object in hand on one VLAN.
LEMMA NetworksOnOneVlan ==
    ASSUME OneNetworkEach, TypeOK, VlanInv, AssignNetworks, OneVlan(cur, Mem)
    PROVE  OneVlan(cur, Mem')
<1> DEFINE p     == Mem.pools[poolIdx]
           first == poolIdx = 1
<1>1. cur \in Leases /\ cur' = cur /\ Mem \in LeaseObjects
  BY LeasesFinite DEF TypeOK, AssignNetworks, Mem
<1>2. PICK avail \in ConsideredNetworks(cur, p, first) :
        \E S \in NetworkPicks(first, p, Mem.nets, avail, Asked.networks, loaded) :
            SetMem([Mem EXCEPT !.nets = @ \cup S])
  BY DEF AssignNetworks
<1>3. PICK S \in NetworkPicks(first, p, Mem.nets, avail, Asked.networks, loaded) :
        SetMem([Mem EXCEPT !.nets = @ \cup S])
  BY <1>2
<1>4. Mem'.pools = Mem.pools /\ Mem'.nets = Mem.nets \cup S
  <2>1. Mem' = [Mem EXCEPT !.nets = @ \cup S]
    BY <1>1, <1>3 DEF SetMem, Mem, TypeOK
  <2> QED BY <1>1, <2>1 DEF LeaseObjects
<1>5. CASE S = {}
  BY <1>4, <1>5, SameVlans
<1>6. CASE S # {}
  <2>1. /\ avail \subseteq getNetworksForPool(p, Networks) /\ avail \in SUBSET Networks /\ Mem.nets \in SUBSET Networks
        /\ Asked.networks \in Nat /\ Asked.networks <= 1 /\ loaded = Networks /\ first \in BOOLEAN
    <3>1. loaded = Networks /\ Mem.nets \in SUBSET Networks
      BY <1>1 DEF VlanInv, LeaseObjects
    <3>2. Asked.networks \in Nat /\ Asked.networks <= 1
      BY <1>1, ReconcilerLeaseSpecType DEF OneNetworkEach, Asked
    <3>3. avail \subseteq getNetworksForPool(p, Networks)
      BY <1>2, <3>1, ConsideredAreThePools
    <3>4. avail \in SUBSET Networks
      BY <3>3 DEF getNetworksForPool
    <3> QED BY <3>1, <3>2, <3>3, <3>4
  <2>2. /\ S \subseteq avail /\ Asked.networks = 1
        /\ first => Mem.nets \cap getNetworksForPool(p, Networks) = {} /\ \A n, m \in S : n = m
        /\ ~first => \A n \in S : \E m \in Mem.nets : SameVlan(n, m)
    <3> HIDE DEF p, first
    <3> QED BY <1>3, <1>6, <2>1, PicksFollow
  <2>3. poolIdx <= Len(Mem.pools) /\ Mem.pools \in Seq(Pools)
    BY <1>1 DEF AssignNetworks, LeaseObjects
  <2>4. CASE first
    <3>1. p = Mem.pools[1] /\ Mem.pools # <<>>
      BY <2>3, <2>4, EmptySeq
    <3>2. Mem.nets = {}
      BY <2>2, <2>4, <3>1 DEF OneVlan
    <3>3. Mem'.nets = S /\ Mem'.pools = Mem.pools
      BY <1>4, <3>2
    <3>4. \A n, m \in Mem'.nets : SameVlan(n, m)
      BY <2>2, <2>4, <3>3 DEF SameVlan
    <3>5. Mem'.pools # <<>> /\ Mem'.nets \cap getNetworksForPool(Mem'.pools[1], Networks) # {}
      BY <1>6, <2>1, <2>2, <3>1, <3>3
    <3> QED BY <2>2, <3>4, <3>5 DEF OneVlan, Asked
  <2>5. CASE ~first
    <3>1. Mem.nets # {} /\ \A n \in S : \E m \in Mem.nets : SameVlan(n, m)
      BY <1>6, <2>2, <2>5
    <3>2. \A n, m \in Mem'.nets : SameVlan(n, m)
      BY <1>4, <3>1 DEF OneVlan, SameVlan
    <3>3. Mem'.pools # <<>> /\ Mem'.nets \cap getNetworksForPool(Mem'.pools[1], Networks) # {}
      BY <1>4, <3>1 DEF OneVlan
    <3> QED BY <2>2, <3>2, <3>3 DEF OneVlan, Asked
  <2> QED BY <2>4, <2>5
<1> QED BY <1>5, <1>6

\* Nothing else in the loops changes the networks in hand.
LEMMA HandKeepsNetworks ==
    ASSUME TypeOK, [Next]_vars, pc \in PoolSteps, pc' \in PoolSteps
    PROVE  Mem'.nets = Mem.nets \/ AssignNetworks
<1>1. cur \in Leases
  BY LeasesFinite DEF TypeOK, PoolSteps
<1>2. Mem \in LeaseObjects
  BY <1>1 DEF TypeOK, Mem
<1>3. ASSUME NEW obj, SetMem(obj), cur' = cur PROVE Mem' = obj
  BY <1>1, <1>3 DEF SetMem, Mem, TypeOK
<1>4. CASE \/ Environment
           \/ \E p \in Pools : ReconcilePool(p)
           \/ \E n \in Networks : ReconcileNetwork(n)
           \/ UNCHANGED vars
  BY <1>4, OthersKeepHand DEF Mem
<1>5. CASE NoPoolFits \/ SaveRefs
  BY <1>5 DEF NoPoolFits, SaveRefs, Goto, inMaps, Mem
<1>6. CASE AssignPool
  <2>1. PICK p : SetMem([Mem EXCEPT !.pools = Append(@, p)])
    BY <1>6 DEF AssignPool
  <2>2. cur' = cur
    BY <1>6 DEF AssignPool, inReconcile
  <2> QED BY <1>2, <1>3, <2>1, <2>2 DEF LeaseObjects
<1>7. CASE PoolsDone
  <2>1. SetMem([Mem EXCEPT !.name = PoolSpec[Mem.pools[1]].name]) /\ cur' = cur
    BY <1>7 DEF PoolsDone
  <2> QED BY <1>2, <1>3, <2>1 DEF LeaseObjects
<1>8. CASE NetworksDone
  <2> DEFINE done == ~Incomplete /\ AllPoolsHaveNetworks(Assigned, Mem.nets, Asked.networks, loaded)
             obj  == WithPhase(Mem, IF done THEN "Fulfilled" ELSE "Partial")
  <2>1. SetMem(IF Missing THEN Mem ELSE obj) /\ cur' = cur
    BY <1>8 DEF NetworksDone, Goto
  <2>2. obj.nets = Mem.nets
    BY <1>2 DEF WithPhase, LeaseObjects
  <2> HIDE DEF obj
  <2> QED BY <1>3, <2>1, <2>2
<1>9. CASE \/ WriteError \/ LostAnswer \/ FailStatus \/ Delay \/ ReleaseRefs \/ NoPool \/ SaveMissing \/ SaveStatus
           \/ Restart \/ DropFinalizer \/ AdmitTerminal
  BY <1>9 DEF WriteError, LostAnswer, FailStatus, Delay, ReleaseRefs, NoPool, SaveMissing, SaveStatus, Restart,
              DropFinalizer, AdmitTerminal, EndReconcile, PoolSteps
<1>10. CASE \/ \E l \in Leases : GetLease(l)
            \/ InitStatus \/ AddFinalizer \/ failLeaseIfUnsatisfiable \/ AdmitWaiting \/ FailRefs
  BY <1>10 DEF GetLease, InitStatus, AddFinalizer, Intake, failLeaseIfUnsatisfiable, AdmitWaiting, FailRefs, PoolSteps
<1>11. CASE ReleasePools
  BY <1>11 DEF ReleasePools, Goto, PoolSteps
<1>12. CASE Reconcile
  BY <1>5, <1>6, <1>7, <1>8, <1>9, <1>10, <1>11, <1>12 DEF Reconcile
<1> QED BY <1>4, <1>9, <1>12 DEF Next

----------------------------------------------------------------------------
(* The invariant is inductive.                                             *)

\* The networks map stays complete: not even a deleted network leaves it.
LEMMA LoadedStep == OneNetworkEach /\ loaded = Networks /\ [Next]_vars => loaded' = Networks
<1> SUFFICES ASSUME OneNetworkEach, loaded = Networks, [Next]_vars PROVE loaded' = Networks
  OBVIOUS
<1>1. CASE Reconcile
  BY <1>1, ReconcileKeepsInventory
<1>2. CASE Environment
  BY <1>2 DEF Environment, CreateLease, DeleteLease, Sync, CollectGarbage, SetNoSchedule, RemovePool, RemoveNetwork,
              inMaps
<1>3. ASSUME NEW p, ReconcilePool(p) PROVE loaded' = Networks
  BY <1>3 DEF ReconcilePool
<1>4. ASSUME NEW n \in Networks, ReconcileNetwork(n) PROVE loaded' = Networks
  BY <1>4 DEF ReconcileNetwork
<1>5. CASE UNCHANGED vars
  BY <1>5 DEF vars
<1> QED BY <1>1, <1>2, <1>3, <1>4, <1>5 DEF Next, Restart, OneNetworkEach

\* The persisted leases: a write of references is one of the object in hand.
LEMMA ObjectsVlanStep ==
    ASSUME OneNetworkEach, TypeOK, PersistInv, VlanInv, [Next]_vars
    PROVE  \A l \in Leases : OneVlan(l, api'[l])
<1> SUFFICES ASSUME NEW l \in Leases, api'[l] # api[l] PROVE OneVlan(l, api'[l])
  BY DEF VlanInv
<1>1. api[l] \in LeaseObjects /\ OneVlan(l, api[l])
  BY DEF TypeOK, VlanInv
<1>2. PICK obj : api' = [api EXCEPT ![l] = obj] /\ Changes(l, obj)
  BY ApiSteps DEF TypeOK
<1>3. api'[l] = obj
  BY <1>2 DEF TypeOK
<1>4. CASE Creates(l, obj) \/ Forgets(l, obj) \/ Drops(l, obj)
  <2>1. obj = NewLease \/ obj = NoLease
    BY <1>4, Zenon DEF Creates, Forgets, Drops
  <2>2. obj.nets = {}
    BY <2>1, BlankObjects
  <2> QED BY <1>3, <2>2, NoVlans
<1>5. CASE Marks(l, obj) \/ Finalizes(l, obj)
  <2>1. obj.pools = api[l].pools /\ obj.nets = api[l].nets
    BY <1>1, <1>5 DEF Marks, Finalizes, LeaseObjects
  <2> QED BY <1>1, <1>3, <2>1, SameVlans
<1>6. CASE Accepts(l, obj)
  <2>1. obj.pools = api[l].pools /\ obj.nets = api[l].nets
    BY <1>1, <1>6 DEF Accepts, LeaseObjects
  <2> QED BY <1>1, <1>3, <2>1, SameVlans
<1>7. CASE WritesStatus(l, obj)
  <2>1. obj.pools = api[l].pools /\ obj.nets = api[l].nets
    BY <1>1, <1>7 DEF WritesStatus, WithStatus, InHand, LeaseObjects
  <2> QED BY <1>1, <1>3, <2>1, SameVlans
<1>8. CASE WritesRefs(l, obj)
  <2>1. /\ obj.pools = Mem.pools /\ obj.nets = Mem.nets /\ l = cur /\ ~stale
        /\ pc \in {"failRefs", "releaseRefs", "saveMissing", "saveRefs"}
    BY <1>1, <1>8 DEF WritesRefs, WithRefs, InHand, LeaseObjects
  <2>2. CASE pc \in {"failRefs", "releaseRefs"}
    <3>1. pc \in MapSteps
      BY <2>2 DEF MapSteps, IntakeSteps, Steps
    <3>2. Mem.nets = {}
      BY <2>1, <2>2, <3>1 DEF PersistInv, HandSound, HoldsNothing
    <3> QED BY <1>3, <2>1, <3>2, NoVlans
  <2>3. CASE pc \in {"saveMissing", "saveRefs"}
    <3>1. OneVlan(l, Mem)
      BY <2>1, <2>3 DEF VlanInv, PoolSteps
    <3> QED BY <1>3, <2>1, <3>1, SameVlans
  <2> QED BY <2>1, <2>2, <2>3
<1> QED BY <1>1, <1>2, <1>4, <1>5, <1>6, <1>7, <1>8, NothingCollected DEF Changes, OneNetworkEach

\* The object in hand stays on one VLAN, if the object read was and nothing was lost since.
LEMMA HandStaysOnVlan ==
    ASSUME OneNetworkEach, TypeOK, PersistInv, VlanInv, [Next]_vars, pc' \in PoolSteps,
           pc = "admit" => OneVlan(cur, work), pc \in PoolSteps => OneVlan(cur, Mem)
    PROVE  OneVlan(cur, Mem')
<1>1. cur \in Leases /\ cur' = cur /\ (HandEnters \/ HandPicks \/ HandReports \/ HandKeeps)
  BY HandSteps
<1>2. Mem \in LeaseObjects
  BY <1>1 DEF TypeOK, Mem
<1>3. CASE HandEnters
  BY <1>3 DEF HandEnters
<1>4. ASSUME pc \in PoolSteps
      PROVE  OneVlan(cur, Mem) /\ (Mem'.nets = Mem.nets \/ AssignNetworks)
  BY <1>4, HandKeepsNetworks
<1>5. CASE AssignNetworks
  <2>1. pc \in PoolSteps
    BY <1>5 DEF AssignNetworks, PoolSteps
  <2> QED BY <1>4, <1>5, <2>1, NetworksOnOneVlan
<1>6. CASE HandPicks /\ ~AssignNetworks
  <2>1. PICK excluded \in Exclusions : \E p \in Candidates(excluded) : Mem' = [Mem EXCEPT !.pools = Append(@, p)]
    BY <1>6 DEF HandPicks
  <2>2. PICK p \in Candidates(excluded) : Mem' = [Mem EXCEPT !.pools = Append(@, p)]
    BY <2>1
  <2>3. p \in Pools /\ Mem.pools \in Seq(Pools)
    BY <1>2, <2>2, PickIsKnown DEF TypeOK, LeaseObjects
  <2>4. Mem'.pools = Append(Mem.pools, p) /\ Mem'.nets = Mem.nets
    BY <1>2, <2>2 DEF LeaseObjects
  <2>5. OneVlan(cur, Mem)
    BY <1>4, <1>6 DEF HandPicks, PoolSteps
  <2>6. ASSUME Mem.pools # <<>> PROVE Mem'.pools # <<>> /\ Mem'.pools[1] = Mem.pools[1]
    <3>1. Len(Mem.pools) \in Nat /\ Len(Mem.pools) # 0
      BY <2>3, <2>6, EmptySeq, LenProperties
    <3>2. Len(Mem'.pools) = Len(Mem.pools) + 1 /\ \A i \in 1..Len(Mem.pools) : Mem'.pools[i] = Mem.pools[i]
      BY <2>3, <2>4, AppendProperties
    <3> QED BY <3>1, <3>2, EmptySeq
  <2> QED BY <2>4, <2>5, <2>6 DEF OneVlan
<1>7. CASE HandReports /\ ~AssignNetworks
  <2>1. Mem'.pools = Mem.pools /\ pc \in PoolSteps
    BY <1>2, <1>7 DEF HandReports, WithPhase, LeaseObjects, PoolSteps
  <2> QED BY <1>4, <1>7, <2>1, SameVlans
<1>8. CASE HandKeeps /\ ~AssignNetworks
  BY <1>4, <1>8, SameVlans DEF HandKeeps
<1> QED BY <1>1, <1>3, <1>5, <1>6, <1>7, <1>8

\* So it does while the next write is going to be accepted: then what was read is persisted.
LEMMA HandVlanStep ==
    ASSUME OneNetworkEach, TypeOK, PersistInv, VlanInv, [Next]_vars, pc' \in PoolSteps, ~stale'
    PROVE  OneVlan(cur, Mem')
<1>1. cur \in Leases /\ ~stale
  BY HandSteps
<1>2. pc = "admit" => OneVlan(cur, work)
  BY <1>1 DEF PersistInv, IntakeSound, IntakeSteps, VlanInv
<1>3. pc \in PoolSteps => OneVlan(cur, Mem)
  BY <1>1 DEF VlanInv
<1> QED BY <1>2, <1>3, HandStaysOnVlan

\* So it holds in every reachable state.
LEMMA VlanHolds ==
    ASSUME OneNetworkEach
    PROVE  Spec => []VlanInv
<1>1. Init => VlanInv
  <2> SUFFICES ASSUME Init PROVE VlanInv
    OBVIOUS
  <2>1. loaded = Networks /\ pc \notin PoolSteps /\ \A l \in Leases : api[l] = Uncreated
    BY DEF Init, PoolSteps
  <2> QED BY <2>1, BlankObjects, NoVlans DEF VlanInv
<1>2. TypeOK /\ PersistInv /\ VlanInv /\ [Next]_vars => VlanInv'
  <2> SUFFICES ASSUME TypeOK, PersistInv, VlanInv, [Next]_vars PROVE VlanInv'
    OBVIOUS
  <2>1. loaded' = Networks
    BY LoadedStep DEF VlanInv
  <2>2. \A l \in Leases : OneVlan(l, api'[l])
    BY ObjectsVlanStep
  <2>3. ASSUME pc' \in PoolSteps, ~stale' PROVE OneVlan(cur', Mem')
    BY <2>3, HandVlanStep, HandSteps
  <2> QED BY <2>1, <2>2, <2>3 DEF VlanInv, OneVlan
<1> QED BY <1>1, <1>2, TypeCorrect, PersistHolds, PTL DEF Spec

\* The pools of a fulfilled lease are connected by the same VLAN, however its pools and
\* networks were collected: over how many reconciles, from how old copies, and with
\* whichever writes failing in between.
THEOREM PoolsShareVlansHolds ==
    ASSUME OneNetworkEach
    PROVE  Spec => []PoolsShareVlans
<1>1. ASSUME TypeOK, VlanInv, FulfilledComplete PROVE PoolsShareVlans
  <2> SUFFICES ASSUME NEW l \in Leases, api[l].phase = "Fulfilled",
                      NEW p \in PoolsOf(api[l]), NEW q \in PoolsOf(api[l]),
                      NEW n \in api[l].nets \cap getNetworksForPool(p, Networks)
               PROVE  \E m \in api[l].nets \cap getNetworksForPool(q, Networks) : SameVlan(n, m)
    BY DEF PoolsShareVlans
  <2> DEFINE nets == api[l].nets \cap getNetworksForPool(q, Networks)
  <2>1. OneVlan(l, api[l])
    BY <1>1 DEF VlanInv
  <2>2. LeaseSpec[l].networks = 1
    BY <2>1, ReconcilerLeaseSpecType DEF OneVlan, OneNetworkEach
  <2>3. Cardinality(nets) >= 1
    BY <1>1, <2>2 DEF FulfilledComplete, AllPoolsHaveNetworks
  <2>4. nets # {}
    <3>1. Cardinality({}) = 0
      BY FS_EmptySet
    <3> HIDE DEF nets
    <3> QED BY <2>3, <3>1
  <2> QED BY <2>1, <2>4 DEF OneVlan
<1>2. Removable = {}
  BY DEF OneNetworkEach
<1> QED BY <1>1, <1>2, VlanHolds, TypeCorrect, FulfilledCompleteHolds, PTL
============================================================================
