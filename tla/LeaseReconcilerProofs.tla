----------------------- MODULE LeaseReconcilerProofs -----------------------
(***************************************************************************)
(* Proofs about LeaseReconciler.                                           *)
(***************************************************************************)
EXTENDS LeaseReconciler, PoolSelectionProofs, SequenceTheorems

----------------------------------------------------------------------------
(* Sequences of pools.                                                     *)

\* A lease asks for at least one pool.
LEMMA requiredPoolsPositive == \A l \in Leases : requiredPools(LeaseSpec[l]) \in Nat \ {0}
BY ReconcilerLeaseSpecType DEF requiredPools

\* The members of a sequence of owner references are of its type.
LEMMA MembersType ==
    ASSUME NEW s \in Seq(Pools)
    PROVE  /\ DOMAIN s = 1..Len(s) /\ Len(s) \in Nat
           /\ {s[i] : i \in DOMAIN s} \subseteq Pools
           /\ IsFiniteSet({s[i] : i \in DOMAIN s})
<1>1. /\ DOMAIN s = 1..Len(s) /\ Len(s) \in Nat
      /\ {s[i] : i \in DOMAIN s} \subseteq Pools
  BY LenProperties
<1> QED BY <1>1, PoolsFinite, FS_Subset

\* Appending a pool adds it to the members.
LEMMA AppendMembers ==
    ASSUME NEW s \in Seq(Pools), NEW p \in Pools
    PROVE  LET t == Append(s, p)
           IN  /\ t \in Seq(Pools) /\ Len(t) = Len(s) + 1
               /\ {t[i] : i \in DOMAIN t} = {s[i] : i \in DOMAIN s} \cup {p}
<1> DEFINE t == Append(s, p)
<1>1. /\ t \in Seq(Pools) /\ Len(t) = Len(s) + 1
      /\ \A i \in 1..Len(s) : t[i] = s[i]
      /\ t[Len(s) + 1] = p
  BY AppendProperties
<1>2. DOMAIN t = 1..(Len(s) + 1) /\ DOMAIN s = 1..Len(s) /\ Len(s) \in Nat
  BY <1>1, MembersType
<1> HIDE DEF t
<1>3. \A i \in 1..(Len(s) + 1) : i \in 1..Len(s) \/ i = Len(s) + 1
  BY <1>2
<1>4. {t[i] : i \in DOMAIN t} = {s[i] : i \in DOMAIN s} \cup {p}
  BY <1>1, <1>2, <1>3
<1> QED BY <1>1, <1>4 DEF t

\* Without keeps the order and loses nothing else: position k of the result is a
\* position of s that is kept.
LEMMA WithoutMembers ==
    ASSUME NEW s \in Seq(Pools), NEW gone
    PROVE  /\ Without(s, gone) \in Seq(Pools)
           /\ \A k \in DOMAIN Without(s, gone) :
                 \E i \in DOMAIN s : Without(s, gone)[k] = s[i] /\ s[i] \notin gone
<1> DEFINE kept    == {i \in DOMAIN s : s[i] \notin gone}
           rank(i) == Cardinality({j \in kept : j <= i})
           n       == Cardinality(kept)
           f       == [i \in kept |-> rank(i)]
<1>1. kept \subseteq 1..Len(s) /\ Len(s) \in Nat
  BY MembersType
<1>2. IsFiniteSet(kept) /\ n \in Nat
  <2>1. IsFiniteSet(1..Len(s))
    BY <1>1, FS_Interval
  <2>2. IsFiniteSet(kept)
    BY <1>1, <2>1, FS_Subset
  <2> QED BY <2>2, FS_CardinalityType
<1>3. ASSUME NEW i \in kept
      PROVE  /\ IsFiniteSet({j \in kept : j <= i}) /\ rank(i) \in 1..n
  <2>1. IsFiniteSet({j \in kept : j <= i}) /\ rank(i) <= n
    BY <1>2, FS_Subset
  <2>2. i \in {j \in kept : j <= i}
    BY <1>1
  <2>3. rank(i) \in Nat /\ rank(i) # 0
    BY <2>1, <2>2, FS_CardinalityType, FS_EmptySet
  <2> QED BY <2>1, <2>3, <1>2
<1>4. ASSUME NEW i \in kept, NEW j \in kept, i < j PROVE rank(i) # rank(j)
  <2>1. {m \in kept : m <= i} \subseteq {m \in kept : m <= j}
    BY <1>1, <1>4
  <2>2. j \in {m \in kept : m <= j} /\ j \notin {m \in kept : m <= i}
    BY <1>1, <1>4
  <2> QED BY <1>3, <2>1, <2>2, FS_Subset
<1>5. f \in Injection(kept, 1..n)
  <2>1. f \in [kept -> 1..n]
    BY <1>3
  <2>2. ASSUME NEW i \in kept, NEW j \in kept, i # j PROVE f[i] # f[j]
    <3>1. i < j \/ j < i
      BY <1>1, <2>2
    <3>2. rank(i) # rank(j)
      BY <1>4, <3>1
    <3> QED BY <3>2
  <2> HIDE DEF f
  <2> QED BY <2>1, <2>2 DEF Injection, IsInjective
<1>6. f \in Surjection(kept, 1..n)
  <2>1. IsFiniteSet(1..n) /\ Cardinality(1..n) = n
    BY <1>2, FS_Interval
  <2> HIDE DEF f, rank, n
  <2> QED BY <1>5, <2>1, FS_Injection DEF n
<1>7. \A k \in 1..n : \E i \in kept : rank(i) = k
  BY <1>6 DEF Surjection
<1> DEFINE pos(k) == CHOOSE i \in kept : rank(i) = k
<1>8. \A k \in 1..n : pos(k) \in kept
  BY <1>7
<1>9. Without(s, gone) = [k \in 1..n |-> s[pos(k)]]
  BY DEF Without
<1>10. \A k \in 1..n : s[pos(k)] \in Pools /\ s[pos(k)] \notin gone /\ pos(k) \in DOMAIN s
  <2> HIDE DEF pos
  <2> QED BY <1>8, <1>1, MembersType
<1> HIDE DEF pos, n, kept
<1>11. Without(s, gone) \in Seq(Pools)
  BY <1>2, <1>9, <1>10, SeqDef
<1> QED BY <1>9, <1>10, <1>11

----------------------------------------------------------------------------
(* What the selections return.                                             *)

\* A pick of the pool loop is a pool of the map that the lease does not have.
LEMMA PickIsKnown ==
    ASSUME NEW excluded, NEW p \in Candidates(excluded)
    PROVE  p \in known /\ p \notin Assigned
BY DEF Candidates, GetPoolWithStrategy, GetFittingPools

\* The networks considered for a lease are networks of the map.
LEMMA ConsideredAreLoaded ==
    ASSUME NEW l, NEW p, NEW first, NEW avail \in ConsideredNetworks(l, p, first)
    PROVE  avail \subseteq loaded
<1> DEFINE type == LeaseSpec[l].networkType
<1>1. getAvailableNetworks(p, type, loaded, OwnedNetworks) \subseteq loaded
  BY DEF getAvailableNetworks, getNetworksForPool
<1>2. \A c : resolveCommonNetworksForPool(c, p, type, loaded, OwnedNetworks) \subseteq loaded
  BY <1>1 DEF resolveCommonNetworksForPool, getNetworksForPool
<1>3. CASE SiblingNetworks(l) # {}
  BY <1>2, <1>3 DEF ConsideredNetworks
<1>4. CASE SiblingNetworks(l) = {}
  BY <1>1, <1>4 DEF ConsideredNetworks
<1> QED BY <1>3, <1>4

\* The network loop adds networks that were considered.
LEMMA PicksAreConsidered ==
    ASSUME NEW first \in BOOLEAN, NEW p, NEW nets, NEW avail, NEW perPool, NEW from,
           NEW S \in NetworkPicks(first, p, nets, avail, perPool, from)
    PROVE  S \subseteq avail
BY DEF NetworkPicks, Picks

\* So AssignNetworks adds networks of the map.
LEMMA NetworksAreLoaded ==
    ASSUME AssignNetworks
    PROVE  \E S \in SUBSET loaded : SetMem([Mem EXCEPT !.nets = @ \cup S])
<1> DEFINE p     == Mem.pools[poolIdx]
           first == poolIdx = 1
<1>1. PICK avail \in ConsideredNetworks(cur, p, first) :
        \E S \in NetworkPicks(first, p, Mem.nets, avail, Asked.networks, loaded) :
            SetMem([Mem EXCEPT !.nets = @ \cup S])
  BY DEF AssignNetworks
<1>2. PICK S \in NetworkPicks(first, p, Mem.nets, avail, Asked.networks, loaded) :
        SetMem([Mem EXCEPT !.nets = @ \cup S])
  BY <1>1
<1>3. S \subseteq loaded
  BY <1>1, <1>2, ConsideredAreLoaded, PicksAreConsidered
<1> QED BY <1>2, <1>3

----------------------------------------------------------------------------
(* Type correctness.                                                       *)

\* A write of an object of the right type keeps the types of what it changes.
LEMMA WriteType ==
    ASSUME TypeOK, NEW l \in Leases, NEW obj \in LeaseObjects, NEW touched \in SUBSET Leases,
           Write(l, obj, touched)
    PROVE  /\ api' \in [Leases -> LeaseObjects] /\ cache' \in [Leases -> LeaseObjects]
           /\ behind' \subseteq Leases
BY DEF TypeOK, Write, CacheAfter

\* So does a write followed by the wake-ups of triggerLeaseUpdates.
LEMMA TriggerType ==
    ASSUME TypeOK, NEW l \in Leases, NEW obj \in LeaseObjects, NEW map \in [Leases -> LeaseObjects],
           WriteAndTriggerLeaseUpdates(l, obj, map)
    PROVE  /\ api' \in [Leases -> LeaseObjects] /\ cache' \in [Leases -> LeaseObjects]
           /\ behind' \subseteq Leases
           /\ leases' \in [Leases -> LeaseObjects]
<1>1. PICK touched \in SUBSET Leases : Write(l, obj, touched)
  BY DEF WriteAndTriggerLeaseUpdates
<1>2. CacheAfter(l, obj) \in [Leases -> LeaseObjects]
  BY DEF TypeOK, CacheAfter
<1>3. leases' \in [Leases -> LeaseObjects]
  BY <1>2 DEF WriteAndTriggerLeaseUpdates
<1> QED BY <1>1, <1>3, WriteType

\* The objects the code makes out of typed ones are typed.
LEMMA ObjectTypes ==
    /\ NewLease \in LeaseObjects /\ NoLease \in LeaseObjects /\ Uncreated \in LeaseObjects
    /\ \A obj \in LeaseObjects : NoRefs(obj) \in LeaseObjects
    /\ \A obj, mem \in LeaseObjects : Decoded(mem, obj) \in LeaseObjects
    /\ \A obj \in LeaseObjects : \A phase \in {"Partial", "Fulfilled"} : WithPhase(obj, phase) \in LeaseObjects
<1>1. <<>> \in Seq(Pools)
  BY EmptySeq
<1> USE DEF LeaseObjects, Phases, Terminal
<1>2. NewLease \in LeaseObjects /\ NoLease \in LeaseObjects /\ Uncreated \in LeaseObjects
  BY <1>1 DEF NewLease, NoLease, Uncreated
<1>3. \A obj \in LeaseObjects : NoRefs(obj) \in LeaseObjects
  BY <1>1 DEF NoRefs
<1>4. \A obj, mem \in LeaseObjects : Decoded(mem, obj) \in LeaseObjects
  BY DEF Decoded
<1>5. \A obj \in LeaseObjects : \A phase \in {"Partial", "Fulfilled"} : WithPhase(obj, phase) \in LeaseObjects
  BY DEF WithPhase, Set, ConditionTypes
<1> QED BY <1>2, <1>3, <1>4, <1>5

\* So are the ones a reconcile writes before the leases map.
LEMMA IntakeTypes ==
    ASSUME work \in LeaseObjects
    PROVE  Initialised \in LeaseObjects /\ Finalized \in LeaseObjects
BY DEF Initialised, Finalized, LeaseObjects, Set, ConditionTypes, Phases

\* And whatever a write may leave behind when its answer is lost.
LEMMA WriteStepsTyped ==
    ASSUME pc \in WriteSteps, work \in LeaseObjects, WithStatus \in LeaseObjects, WithRefs \in LeaseObjects
    PROVE  Written \in LeaseObjects
<1>1. NoLease \in LeaseObjects /\ Initialised \in LeaseObjects /\ Finalized \in LeaseObjects
  BY ObjectTypes, IntakeTypes
<1> QED BY <1>1 DEF Written, WriteSteps, Steps

\* Every step of Next keeps the types, whatever the constants.
LEMMA TypeStep == TypeOK /\ [Next]_vars => TypeOK'
<1> SUFFICES ASSUME TypeOK, [Next]_vars PROVE TypeOK'
  OBVIOUS
<1> USE DEF TypeOK, Steps
<1>1. cur # None => cur \in Leases /\ Mem \in LeaseObjects /\ api[cur] \in LeaseObjects
  BY LeasesFinite DEF Mem
<1>2. cur # None => WithStatus \in LeaseObjects /\ WithRefs \in LeaseObjects
  BY <1>1 DEF WithStatus, WithRefs, LeaseObjects
<1>3. \A obj \in LeaseObjects : NextIntake(obj) \in Steps
  BY DEF NextIntake
<1>4. ASSUME NEW l \in Leases, CreateLease(l) PROVE TypeOK'
  BY <1>4, WriteType, ObjectTypes DEF CreateLease, inventory, inMaps, inReconcile
<1>5. ASSUME NEW l \in Leases, DeleteLease(l) PROVE TypeOK'
  <2> DEFINE obj == IF api[l].finalizer THEN [api[l] EXCEPT !.deleting = TRUE] ELSE NoLease
  <2>1. obj \in LeaseObjects
    BY ObjectTypes DEF LeaseObjects
  <2>2. Write(l, obj, {})
    BY <1>5 DEF DeleteLease
  <2> HIDE DEF obj
  <2> QED BY <1>5, <2>1, <2>2, WriteType DEF DeleteLease, inventory, inMaps
<1>6. ASSUME NEW l \in Leases, Sync(l) PROVE TypeOK'
  BY <1>6 DEF Sync, inventory, inMaps, inReconcile
<1>7. ASSUME NEW l \in Leases, CollectGarbage(l) PROVE TypeOK'
  <2> DEFINE left == [api[l] EXCEPT !.pools = Without(@, removed), !.nets = @ \ removed]
             obj == IF left.pools = <<>> /\ left.nets = {} THEN [api[l] EXCEPT !.deleting = TRUE] ELSE left
  <2>1. left \in LeaseObjects
    <3>1. api[l].pools \in Seq(Pools) /\ api[l].nets \in SUBSET Networks
      BY DEF LeaseObjects
    <3>2. Without(api[l].pools, removed) \in Seq(Pools)
      BY <3>1, WithoutMembers
    <3> QED BY <3>1, <3>2 DEF LeaseObjects
  <2>2. obj \in LeaseObjects
    BY <2>1 DEF LeaseObjects
  <2>3. Write(l, obj, {})
    BY <1>7 DEF CollectGarbage
  <2> HIDE DEF obj
  <2> QED BY <1>7, <2>2, <2>3, WriteType DEF CollectGarbage, inventory, inMaps
<1>8. ASSUME NEW p \in Cordonable, SetNoSchedule(p) PROVE TypeOK'
  BY <1>8, FaultsType DEF SetNoSchedule, inMaps, inReconcile
<1>9. ASSUME NEW p \in Removable \cap Pools, RemovePool(p) PROVE TypeOK'
  BY <1>9 DEF RemovePool, inReconcile
<1>10. ASSUME NEW n \in Removable \cap Networks, RemoveNetwork(n) PROVE TypeOK'
  BY <1>10 DEF RemoveNetwork, inMaps, inReconcile
<1>11. ASSUME NEW p \in Pools, ReconcilePool(p) PROVE TypeOK'
  BY <1>11 DEF ReconcilePool, inventory, inReconcile
<1>12. ASSUME NEW n \in Networks, ReconcileNetwork(n) PROVE TypeOK'
  BY <1>12 DEF ReconcileNetwork, inventory, inReconcile
<1>13. CASE Restart
  BY <1>13, ObjectTypes DEF Restart, EndReconcile, inventory
<1>14. ASSUME NEW l \in Leases, GetLease(l) PROVE TypeOK'
  <2>1. pc' \in Steps \ {"idle"}
    BY <1>14 DEF GetLease, NextIntake
  <2>2. cur' \in Leases /\ work' \in LeaseObjects /\ poolIdx' \in Nat
    BY <1>14 DEF GetLease
  <2>3. stale' \in BOOLEAN
    BY <1>14 DEF GetLease
  <2> QED BY <1>14, <2>1, <2>2, <2>3, LeasesFinite DEF GetLease, inventory, inMaps
<1>15. CASE WriteError
  BY <1>15, ObjectTypes DEF WriteError, EndReconcile, inventory, inMaps
<1>16. ASSUME NEW step \in Steps \ {"idle"}, NEW obj \in LeaseObjects, Intake(step, obj) PROVE TypeOK'
  BY <1>1, <1>3, <1>16, WriteType DEF Intake, Goto, NextIntake, inventory, inMaps
<1>17. CASE InitStatus
  <2>1. Initialised \in LeaseObjects
    BY IntakeTypes
  <2> QED BY <1>16, <1>17, <2>1 DEF InitStatus
<1>18. CASE AddFinalizer
  <2>1. Finalized \in LeaseObjects
    BY IntakeTypes
  <2> QED BY <1>16, <1>18, <2>1 DEF AddFinalizer
<1>19. CASE DropFinalizer
  <2>1. [leases EXCEPT ![cur] = NoLease] \in [Leases -> LeaseObjects]
    BY ObjectTypes
  <2> QED BY <1>1, <1>19, <2>1, TriggerType, ObjectTypes
          DEF DropFinalizer, EndReconcile, triggerPoolUpdates, inventory
<1>20. ASSUME NEW obj \in LeaseObjects, NEW step \in Steps \ {"idle"}, pc # "idle", Admit(obj, step) PROVE TypeOK'
  BY <1>20, <1>1, ObjectTypes DEF Admit, SetMem, Goto, InMemory, inventory
<1>21. CASE AdmitTerminal
  BY <1>1, <1>21, ObjectTypes DEF AdmitTerminal, SetMem, EndReconcile, InMemory, inventory
<1>22. CASE failLeaseIfUnsatisfiable
  <2>1. [NoRefs(work) EXCEPT !.phase = "Failed", !.conds = Set(@, {}, ConditionTypes)] \in LeaseObjects
    BY ObjectTypes DEF LeaseObjects, Set, Phases, Terminal
  <2> QED BY <1>20, <1>22, <2>1 DEF failLeaseIfUnsatisfiable
<1>23. CASE AdmitWaiting
  <2>1. [work EXCEPT !.conds = Set(@, {}, {"Fulfilled"})] \in LeaseObjects
    BY DEF LeaseObjects, Set
  <2>2. CASE Admit([work EXCEPT !.conds = Set(@, {}, {"Fulfilled"})], "delay")
    BY <1>20, <1>23, <2>1, <2>2 DEF AdmitWaiting
  <2>3. CASE Admit(work, "pools")
    BY <1>20, <1>23, <2>3 DEF AdmitWaiting
  <2>4. CASE SetMem(work) /\ EndReconcile /\ InMemory
    BY <1>1, <1>23, <2>4, ObjectTypes DEF AdmitWaiting, SetMem, EndReconcile, InMemory, inventory
  <2> QED BY <1>23, <2>2, <2>3, <2>4 DEF AdmitWaiting, AdmitOrDelay
<1>24. CASE FailRefs \/ SaveRefs
  BY <1>1, <1>2, <1>24, WriteType DEF FailRefs, SaveRefs, Goto, inventory, inMaps
<1>25. CASE FailStatus
  BY <1>1, <1>2, <1>25, TriggerType, ObjectTypes DEF FailStatus, EndReconcile, triggerPoolUpdates, inventory
<1>26. CASE Delay
  BY <1>1, <1>2, <1>26, TriggerType, ObjectTypes DEF Delay, EndReconcile, inventory
<1>27. CASE AssignPool
  <2>1. PICK excluded \in Exclusions : \E p \in Candidates(excluded) : SetMem([Mem EXCEPT !.pools = Append(@, p)])
    BY <1>27 DEF AssignPool
  <2>2. PICK p \in Candidates(excluded) : SetMem([Mem EXCEPT !.pools = Append(@, p)])
    BY <2>1
  <2>3. p \in Pools
    BY <2>2, PickIsKnown
  <2>4. pc = "pools" /\ Mem \in LeaseObjects
    BY <1>1, <1>27 DEF AssignPool
  <2>5. [Mem EXCEPT !.pools = Append(@, p)] \in LeaseObjects
    BY <2>3, <2>4, AppendProperties DEF LeaseObjects
  <2> QED BY <1>1, <1>27, <2>2, <2>5 DEF AssignPool, SetMem, InMemory, inventory, inReconcile
<1>28. CASE ReleasePools
  BY <1>1, <1>28, ObjectTypes DEF ReleasePools, SetMem, Goto, InMemory, inventory
<1>29. CASE ReleaseRefs \/ SaveMissing
  <2>1. cur # None /\ Decoded(Mem, WithRefs) \in LeaseObjects
    BY <1>1, <1>2, <1>29, ObjectTypes DEF ReleaseRefs, SaveMissing
  <2>2. Write(cur, WithRefs, {})
    BY <1>29 DEF ReleaseRefs, SaveMissing
  <2>3. /\ SetMem(Decoded(Mem, WithRefs)) /\ EndReconcile
        /\ UNCHANGED <<inventory, known, noSchedule, loaded>>
    BY <1>29 DEF ReleaseRefs, SaveMissing
  <2> QED BY <1>1, <1>2, <2>1, <2>2, <2>3, WriteType, ObjectTypes DEF SetMem, EndReconcile, inventory
<1>30. CASE NoPoolFits
  BY <1>30 DEF NoPoolFits, Goto, InMemory, inventory
<1>31. CASE NoPool
  BY <1>1, <1>2, <1>31, WriteType, ObjectTypes DEF NoPool, SetMem, EndReconcile, inventory
<1>32. CASE PoolsDone
  <2>1. cur \in Leases /\ Mem \in LeaseObjects /\ Mem.pools \in Seq(Pools)
    BY <1>1, <1>32 DEF PoolsDone, LeaseObjects
  <2>2. Assigned # {}
    <3>1. requiredPools(Asked) \in Nat \ {0} /\ Cardinality({}) = 0
      BY <2>1, requiredPoolsPositive, FS_EmptySet DEF Asked
    <3> QED BY <1>32, <3>1 DEF PoolsDone, Incomplete
  <2>3. Mem.pools[1] \in Pools
    BY <2>1, <2>2, MembersType DEF Assigned, PoolsOf
  <2>4. [Mem EXCEPT !.name = PoolSpec[Mem.pools[1]].name] \in LeaseObjects
    BY <2>1, <2>3 DEF LeaseObjects
  <2> QED BY <1>32, <2>1, <2>4 DEF PoolsDone, SetMem, InMemory, inventory
<1>33. CASE AssignNetworks
  <2>1. cur \in Leases /\ Mem \in LeaseObjects
    BY <1>1, <1>33 DEF AssignNetworks
  <2>3. PICK S \in SUBSET loaded : SetMem([Mem EXCEPT !.nets = @ \cup S])
    BY <1>33, NetworksAreLoaded
  <2>5. [Mem EXCEPT !.nets = @ \cup S] \in LeaseObjects
    BY <2>1, <2>3 DEF LeaseObjects
  <2>6. leases' \in [Leases -> LeaseObjects]
    BY <2>1, <2>3, <2>5 DEF SetMem
  <2>7. poolIdx' \in Nat /\ InMemory /\ UNCHANGED <<cur, pc, work, stale>>
    BY <1>33 DEF AssignNetworks
  <2> QED BY <2>6, <2>7 DEF InMemory, inventory
<1>34. CASE NetworksDone
  BY <1>1, <1>34, ObjectTypes DEF NetworksDone, SetMem, Goto, InMemory, inventory
<1>35. CASE SaveStatus
  BY <1>1, <1>2, <1>35, WriteType, TriggerType, ObjectTypes
     DEF SaveStatus, EndReconcile, triggerPoolUpdates, inventory
<1>35a. CASE LostAnswer
  <2>1. cur \in Leases /\ Written \in LeaseObjects
    BY <1>1, <1>2, <1>35a, WriteStepsTyped DEF LostAnswer, WriteSteps
  <2> QED BY <1>35a, <2>1, WriteType, ObjectTypes DEF LostAnswer, EndReconcile, inventory, inMaps
<1>36. CASE UNCHANGED vars
  BY <1>36 DEF vars
<1>37. CASE Reconcile
  BY <1>14, <1>15, <1>17, <1>18, <1>19, <1>21, <1>22, <1>23, <1>24, <1>25, <1>26, <1>27, <1>28,
     <1>29, <1>30, <1>31, <1>32, <1>33, <1>34, <1>35, <1>35a, <1>37 DEF Reconcile
<1>38. CASE Environment
  BY <1>4, <1>5, <1>6, <1>7, <1>8, <1>9, <1>10, <1>38 DEF Environment
<1> QED BY <1>11, <1>12, <1>13, <1>36, <1>37, <1>38 DEF Next

\* The maps, the objects and the reconcile under way always have their types,
\* whatever fails, dies or lags: every object the controllers write back is one of
\* the API, and a reconcile has a lease.
THEOREM TypeCorrect == Spec => []TypeOK
<1>1. Init => TypeOK
  <2> SUFFICES ASSUME Init PROVE TypeOK
    OBVIOUS
  <2>1. api \in [Leases -> LeaseObjects] /\ cache \in [Leases -> LeaseObjects]
    BY ObjectTypes DEF Init
  <2>2. leases \in [Leases -> LeaseObjects] /\ work \in LeaseObjects
    BY ObjectTypes DEF Init
  <2>3. stale \in BOOLEAN
    BY DEF Init
  <2> QED BY <2>1, <2>2, <2>3 DEF Init, TypeOK, Steps
<1> QED BY <1>1, TypeStep, PTL DEF Spec

----------------------------------------------------------------------------
(* The inductive invariant behind the properties of the persisted objects. *)

HoldsNothing(obj) == obj.pools = <<>> /\ obj.nets = {}
Waiting(obj) == obj.phase \in {"Pending", "Partial"}

\* What holds of every object in the API server by itself: a lease gets a finalizer
\* with its first phase, and references only after that.
Sound(obj) ==
    /\ ~Exists(obj) => obj \in {Uncreated, NoLease}
    /\ Exists(obj) => obj.conds = {obj.phase} \cap ConditionTypes
    /\ obj.phase = "Failed" => HoldsNothing(obj)
    /\ obj.finalizer => Exists(obj) /\ obj.phase # ""
    /\ Exists(obj) /\ ~obj.finalizer => obj.phase \in {"", "Pending"} /\ HoldsNothing(obj) /\ ~obj.deleting

ObjectsSound == \A l \in Leases : Sound(api[l])

\* The cache is the API server or an earlier version of it: the finalizer it shows is
\* still there, or the lease is gone and it shows the deletion.
CacheIsPast ==
    /\ "lag" \notin Faults => behind = {}
    /\ \A l \in Leases : l \notin behind => cache[l] = api[l]
    /\ \A l \in Leases : cache[l].finalizer
          => api[l].finalizer \/ (api[l].phase = "Gone" /\ cache[l].deleting)

\* The leases map holds leases that were accepted, and that are still there unless the
\* answer of the write that let them go was lost.
Ghost(l) == "lost" \in Faults /\ api[l].phase = "Gone"
MapIsAccepted == \A l \in Leases : Exists(leases[l]) => api[l].finalizer \/ Ghost(l)

\* Before the leases map: the object in hand is the latest version, or stale says
\* that it is not.
IntakeSteps == {"initStatus", "addFinalizer", "dropFinalizer", "admit"}
IntakeSound ==
    pc \in IntakeSteps =>
        /\ Exists(work) /\ pc = NextIntake(work)
        /\ pc = "admit" => api[cur].finalizer
        /\ ~stale => work = api[cur]
        /\ pc = "dropFinalizer" /\ ~stale => cache[cur].deleting

\* From the leases map on: what the object in hand, the one in the map, has in common
\* with the persisted one when the next write is going to be accepted.
StatusKept == Mem.phase = api[cur].phase /\ Mem.conds = api[cur].conds
RefsKept == PoolsOf(api[cur]) \subseteq PoolsOf(Mem) /\ api[cur].nets \subseteq Mem.nets
RefsSaved == Mem.pools = api[cur].pools /\ Mem.nets = api[cur].nets
Reported ==
    /\ Mem.phase \in {"Partial", "Fulfilled"} /\ Mem.conds = {Mem.phase}
    /\ Mem.pools # <<>> /\ Mem.nets # {}

MapSteps == Steps \ (IntakeSteps \cup {"idle"})
HandSound ==
    pc \in MapSteps =>
        /\ Exists(Mem) /\ api[cur].finalizer
        /\ ~stale =>
            /\ Waiting(api[cur]) /\ ~api[cur].deleting
            /\ pc \in {"failRefs", "failStatus"} => Mem.phase = "Failed" /\ Mem.conds = {}
            /\ pc \in {"failRefs", "failStatus", "releaseRefs"} => HoldsNothing(Mem)
            /\ pc \in {"delay", "pools", "releaseRefs", "noPool", "networks", "saveMissing"} => StatusKept
            /\ pc \in {"pools", "noPool", "networks", "saveMissing", "saveRefs"} => RefsKept
            /\ pc \in {"networks", "saveMissing"} => Mem.pools # <<>>
            /\ pc \in {"saveRefs", "saveStatus"} => Reported
            /\ pc \in {"failStatus", "saveStatus"} => RefsSaved

PersistInv == ObjectsSound /\ CacheIsPast /\ MapIsAccepted /\ IntakeSound /\ HandSound

----------------------------------------------------------------------------
(* How a step touches the invariant.                                       *)

\* A write of a sound object keeps the objects sound and the cache a past version, if
\* the finalizer stays, or goes when the cache shows the deletion.
LEMMA WriteSound ==
    ASSUME TypeOK, PersistInv, NEW l \in Leases, NEW obj \in LeaseObjects, NEW touched,
           Write(l, obj, touched), Sound(obj), api[l].phase # "Gone",
           \/ api[l].finalizer => obj.finalizer
           \/ obj = NoLease /\ cache[l].deleting
    PROVE  ObjectsSound' /\ CacheIsPast'
<1>1. ObjectsSound'
  BY DEF TypeOK, PersistInv, ObjectsSound, Write
<1>2. NoLease.phase = "Gone" /\ obj.finalizer \in BOOLEAN
  BY DEF NoLease, NewLease, LeaseObjects
<1>3. CASE "lag" \in Faults
  <2>1. /\ cache' = cache /\ l \in behind' /\ behind \subseteq behind'
        /\ \A m \in Leases \ {l} : api'[m] = api[m]
        /\ api'[l] = obj
    BY <1>3 DEF TypeOK, Write, CacheAfter
  <2>2. cache[l].finalizer => obj.finalizer \/ (obj.phase = "Gone" /\ cache[l].deleting)
    BY <1>2 DEF PersistInv, CacheIsPast
  <2>3. \A m \in Leases : m \notin behind' => cache'[m] = api'[m]
    BY <2>1 DEF PersistInv, CacheIsPast
  <2>4. \A m \in Leases : cache'[m].finalizer
            => api'[m].finalizer \/ (api'[m].phase = "Gone" /\ cache'[m].deleting)
    BY <2>1, <2>2 DEF PersistInv, CacheIsPast
  <2> QED BY <1>1, <1>3, <2>3, <2>4 DEF CacheIsPast
<1>4. CASE "lag" \notin Faults
  <2>1. cache = api
    BY <1>4 DEF TypeOK, PersistInv, CacheIsPast
  <2>2. cache' = api' /\ behind' = {}
    BY <1>4, <2>1 DEF Write, CacheAfter
  <2>3. \A m \in Leases : cache'[m].finalizer => api'[m].finalizer
    BY <2>2
  <2> QED BY <1>1, <2>2, <2>3 DEF CacheIsPast
<1> QED BY <1>3, <1>4

\* A write by somebody else: the reconcile under way, if it is of that lease, is told.
LEMMA OthersWriteSound ==
    ASSUME TypeOK, PersistInv, NEW l \in Leases, NEW obj \in LeaseObjects,
           Write(l, obj, {}), Sound(obj), api[l].phase # "Gone", api[l].finalizer => obj.finalizer,
           UNCHANGED <<leases, cur, pc, work, poolIdx>>,
           stale => stale', cur = l => stale'
    PROVE  PersistInv'
<1>1. ObjectsSound' /\ CacheIsPast'
  BY WriteSound
<1>2. \A m \in Leases : api[m].finalizer => api'[m].finalizer
  BY DEF TypeOK, Write
<1>3. MapIsAccepted'
  <2>1. \A m \in Leases : api[m].phase = "Gone" => api'[m] = api[m]
    BY DEF TypeOK, Write
  <2> QED BY <1>2, <2>1 DEF PersistInv, MapIsAccepted, Ghost
<1>4. ~stale' => ~stale /\ (pc # "idle" => cur \in Leases /\ api'[cur] = api[cur] /\ cache'[cur] = cache[cur])
  BY LeasesFinite DEF TypeOK, Write, CacheAfter
<1>5. IntakeSound'
  BY <1>2, <1>4 DEF TypeOK, PersistInv, IntakeSound, IntakeSteps
<1>6. HandSound'
  <2>1. pc \in MapSteps => cur \in Leases
    BY LeasesFinite DEF TypeOK, MapSteps
  <2> QED BY <1>2, <1>4, <2>1 DEF PersistInv, HandSound, MapSteps, IntakeSteps, StatusKept, RefsKept,
             RefsSaved, Reported, Mem
<1> QED BY <1>1, <1>3, <1>5, <1>6 DEF PersistInv

\* The end of a reconcile leaves nothing in hand.
LEMMA EndSound == EndReconcile => IntakeSound' /\ HandSound'
BY DEF EndReconcile, IntakeSound, HandSound, IntakeSteps, MapSteps

\* The wake-ups put no lease into the map that was not there.
LEMMA TriggerKeepsMap ==
    ASSUME NEW l, NEW obj, NEW map, WriteAndTriggerLeaseUpdates(l, obj, map), NEW m \in Leases, Exists(leases'[m])
    PROVE  Exists(map[m])
BY DEF WriteAndTriggerLeaseUpdates

\* A write of a reconcile's lease that keeps its finalizer keeps the map accepted,
\* with or without wake-ups.
LEMMA WriteKeepsMap ==
    ASSUME TypeOK, PersistInv, NEW l \in Leases, NEW obj, NEW touched, Write(l, obj, touched), obj.finalizer,
           \A m \in Leases \ {l} : Exists(leases'[m]) => Exists(leases[m])
    PROVE  MapIsAccepted'
BY DEF TypeOK, PersistInv, MapIsAccepted, Ghost, Write

\* A change of the map's entry of an accepted lease disturbs only what is in hand.
LEMMA InMemorySound ==
    ASSUME TypeOK, PersistInv, pc # "idle", api[cur].finalizer, NEW obj, SetMem(obj), InMemory
    PROVE  ObjectsSound' /\ CacheIsPast' /\ MapIsAccepted'
<1>1. cur \in Leases
  BY LeasesFinite DEF TypeOK
<1>2. MapIsAccepted'
  BY <1>1 DEF TypeOK, PersistInv, MapIsAccepted, Ghost, SetMem, InMemory
<1> QED BY <1>2 DEF PersistInv, ObjectsSound, CacheIsPast, InMemory

\* The reconcile of an accepted lease that is about to write: what it writes is sound.
LEMMA WritesAreSound ==
    ASSUME TypeOK, PersistInv, pc \in MapSteps, WriteSucceeds
    PROVE  /\ cur \in Leases /\ api[cur].phase # "Gone"
           /\ WithRefs \in LeaseObjects /\ WithRefs.finalizer
           /\ WithStatus \in LeaseObjects /\ WithStatus.finalizer
           /\ pc \in {"failRefs", "releaseRefs", "saveMissing", "saveRefs"} => Sound(WithRefs)
           /\ pc \in {"failStatus", "delay", "noPool", "saveStatus"} => Sound(WithStatus)
<1>1. cur \in Leases /\ api[cur] \in LeaseObjects /\ Mem \in LeaseObjects
  BY LeasesFinite DEF TypeOK, MapSteps, Mem
<1>2. /\ Sound(api[cur]) /\ Waiting(api[cur]) /\ api[cur].finalizer
      /\ pc = "failStatus" => Mem.phase = "Failed" /\ Mem.conds = {} /\ HoldsNothing(Mem) /\ RefsSaved
      /\ pc \in {"delay", "noPool"} => StatusKept
      /\ pc = "saveStatus" => Reported
  BY <1>1 DEF PersistInv, ObjectsSound, HandSound, WriteSucceeds
<1>3. WithRefs \in LeaseObjects /\ WithStatus \in LeaseObjects
  BY <1>1 DEF WithRefs, WithStatus, LeaseObjects
<1>4. /\ WithRefs.phase = api[cur].phase /\ WithRefs.conds = api[cur].conds
      /\ WithRefs.finalizer = api[cur].finalizer
      /\ WithStatus.phase = Mem.phase /\ WithStatus.conds = Mem.conds
      /\ WithStatus.finalizer = api[cur].finalizer
      /\ WithStatus.pools = api[cur].pools /\ WithStatus.nets = api[cur].nets
  BY <1>1 DEF WithRefs, WithStatus, LeaseObjects
<1>5. Sound(WithRefs)
  BY <1>2, <1>4 DEF Sound, Waiting, Exists, Phases
<1>6. CASE pc = "failStatus"
  <2>1. Sound(WithStatus)
    BY <1>2, <1>4, <1>6 DEF Sound, HoldsNothing, RefsSaved, Exists, Phases, Terminal, ConditionTypes
  <2> QED BY <1>1, <1>2, <1>3, <1>4, <1>5, <1>6, <2>1 DEF Waiting
<1>7. CASE pc \in {"delay", "noPool"}
  <2>1. Sound(WithStatus)
    BY <1>2, <1>4, <1>7 DEF Sound, StatusKept, Waiting, Exists, Phases
  <2> QED BY <1>1, <1>2, <1>3, <1>4, <1>5, <1>7, <2>1 DEF Waiting
<1>8. CASE pc = "saveStatus"
  <2>1. Sound(WithStatus)
    BY <1>2, <1>4, <1>8 DEF Sound, Reported, Exists, Phases, Terminal, ConditionTypes
  <2> QED BY <1>1, <1>2, <1>3, <1>4, <1>5, <1>8, <2>1 DEF Waiting
<1>9. CASE pc \notin {"failStatus", "delay", "noPool", "saveStatus"}
  BY <1>1, <1>2, <1>3, <1>4, <1>5, <1>9 DEF Waiting
<1> QED BY <1>6, <1>7, <1>8, <1>9

\* A reconcile's write of its lease, with or without the wake-ups, when it ends with it.
LEMMA LastWriteSound ==
    ASSUME TypeOK, PersistInv, pc \in MapSteps, NEW obj \in LeaseObjects, NEW touched,
           Write(cur, obj, touched), Sound(obj), obj.finalizer, WriteSucceeds, EndReconcile,
           \A m \in Leases \ {cur} : Exists(leases'[m]) => Exists(leases[m])
    PROVE  PersistInv'
<1>1. cur \in Leases /\ api[cur].phase # "Gone"
  BY WritesAreSound
<1> QED BY <1>1, WriteSound, WriteKeepsMap, EndSound DEF PersistInv

\* The steps that do not belong to a reconcile keep the invariant.
LEMMA PersistOthers ==
    ASSUME TypeOK, PersistInv,
           \/ Environment \/ Restart
           \/ \E p \in Pools : ReconcilePool(p)
           \/ \E n \in Networks : ReconcileNetwork(n)
           \/ UNCHANGED vars
    PROVE  PersistInv'
<1>1. ASSUME NEW l \in Leases, CreateLease(l) PROVE PersistInv'
  <2>1. Sound(NewLease) /\ NewLease \in LeaseObjects
    BY ObjectTypes DEF Sound, NewLease, Exists, Phases, HoldsNothing, ConditionTypes
  <2>2. Sound(api[l]) /\ api[l].phase = "Uncreated"
    BY <1>1 DEF CreateLease, PersistInv, ObjectsSound
  <2>3. ~Exists(api[l]) /\ ~api[l].finalizer
    BY <2>2 DEF Sound, Exists, Phases, Terminal
  <2>4. cur = l => stale
    <3> SUFFICES ASSUME cur = l, ~stale PROVE FALSE
      BY DEF TypeOK
    <3>1. pc \in IntakeSteps \/ pc \in MapSteps
      BY LeasesFinite DEF TypeOK, MapSteps
    <3> QED BY <2>3, <3>1 DEF PersistInv, IntakeSound, HandSound
  <2>5. Write(l, NewLease, {}) /\ UNCHANGED <<leases, cur, pc, work, poolIdx, stale>>
    BY <1>1 DEF CreateLease, inMaps, inReconcile
  <2> QED BY <2>1, <2>2, <2>3, <2>4, <2>5, OthersWriteSound
<1>2. ASSUME NEW l \in Leases, DeleteLease(l) PROVE PersistInv'
  <2> DEFINE obj == IF api[l].finalizer THEN [api[l] EXCEPT !.deleting = TRUE] ELSE NoLease
  <2>1. Sound(api[l]) /\ Exists(api[l]) /\ api[l] \in LeaseObjects
    BY <1>2 DEF DeleteLease, PersistInv, ObjectsSound, TypeOK
  <2>2. obj \in LeaseObjects /\ (api[l].finalizer => obj.finalizer)
    BY <2>1, ObjectTypes DEF LeaseObjects
  <2>3. Sound(NoLease)
    BY DEF Sound, NoLease, NewLease, Exists, Phases, Terminal, HoldsNothing, ConditionTypes
  <2>4. Sound(obj)
    BY <2>1, <2>3 DEF Sound, LeaseObjects, Exists, HoldsNothing
  <2>5. Write(l, obj, {}) /\ UNCHANGED <<leases, cur, pc, work, poolIdx>>
    BY <1>2 DEF DeleteLease, inMaps
  <2>6. (stale => stale') /\ (cur = l => stale')
    BY <1>2 DEF DeleteLease
  <2>7. api[l].phase # "Gone"
    BY <2>1 DEF Exists, Phases, Terminal
  <2> HIDE DEF obj
  <2> QED BY <2>2, <2>4, <2>5, <2>6, <2>7, OthersWriteSound
<1>3. ASSUME NEW l \in Leases, CollectGarbage(l) PROVE PersistInv'
  <2> DEFINE left == [api[l] EXCEPT !.pools = Without(@, removed), !.nets = @ \ removed]
             obj == IF left.pools = <<>> /\ left.nets = {} THEN [api[l] EXCEPT !.deleting = TRUE] ELSE left
  <2>1. Sound(api[l]) /\ Exists(api[l]) /\ api[l] \in LeaseObjects
    BY <1>3 DEF CollectGarbage, PersistInv, ObjectsSound, TypeOK
  <2>2. ~HoldsNothing(api[l])
    BY <1>3 DEF CollectGarbage, HoldsNothing, PoolsOf
  <2>3. api[l].finalizer /\ api[l].phase \notin {"Failed", "", "Gone"}
    BY <2>1, <2>2 DEF Sound, Exists, Phases, Terminal
  <2>4. /\ obj.phase = api[l].phase /\ obj.conds = api[l].conds
        /\ obj.finalizer = api[l].finalizer
    BY <2>1 DEF LeaseObjects
  <2>5. obj \in LeaseObjects
    <3>1. Without(api[l].pools, removed) \in Seq(Pools)
      BY <2>1, WithoutMembers DEF LeaseObjects
    <3> QED BY <2>1, <3>1 DEF LeaseObjects
  <2>6. Write(l, obj, {}) /\ UNCHANGED <<leases, cur, pc, work, poolIdx>>
    BY <1>3 DEF CollectGarbage, inMaps
  <2>7. (stale => stale') /\ (cur = l => stale')
    BY <1>3 DEF CollectGarbage
  <2> HIDE DEF obj
  <2>8. Sound(obj)
    BY <2>1, <2>3, <2>4 DEF Sound, Exists
  <2> QED BY <2>3, <2>4, <2>5, <2>6, <2>7, <2>8, OthersWriteSound
<1>4. ASSUME NEW l \in Leases, Sync(l) PROVE PersistInv'
  <2>1. /\ \A m \in Leases : cache'[m] = IF m = l THEN api[m] ELSE cache[m]
        /\ behind' = behind \ {l}
        /\ UNCHANGED <<api, leases, cur, pc, work, stale, poolIdx>>
    BY <1>4 DEF Sync, TypeOK, inMaps, inReconcile
  <2>2. ObjectsSound' /\ MapIsAccepted'
    BY <2>1 DEF PersistInv, ObjectsSound, MapIsAccepted, Ghost
  <2>3. CacheIsPast'
    BY <2>1 DEF PersistInv, CacheIsPast
  <2>4. IntakeSound'
    <3>1. ASSUME pc = "dropFinalizer", ~stale PROVE cache'[cur].deleting
      <4>1. cur \in Leases /\ work = api[cur] /\ pc = NextIntake(work) /\ cache[cur].deleting
        BY <3>1, LeasesFinite DEF PersistInv, IntakeSound, IntakeSteps, TypeOK
      <4>2. work.deleting
        BY <3>1, <4>1 DEF NextIntake
      <4> QED BY <2>1, <4>1, <4>2
    <3> QED BY <2>1, <3>1 DEF PersistInv, IntakeSound
  <2>5. HandSound'
    BY <2>1 DEF PersistInv, HandSound, StatusKept, RefsKept, RefsSaved, Reported, Mem
  <2> QED BY <2>2, <2>3, <2>4, <2>5 DEF PersistInv
<1>5. ASSUME UNCHANGED <<api, cache, behind, leases, cur, pc, work, stale>> PROVE PersistInv'
  BY <1>5 DEF PersistInv, ObjectsSound, CacheIsPast, MapIsAccepted, Ghost, IntakeSound, HandSound,
              StatusKept, RefsKept, RefsSaved, Reported, Mem
<1>6. CASE Restart
  <2>1. ~Exists(NoLease)
    BY DEF NoLease, NewLease, Exists, Phases, Terminal
  <2>2. ObjectsSound' /\ CacheIsPast' /\ MapIsAccepted'
    BY <1>6, <2>1 DEF Restart, PersistInv, ObjectsSound, CacheIsPast, MapIsAccepted
  <2> QED BY <1>6, <2>2, EndSound DEF Restart, PersistInv
<1>7. ASSUME NEW p, SetNoSchedule(p) \/ RemovePool(p) \/ RemoveNetwork(p) \/ ReconcilePool(p) \/ ReconcileNetwork(p)
      PROVE  PersistInv'
  BY <1>5, <1>7 DEF SetNoSchedule, RemovePool, RemoveNetwork, ReconcilePool, ReconcileNetwork, inMaps, inReconcile
<1>8. CASE UNCHANGED vars
  BY <1>5, <1>8 DEF vars
<1>9. CASE Environment
  BY <1>1, <1>2, <1>3, <1>4, <1>7, <1>9 DEF Environment
<1> QED BY <1>6, <1>7, <1>8, <1>9

\* The steps of a reconcile up to the leases map keep it.
LEMMA PersistIntake ==
    ASSUME TypeOK, PersistInv,
           \/ \E l \in Leases : GetLease(l)
           \/ InitStatus \/ AddFinalizer \/ DropFinalizer
    PROVE  PersistInv'
<1>1. ASSUME NEW l \in Leases, GetLease(l) PROVE PersistInv'
  <2>1. ObjectsSound' /\ CacheIsPast' /\ MapIsAccepted'
    BY <1>1 DEF GetLease, PersistInv, ObjectsSound, CacheIsPast, MapIsAccepted, Ghost, inMaps
  <2>2. pc' \in IntakeSteps
    BY <1>1 DEF GetLease, NextIntake, IntakeSteps
  <2>3. pc' = NextIntake(cache[l]) /\ work' = cache[l] /\ cur' = l /\ Exists(cache[l])
        /\ UNCHANGED <<api, cache>> /\ (stale' = (l \in behind))
    BY <1>1 DEF GetLease
  <2>4. pc' = "admit" => cache[l].finalizer /\ ~cache[l].deleting
    BY <2>3 DEF NextIntake
  <2>5. pc' = "dropFinalizer" => cache[l].deleting
    BY <2>3 DEF NextIntake
  <2>6. pc' = "admit" => api[l].finalizer
    BY <2>4 DEF PersistInv, CacheIsPast
  <2>7. l \notin behind => cache[l] = api[l]
    BY DEF PersistInv, CacheIsPast
  <2>8. IntakeSound'
    BY <2>3, <2>5, <2>6, <2>7 DEF IntakeSound
  <2>9. HandSound'
    BY <2>2 DEF HandSound, MapSteps
  <2> QED BY <2>1, <2>8, <2>9 DEF PersistInv
<1>2. ASSUME NEW step \in IntakeSteps, NEW obj \in LeaseObjects, Intake(step, obj), Sound(obj), Exists(obj),
             api[cur].finalizer => obj.finalizer, NextIntake(obj) \in {"addFinalizer", "admit"}
      PROVE  PersistInv'
  <2>1. pc = step /\ ~stale /\ Write(cur, obj, {}) /\ work' = obj /\ pc' = NextIntake(obj)
        /\ UNCHANGED <<cur, stale, leases>>
    BY <1>2 DEF Intake, WriteSucceeds, Goto, inMaps
  <2>2. cur \in Leases /\ Exists(api[cur])
    BY <2>1, LeasesFinite DEF TypeOK, IntakeSteps, PersistInv, IntakeSound
  <2>3. api[cur].phase # "Gone"
    BY <2>2 DEF Exists, Phases, Terminal
  <2>4. ObjectsSound' /\ CacheIsPast'
    BY <1>2, <2>1, <2>2, <2>3, WriteSound
  <2>5. api' = [api EXCEPT ![cur] = obj]
    BY <2>1 DEF Write
  <2>6. MapIsAccepted'
    BY <1>2, <2>1, <2>2, <2>3, <2>5 DEF PersistInv, MapIsAccepted, Ghost, TypeOK
  <2>7. api'[cur] = obj
    BY <2>2, <2>5 DEF TypeOK
  <2>8. NextIntake(obj) = "admit" => obj.finalizer
    BY DEF NextIntake
  <2>9. IntakeSound'
    BY <1>2, <2>1, <2>7, <2>8 DEF IntakeSound
  <2>10. HandSound'
    BY <1>2, <2>1 DEF HandSound, MapSteps, IntakeSteps
  <2> QED BY <2>4, <2>6, <2>9, <2>10 DEF PersistInv
<1>3. CASE InitStatus
  <2> DEFINE obj == [work EXCEPT !.phase = "Pending", !.conds = Set(@, {"Pending"}, {"Fulfilled", "Partial"})]
  <2>1. Intake("initStatus", obj)
    BY <1>3 DEF InitStatus, Initialised
  <2>2. pc = "initStatus" /\ ~stale
    BY <2>1 DEF Intake, WriteSucceeds
  <2>3. work = api[cur] /\ Exists(work) /\ NextIntake(work) = "initStatus" /\ cur \in Leases
    BY <2>2, LeasesFinite DEF PersistInv, IntakeSound, IntakeSteps, TypeOK
  <2>4. work.phase = "" /\ work \in LeaseObjects /\ Sound(work)
    BY <2>3 DEF NextIntake, PersistInv, ObjectsSound, TypeOK
  <2>5. ~work.finalizer /\ HoldsNothing(work) /\ ~work.deleting /\ work.conds = {}
    BY <2>3, <2>4 DEF Sound, ConditionTypes
  <2>6. obj \in LeaseObjects /\ obj.phase = "Pending" /\ obj.conds = {"Pending"}
        /\ ~obj.finalizer /\ HoldsNothing(obj) /\ ~obj.deleting
    BY <2>4, <2>5 DEF LeaseObjects, Set, ConditionTypes, Phases, HoldsNothing
  <2>7. Exists(obj) /\ Sound(obj)
    BY <2>6 DEF Sound, Exists, Phases, ConditionTypes
  <2>8. NextIntake(obj) = "addFinalizer"
    BY <2>6 DEF NextIntake
  <2> HIDE DEF obj
  <2> QED BY <1>2, <2>1, <2>3, <2>5, <2>6, <2>7, <2>8 DEF IntakeSteps
<1>4. CASE AddFinalizer
  <2> DEFINE obj == [work EXCEPT !.finalizer = TRUE]
  <2>1. Intake("addFinalizer", obj)
    BY <1>4 DEF AddFinalizer, Finalized
  <2>2. pc = "addFinalizer" /\ ~stale
    BY <2>1 DEF Intake, WriteSucceeds
  <2>3. work = api[cur] /\ Exists(work) /\ NextIntake(work) = "addFinalizer" /\ cur \in Leases
    BY <2>2, LeasesFinite DEF PersistInv, IntakeSound, IntakeSteps, TypeOK
  <2>4. work.phase # "" /\ ~work.finalizer /\ work \in LeaseObjects /\ Sound(work)
    BY <2>3 DEF NextIntake, PersistInv, ObjectsSound, TypeOK
  <2>5. ~work.deleting /\ HoldsNothing(work)
    BY <2>3, <2>4 DEF Sound
  <2>6. obj \in LeaseObjects /\ obj.phase = work.phase /\ obj.conds = work.conds
        /\ obj.finalizer /\ HoldsNothing(obj) /\ ~obj.deleting
    BY <2>4, <2>5 DEF LeaseObjects, HoldsNothing
  <2>7. Exists(obj) /\ Sound(obj)
    BY <2>3, <2>4, <2>6 DEF Sound, Exists
  <2>8. NextIntake(obj) = "admit"
    BY <2>4, <2>6 DEF NextIntake
  <2> HIDE DEF obj
  <2> QED BY <1>2, <2>1, <2>6, <2>7, <2>8 DEF IntakeSteps
<1>5. CASE DropFinalizer
  <2>1. /\ pc = "dropFinalizer" /\ ~stale /\ EndReconcile
        /\ WriteAndTriggerLeaseUpdates(cur, NoLease, [leases EXCEPT ![cur] = NoLease])
    BY <1>5 DEF DropFinalizer, WriteSucceeds
  <2>2. cur \in Leases /\ Exists(api[cur]) /\ cache[cur].deleting
    BY <2>1, LeasesFinite DEF TypeOK, PersistInv, IntakeSound, IntakeSteps
  <2>3. PICK touched : Write(cur, NoLease, touched)
    BY <2>1 DEF WriteAndTriggerLeaseUpdates
  <2>4. Sound(NoLease) /\ ~Exists(NoLease) /\ api[cur].phase # "Gone"
    BY <2>2 DEF Sound, NoLease, NewLease, Exists, Phases, Terminal, HoldsNothing, ConditionTypes
  <2>5. ObjectsSound' /\ CacheIsPast'
    BY <2>2, <2>3, <2>4, WriteSound, ObjectTypes
  <2>6. ASSUME NEW m \in Leases, Exists(leases'[m]) PROVE api'[m].finalizer \/ Ghost(m)'
    <3>1. Exists([leases EXCEPT ![cur] = NoLease][m])
      BY <2>1, <2>6, TriggerKeepsMap
    <3>2. m # cur /\ Exists(leases[m])
      BY <2>2, <2>4, <3>1 DEF TypeOK
    <3>3. api'[m] = api[m]
      BY <2>3, <3>2 DEF Write, TypeOK
    <3> QED BY <3>2, <3>3 DEF PersistInv, MapIsAccepted, Ghost
  <2> QED BY <2>1, <2>5, <2>6, EndSound DEF PersistInv, MapIsAccepted
<1> QED BY <1>1, <1>3, <1>4, <1>5

\* Entering the leases map keeps it.
LEMMA PersistAdmit ==
    ASSUME TypeOK, PersistInv, AdmitTerminal \/ failLeaseIfUnsatisfiable \/ AdmitWaiting
    PROVE  PersistInv'
<1>1. pc = "admit" /\ cur \in Leases
  BY LeasesFinite DEF AdmitTerminal, failLeaseIfUnsatisfiable, AdmitWaiting, TypeOK
<1>2. /\ Exists(work) /\ NextIntake(work) = "admit" /\ work \in LeaseObjects
      /\ api[cur].finalizer /\ (~stale => work = api[cur])
  BY <1>1 DEF PersistInv, IntakeSound, IntakeSteps, TypeOK
<1>3. work.phase # "" /\ work.finalizer /\ ~work.deleting
  BY <1>2 DEF NextIntake
<1>4. ~stale => Sound(work)
  BY <1>1, <1>2 DEF PersistInv, ObjectsSound
<1>5. ASSUME NEW obj, SetMem(obj), InMemory, EndReconcile PROVE PersistInv'
  BY <1>1, <1>2, <1>5, InMemorySound, EndSound DEF PersistInv
<1>6. ASSUME NEW obj \in LeaseObjects, NEW step \in {"failRefs", "delay", "pools"}, Admit(obj, step), Exists(obj),
             work.phase \notin Terminal,
             step = "failRefs" => obj.phase = "Failed" /\ obj.conds = {} /\ HoldsNothing(obj),
             step # "failRefs" => /\ obj.phase = work.phase /\ (~stale => obj.conds = work.conds)
                                  /\ obj.pools = work.pools /\ obj.nets = work.nets
      PROVE  PersistInv'
  <2>1. SetMem(obj) /\ InMemory /\ pc' = step /\ UNCHANGED <<cur, stale, api>>
    BY <1>6 DEF Admit, Goto, InMemory
  <2>2. ObjectsSound' /\ CacheIsPast' /\ MapIsAccepted'
    BY <1>1, <1>2, <2>1, InMemorySound
  <2>3. Mem' = obj
    BY <1>1, <2>1 DEF SetMem, Mem, TypeOK
  <2>4. Waiting(work)
    BY <1>2, <1>3, <1>6 DEF Waiting, Exists, Phases
  <2>5. HandSound'
    <3>1. /\ api'[cur].finalizer
          /\ ~stale => Waiting(api'[cur]) /\ ~api'[cur].deleting
      BY <1>2, <1>3, <2>1, <2>4
    <3>2. step # "failRefs" /\ ~stale => StatusKept' /\ RefsKept'
      BY <1>2, <1>6, <2>1, <2>3 DEF StatusKept, RefsKept, PoolsOf
    <3> QED BY <1>6, <2>1, <2>3, <3>1, <3>2 DEF HandSound
  <2>6. IntakeSound'
    BY <1>6, <2>1 DEF IntakeSound, IntakeSteps
  <2> QED BY <2>2, <2>5, <2>6 DEF PersistInv
<1>7. CASE AdmitTerminal
  BY <1>5, <1>7 DEF AdmitTerminal
<1>8. CASE failLeaseIfUnsatisfiable
  <2> DEFINE obj == [NoRefs(work) EXCEPT !.phase = "Failed", !.conds = Set(@, {}, ConditionTypes)]
  <2>1. NoRefs(work) \in LeaseObjects /\ HoldsNothing(NoRefs(work))
    BY <1>2, ObjectTypes DEF NoRefs, HoldsNothing, LeaseObjects
  <2>2. obj \in LeaseObjects /\ obj.phase = "Failed" /\ obj.conds = {} /\ HoldsNothing(obj)
    BY <2>1 DEF LeaseObjects, Set, HoldsNothing, Phases, Terminal
  <2>3. Exists(obj)
    BY <2>2 DEF Exists, Phases, Terminal
  <2>4. Admit(obj, "failRefs") /\ work.phase \notin Terminal
    BY <1>8 DEF failLeaseIfUnsatisfiable
  <2> HIDE DEF obj
  <2> QED BY <1>6, <2>2, <2>3, <2>4
<1>9. CASE AdmitWaiting
  <2> DEFINE obj == [work EXCEPT !.conds = Set(@, {}, {"Fulfilled"})]
  <2>1. work.phase \notin Terminal
    BY <1>9 DEF AdmitWaiting
  <2>2. /\ obj \in LeaseObjects /\ obj.phase = work.phase /\ obj.pools = work.pools /\ obj.nets = work.nets
        /\ obj.conds = work.conds \ {"Fulfilled"}
    BY <1>2 DEF LeaseObjects, Set
  <2>3. ~stale => obj.conds = work.conds
    BY <1>2, <1>4, <2>1, <2>2 DEF Sound, Terminal
  <2>4. Exists(obj)
    BY <1>2, <2>2 DEF Exists
  <2>5. CASE Admit(obj, "delay")
    <3> HIDE DEF obj
    <3> QED BY <1>6, <2>1, <2>2, <2>3, <2>4, <2>5
  <2>6. CASE Admit(work, "pools")
    BY <1>2, <1>6, <2>1, <2>6
  <2>7. CASE SetMem(work) /\ EndReconcile /\ InMemory
    BY <1>5, <2>7
  <2> QED BY <1>9, <2>5, <2>6, <2>7 DEF AdmitWaiting, AdmitOrDelay
<1> QED BY <1>7, <1>8, <1>9

\* The writes of a reconcile from the leases map on keep it.
LEMMA PersistWrites ==
    ASSUME TypeOK, PersistInv,
           \/ WriteError \/ FailRefs \/ FailStatus \/ Delay \/ ReleaseRefs \/ NoPool
           \/ SaveMissing \/ SaveRefs \/ SaveStatus
    PROVE  PersistInv'
<1>1. CASE WriteError
  BY <1>1, EndSound DEF WriteError, PersistInv, ObjectsSound, CacheIsPast, MapIsAccepted, Ghost, inMaps
<1>2. CASE FailRefs \/ SaveRefs
  <2>1. /\ pc \in {"failRefs", "saveRefs"} /\ WriteSucceeds /\ Write(cur, WithRefs, {})
        /\ pc' = IF pc = "failRefs" THEN "failStatus" ELSE "saveStatus"
        /\ UNCHANGED <<leases, cur, stale>>
    BY <1>2 DEF FailRefs, SaveRefs, Goto, inMaps
  <2>2. pc \in MapSteps
    BY <2>1 DEF MapSteps, IntakeSteps, Steps
  <2>3. cur \in Leases /\ api[cur].phase # "Gone" /\ WithRefs \in LeaseObjects /\ WithRefs.finalizer /\ Sound(WithRefs)
    BY <2>1, <2>2, WritesAreSound
  <2>4. ObjectsSound' /\ CacheIsPast'
    BY <2>1, <2>3, WriteSound
  <2>5. MapIsAccepted'
    BY <2>1, <2>3, WriteKeepsMap
  <2>6. api'[cur] = WithRefs /\ Mem' = Mem /\ cur' = cur
    BY <2>1, <2>3 DEF Write, TypeOK, Mem
  <2>7. /\ WithRefs.phase = api[cur].phase /\ WithRefs.deleting = api[cur].deleting
        /\ WithRefs.pools = Mem.pools /\ WithRefs.nets = Mem.nets
    BY <2>3 DEF WithRefs, TypeOK, LeaseObjects
  <2>8. HandSound'
    <3>1. /\ Exists(Mem) /\ Waiting(api[cur]) /\ ~api[cur].deleting
          /\ pc = "failRefs" => Mem.phase = "Failed" /\ Mem.conds = {} /\ HoldsNothing(Mem)
          /\ pc = "saveRefs" => Reported
      BY <2>1, <2>2 DEF PersistInv, HandSound, WriteSucceeds
    <3>2. Waiting(api'[cur]) /\ api'[cur].finalizer /\ ~api'[cur].deleting /\ RefsSaved'
      BY <2>3, <2>6, <2>7, <3>1 DEF Waiting, RefsSaved
    <3>3. Reported => Reported'
      BY <2>6 DEF Reported
    <3> QED BY <2>1, <2>6, <3>1, <3>2, <3>3 DEF HandSound
  <2>9. IntakeSound'
    BY <2>1 DEF IntakeSound, IntakeSteps
  <2> QED BY <2>4, <2>5, <2>8, <2>9 DEF PersistInv
<1>3. ASSUME pc \in {"failStatus", "delay", "noPool", "saveStatus"}, WriteSucceeds, EndReconcile,
             NEW touched, Write(cur, WithStatus, touched),
             \A m \in Leases \ {cur} : Exists(leases'[m]) => Exists(leases[m])
      PROVE  PersistInv'
  <2>1. pc \in MapSteps
    BY <1>3 DEF MapSteps, IntakeSteps, Steps
  <2>2. WithStatus \in LeaseObjects /\ WithStatus.finalizer /\ Sound(WithStatus)
    BY <1>3, <2>1, WritesAreSound
  <2> QED BY <1>3, <2>1, <2>2, LastWriteSound
<1>4. ASSUME WriteAndTriggerLeaseUpdates(cur, WithStatus, leases)
      PROVE  /\ \E touched : Write(cur, WithStatus, touched)
             /\ \A m \in Leases : Exists(leases'[m]) => Exists(leases[m])
  BY <1>4, TriggerKeepsMap DEF WriteAndTriggerLeaseUpdates
<1>5. CASE FailStatus
  BY <1>3, <1>4, <1>5 DEF FailStatus
<1>6. CASE Delay
  BY <1>3, <1>4, <1>6 DEF Delay
<1>7. CASE SaveStatus
  BY <1>3, <1>4, <1>7 DEF SaveStatus
<1>8. CASE NoPool
  <2>1. \A m \in Leases \ {cur} : leases'[m] = leases[m]
    BY <1>8 DEF NoPool, SetMem, TypeOK
  <2> QED BY <1>3, <1>8, <2>1 DEF NoPool
<1>9. CASE ReleaseRefs \/ SaveMissing
  <2>1. pc \in {"releaseRefs", "saveMissing"} /\ WriteSucceeds /\ Write(cur, WithRefs, {}) /\ EndReconcile
    BY <1>9 DEF ReleaseRefs, SaveMissing
  <2>2. pc \in MapSteps
    BY <2>1 DEF MapSteps, IntakeSteps, Steps
  <2>3. WithRefs \in LeaseObjects /\ WithRefs.finalizer /\ Sound(WithRefs)
    BY <2>1, <2>2, WritesAreSound
  <2>4. \A m \in Leases \ {cur} : leases'[m] = leases[m]
    BY <1>9 DEF ReleaseRefs, SaveMissing, SetMem, TypeOK
  <2> QED BY <2>1, <2>2, <2>3, <2>4, LastWriteSound
<1> QED BY <1>1, <1>2, <1>5, <1>6, <1>7, <1>8, <1>9

\* A write whose answer is lost keeps it: the object in the API server is the one of the
\* write that succeeds, and the reconcile ends.
LEMMA PersistLost ==
    ASSUME TypeOK, PersistInv, LostAnswer
    PROVE  PersistInv'
<1>1. /\ "lost" \in Faults /\ pc \in WriteSteps /\ ~stale /\ WriteSucceeds /\ cur \in Leases
      /\ Write(cur, Written, {}) /\ EndReconcile /\ leases' = leases
  BY LeasesFinite DEF LostAnswer, WriteSucceeds, WriteSteps, TypeOK, inMaps
<1>2. CASE pc \in MapSteps
  <2>1. pc \in {"failRefs", "releaseRefs", "saveMissing", "saveRefs", "failStatus", "delay", "noPool", "saveStatus"}
    BY <1>1, <1>2 DEF WriteSteps, MapSteps, IntakeSteps, Steps
  <2>2. Written \in LeaseObjects /\ Sound(Written) /\ Written.finalizer
    BY <1>1, <1>2, <2>1, WritesAreSound DEF Written
  <2> QED BY <1>1, <1>2, <2>2, LastWriteSound
<1>3. CASE pc \in IntakeSteps
  <2>1. /\ work = api[cur] /\ Exists(work) /\ pc = NextIntake(work) /\ Sound(work) /\ work \in LeaseObjects
        /\ pc = "dropFinalizer" => cache[cur].deleting
    BY <1>1, <1>3 DEF PersistInv, IntakeSound, ObjectsSound, TypeOK
  <2>2. api[cur].phase # "Gone"
    BY <2>1 DEF Exists, Phases, Terminal
  <2>3. pc \in {"initStatus", "addFinalizer", "dropFinalizer"}
    BY <1>1, <1>3 DEF WriteSteps, IntakeSteps
  <2>4. /\ Written \in LeaseObjects /\ Sound(Written)
        /\ Written = NoLease \/ (work.finalizer => Written.finalizer)
    <3>1. CASE pc = "initStatus"
      <4>1. /\ Written = Initialised /\ work.phase = "" /\ ~work.finalizer
            /\ HoldsNothing(work) /\ ~work.deleting /\ work.conds = {}
        BY <2>1, <3>1 DEF Written, NextIntake, Sound, ConditionTypes
      <4>2. /\ Initialised \in LeaseObjects /\ Initialised.phase = "Pending" /\ Initialised.conds = {"Pending"}
            /\ ~Initialised.finalizer /\ HoldsNothing(Initialised) /\ ~Initialised.deleting
        BY <2>1, <4>1 DEF Initialised, LeaseObjects, Set, ConditionTypes, Phases, HoldsNothing
      <4> QED BY <4>1, <4>2 DEF Sound, Exists, Phases, ConditionTypes
    <3>2. CASE pc = "addFinalizer"
      <4>1. Written = Finalized /\ work.phase # "" /\ ~work.finalizer /\ ~work.deleting /\ HoldsNothing(work)
        BY <2>1, <3>2 DEF Written, NextIntake, Sound
      <4>2. /\ Finalized \in LeaseObjects /\ Finalized.phase = work.phase /\ Finalized.conds = work.conds
            /\ Finalized.finalizer /\ HoldsNothing(Finalized) /\ ~Finalized.deleting
        BY <2>1, <4>1 DEF Finalized, LeaseObjects, HoldsNothing
      <4> QED BY <2>1, <4>1, <4>2 DEF Sound, Exists
    <3>3. CASE pc = "dropFinalizer"
      <4>1. Written = NoLease
        BY <3>3 DEF Written
      <4> QED BY <4>1, ObjectTypes
              DEF Sound, NoLease, NewLease, Exists, Phases, Terminal, HoldsNothing, ConditionTypes
    <3> QED BY <2>3, <3>1, <3>2, <3>3
  <2>5. Written = NoLease => cache[cur].deleting
    <3>1. NoLease.phase = "Gone" /\ Exists(work)
      BY <2>1 DEF NoLease, NewLease
    <3>2. pc # "dropFinalizer" => Written.phase \in {"Pending", work.phase}
      BY <2>1, <2>3 DEF Written, Initialised, Finalized, LeaseObjects
    <3> QED BY <2>1, <2>2, <3>1, <3>2
  <2>6. ObjectsSound' /\ CacheIsPast'
    BY <1>1, <2>1, <2>2, <2>4, <2>5, WriteSound
  <2>7. api' = [api EXCEPT ![cur] = Written]
    BY <1>1 DEF Write
  <2>8. MapIsAccepted'
    <3>1. \A m \in Leases \ {cur} : api'[m] = api[m]
      BY <2>7 DEF TypeOK
    <3>2. api'[cur] = Written /\ NoLease.phase = "Gone"
      BY <1>1, <2>7 DEF TypeOK, NoLease, NewLease
    <3> QED BY <1>1, <2>1, <2>2, <2>4, <3>1, <3>2 DEF PersistInv, MapIsAccepted, Ghost
  <2> QED BY <1>1, <2>6, <2>8, EndSound DEF PersistInv
<1> QED BY <1>1, <1>2, <1>3 DEF WriteSteps, MapSteps

\* The iterations of the two loops keep it: they add to what the object in hand has.
LEMMA PersistLoops ==
    ASSUME TypeOK, PersistInv,
           AssignPool \/ ReleasePools \/ NoPoolFits \/ PoolsDone \/ AssignNetworks \/ NetworksDone
    PROVE  PersistInv'
<1>1. pc \in {"pools", "networks"} /\ pc \in MapSteps /\ cur \in Leases /\ Mem \in LeaseObjects
  BY LeasesFinite DEF AssignPool, ReleasePools, NoPoolFits, PoolsDone, AssignNetworks, NetworksDone,
     TypeOK, MapSteps, IntakeSteps, Steps, Mem
<1>2. Exists(Mem) /\ api[cur].finalizer
  BY <1>1 DEF PersistInv, HandSound
<1>3. ~stale => /\ Waiting(api[cur]) /\ ~api[cur].deleting
                /\ StatusKept /\ RefsKept
                /\ pc = "networks" => Mem.pools # <<>>
  BY <1>1 DEF PersistInv, HandSound
<1>4. ASSUME NEW obj \in LeaseObjects, NEW step \in {"pools", "releaseRefs", "networks", "saveMissing", "saveRefs"},
             SetMem(obj), InMemory, pc' = step, UNCHANGED <<cur, stale>>, Exists(obj),
             step # "saveRefs" => obj.phase = Mem.phase /\ obj.conds = Mem.conds,
             step = "releaseRefs" => HoldsNothing(obj),
             step # "releaseRefs" => PoolsOf(Mem) \subseteq PoolsOf(obj) /\ Mem.nets \subseteq obj.nets,
             ~stale /\ step \in {"networks", "saveMissing"} => obj.pools # <<>>,
             ~stale /\ step = "saveRefs" => /\ obj.phase \in {"Partial", "Fulfilled"} /\ obj.conds = {obj.phase}
                                            /\ obj.pools # <<>> /\ obj.nets # {}
      PROVE  PersistInv'
  <2>1. ObjectsSound' /\ CacheIsPast' /\ MapIsAccepted'
    BY <1>1, <1>2, <1>4, InMemorySound
  <2>2. Mem' = obj /\ api' = api /\ cur' = cur
    BY <1>1, <1>4 DEF SetMem, Mem, TypeOK, InMemory
  <2>3. HandSound'
    <3>1. ~stale /\ step # "saveRefs" => StatusKept'
      BY <1>3, <1>4, <2>2 DEF StatusKept
    <3>2. ~stale /\ step # "releaseRefs" => RefsKept'
      BY <1>3, <1>4, <2>2 DEF RefsKept
    <3>3. ~stale /\ step = "saveRefs" => Reported'
      BY <1>4, <2>2 DEF Reported
    <3> QED BY <1>2, <1>3, <1>4, <2>2, <3>1, <3>2, <3>3 DEF HandSound
  <2>4. IntakeSound'
    BY <1>4 DEF IntakeSound, IntakeSteps
  <2> QED BY <2>1, <2>3, <2>4 DEF PersistInv
<1>5. CASE AssignPool
  <2>1. PICK excluded \in Exclusions : \E p \in Candidates(excluded) : SetMem([Mem EXCEPT !.pools = Append(@, p)])
    BY <1>5 DEF AssignPool
  <2>2. PICK p \in Candidates(excluded) : SetMem([Mem EXCEPT !.pools = Append(@, p)])
    BY <2>1
  <2> DEFINE obj == [Mem EXCEPT !.pools = Append(@, p)]
  <2>3. p \in Pools /\ Mem.pools \in Seq(Pools)
    BY <1>1, <2>2, PickIsKnown DEF LeaseObjects, TypeOK
  <2>4. PoolsOf(Mem) \subseteq PoolsOf(obj) /\ obj.pools \in Seq(Pools)
    <3>1. obj.pools = Append(Mem.pools, p)
      BY <1>1 DEF LeaseObjects
    <3> QED BY <2>3, <3>1, AppendMembers DEF PoolsOf
  <2>5. /\ obj \in LeaseObjects /\ obj.phase = Mem.phase /\ obj.conds = Mem.conds /\ obj.nets = Mem.nets
    BY <1>1, <2>4 DEF LeaseObjects
  <2>6. pc = "pools" /\ InMemory /\ UNCHANGED <<cur, pc, stale>>
    BY <1>5 DEF AssignPool, inReconcile
  <2>7. Exists(obj)
    BY <1>2, <2>5 DEF Exists
  <2> HIDE DEF obj
  <2> QED BY <1>4, <2>2, <2>4, <2>5, <2>6, <2>7 DEF obj
<1>6. CASE ReleasePools
  <2>1. SetMem(NoRefs(Mem)) /\ pc' = "releaseRefs" /\ InMemory /\ UNCHANGED <<cur, stale>>
    BY <1>6 DEF ReleasePools, Goto
  <2>2. /\ NoRefs(Mem) \in LeaseObjects /\ HoldsNothing(NoRefs(Mem))
        /\ NoRefs(Mem).phase = Mem.phase /\ NoRefs(Mem).conds = Mem.conds
    BY <1>1, ObjectTypes DEF NoRefs, LeaseObjects, HoldsNothing
  <2>3. Exists(NoRefs(Mem))
    BY <1>2, <2>2 DEF Exists
  <2> QED BY <1>4, <2>1, <2>2, <2>3
<1>7. CASE NoPoolFits
  <2>1. /\ pc = "pools" /\ pc' = "noPool"
        /\ UNCHANGED <<api, cache, behind, leases, cur, stale>>
    BY <1>7 DEF NoPoolFits, Goto, InMemory
  <2>2. ObjectsSound' /\ CacheIsPast' /\ MapIsAccepted'
    BY <2>1 DEF PersistInv, ObjectsSound, CacheIsPast, MapIsAccepted, Ghost
  <2>3. HandSound'
    BY <1>2, <1>3, <2>1 DEF HandSound, StatusKept, RefsKept, Mem
  <2>4. IntakeSound'
    BY <2>1 DEF IntakeSound, IntakeSteps
  <2> QED BY <2>2, <2>3, <2>4 DEF PersistInv
<1>8. CASE PoolsDone
  <2> DEFINE obj == [Mem EXCEPT !.name = PoolSpec[Mem.pools[1]].name]
  <2>1. SetMem(obj) /\ pc' = "networks" /\ InMemory /\ UNCHANGED <<cur, stale>>
    BY <1>8 DEF PoolsDone
  <2>2. Assigned # {}
    <3>1. requiredPools(Asked) \in Nat \ {0} /\ Cardinality({}) = 0
      BY <1>1, requiredPoolsPositive, FS_EmptySet DEF Asked
    <3> QED BY <1>8, <3>1 DEF PoolsDone, Incomplete
  <2>3. Mem.pools \in Seq(Pools) /\ Mem.pools # <<>> /\ Mem.pools[1] \in Pools
    BY <1>1, <2>2, MembersType DEF Assigned, PoolsOf, LeaseObjects
  <2>4. /\ obj \in LeaseObjects /\ obj.phase = Mem.phase /\ obj.conds = Mem.conds
        /\ obj.pools = Mem.pools /\ obj.nets = Mem.nets
    BY <1>1, <2>3 DEF LeaseObjects
  <2>5. Exists(obj) /\ PoolsOf(obj) = PoolsOf(Mem)
    BY <1>2, <2>4 DEF Exists, PoolsOf
  <2> HIDE DEF obj
  <2> QED BY <1>4, <2>1, <2>3, <2>4, <2>5
<1>9. CASE AssignNetworks
  <2>1. PICK S : S \in SUBSET loaded /\ SetMem([Mem EXCEPT !.nets = @ \cup S])
    BY <1>9, NetworksAreLoaded
  <2> DEFINE obj == [Mem EXCEPT !.nets = @ \cup S]
  <2>2. pc = "networks" /\ InMemory /\ UNCHANGED <<cur, pc, stale>>
    BY <1>9 DEF AssignNetworks
  <2>3. /\ obj \in LeaseObjects /\ obj.phase = Mem.phase /\ obj.conds = Mem.conds
        /\ obj.pools = Mem.pools /\ Mem.nets \subseteq obj.nets
    BY <1>1, <2>1 DEF LeaseObjects, TypeOK
  <2>4. Exists(obj) /\ PoolsOf(obj) = PoolsOf(Mem)
    BY <1>2, <2>3 DEF Exists, PoolsOf
  <2> HIDE DEF obj
  <2> QED BY <1>3, <1>4, <2>1, <2>2, <2>3, <2>4 DEF obj
<1>10. CASE NetworksDone
  <2>1. PICK phase \in {"Partial", "Fulfilled"} : SetMem(IF Missing THEN Mem ELSE WithPhase(Mem, phase))
    BY <1>10 DEF NetworksDone
  <2>2. /\ pc = "networks" /\ pc' = IF Missing THEN "saveMissing" ELSE "saveRefs"
        /\ InMemory /\ UNCHANGED <<cur, stale>>
    BY <1>10 DEF NetworksDone, Goto
  <2>3. CASE Missing
    BY <1>1, <1>2, <1>3, <1>4, <2>1, <2>2, <2>3
  <2>4. CASE ~Missing
    <3> DEFINE obj == WithPhase(Mem, phase)
    <3>1. /\ obj \in LeaseObjects /\ obj.phase = phase /\ obj.conds = {phase}
          /\ obj.pools = Mem.pools /\ obj.nets = Mem.nets
      BY <1>1, ObjectTypes DEF WithPhase, LeaseObjects, Set, ConditionTypes
    <3>2. Exists(obj) /\ PoolsOf(obj) = PoolsOf(Mem)
      BY <3>1 DEF Exists, Phases, Terminal, PoolsOf
    <3>3. ~stale => Mem.nets # {}
      <4> SUFFICES ASSUME ~stale PROVE Mem.nets # {}
        OBVIOUS
      <4>1. Mem.pools # <<>> /\ Mem.pools \in Seq(Pools)
        BY <1>1, <1>3, <2>2 DEF LeaseObjects
      <4>2. Mem.pools[1] \in Assigned
        BY <4>1, MembersType, EmptySeq DEF Assigned, PoolsOf
      <4> QED BY <2>4, <4>2 DEF Missing, poolMissingNetworks
    <3> HIDE DEF obj
    <3> QED BY <1>3, <1>4, <2>1, <2>2, <2>4, <3>1, <3>2, <3>3 DEF obj
  <2> QED BY <2>3, <2>4
<1> QED BY <1>5, <1>6, <1>7, <1>8, <1>9, <1>10

\* The invariant is inductive, with every fault and every deletion.
LEMMA PersistStep == TypeOK /\ PersistInv /\ [Next]_vars => PersistInv'
BY PersistOthers, PersistIntake, PersistAdmit, PersistWrites, PersistLost, PersistLoops DEF Next, Reconcile

\* It holds initially.
LEMMA PersistInit == Init => PersistInv
<1> SUFFICES ASSUME Init PROVE PersistInv
  OBVIOUS
<1>1. Sound(Uncreated) /\ ~Exists(NoLease)
  BY DEF Sound, Uncreated, NoLease, NewLease, Exists, Phases, Terminal, HoldsNothing, ConditionTypes
<1>2. ObjectsSound /\ CacheIsPast /\ MapIsAccepted
  BY <1>1 DEF Init, ObjectsSound, CacheIsPast, MapIsAccepted
<1> QED BY <1>2 DEF Init, PersistInv, IntakeSound, HandSound, IntakeSteps, MapSteps

\* The invariant holds of every history.
LEMMA PersistHolds == Spec => []PersistInv
BY PersistInit, PersistStep, TypeCorrect, PTL DEF Spec

----------------------------------------------------------------------------
(* What it gives to a lease's owner.                                       *)

\* A lease that reports Failed owns nothing, whatever fails, dies or lags between the
\* write that drops its references and the one that reports it.
THEOREM FailedHoldsNothingHolds == Spec => []FailedHoldsNothing
<1>1. PersistInv => FailedHoldsNothing
  BY DEF PersistInv, ObjectsSound, Sound, FailedHoldsNothing, HoldsNothing
<1> QED BY <1>1, PersistHolds, PTL

\* The conditions of a lease, set in several places of several reconciles, always say
\* what its phase says.
THEOREM ConditionsMatchPhaseHolds == Spec => []ConditionsMatchPhase
<1>1. PersistInv => ConditionsMatchPhase
  BY DEF PersistInv, ObjectsSound, Sound, ConditionsMatchPhase
<1> QED BY <1>1, PersistHolds, PTL

\* The leases map holds nothing for a lease that is gone, even when it is read from a
\* cache that still has it, as long as no answer of the API server is lost: the one that
\* says the finalizer is gone has to arrive for the entry to go.
THEOREM NoGhostOwnersHolds ==
    ASSUME "lost" \notin Faults
    PROVE  Spec => []NoGhostOwners
<1>1. PersistInv => NoGhostOwners
  BY DEF PersistInv, ObjectsSound, MapIsAccepted, Ghost, Sound, NoGhostOwners
<1> QED BY <1>1, PersistHolds, PTL
============================================================================
