------------------------- MODULE LeaseSiblingProofs -------------------------
(***************************************************************************)
(* Proofs that the leases of one job converge on the same port group.      *)
(***************************************************************************)
EXTENDS LeaseExclusionProofs, LeaseNetworkProofs

\* The circumstances of the theorem, besides those of the exclusion of leases and of one
\* network per pool: a VLAN goes by one port group name wherever it is stretched to.  The
\* first pool of a lease follows the port groups of a sibling, the others its VLAN.
OnePortGroupPerVlan ==
    \A n, m \in Networks : SameVlan(n, m) => NetworkSpec[n].portGroup = NetworkSpec[m].portGroup
OneJobOnePortGroup == Calm /\ OneNetworkEach /\ OnePortGroupPerVlan

----------------------------------------------------------------------------
(* The inductive invariant.                                                *)

\* A lease and its siblings have networks of a single port group in the map, where they
\* look for each other's networks: also those that a failed write left there.
Converging(n, m) == NetworkSpec[n].portGroup = NetworkSpec[m].portGroup
MapConverges ==
    \A l, m \in Leases : l = m \/ Siblings(l, m) =>
        \A n \in leases[l].nets, k \in leases[m].nets : Converging(n, k)

\* A sibling with networks is found in the map.
EntriesExist == \A l \in Leases : leases[l].nets # {} => Exists(leases[l])

\* The object in hand is on one VLAN even if its next write is going to be refused: it is
\* in the map all the same.
HandOnOneVlan ==
    /\ pc \in IntakeSteps => OneVlan(cur, work)
    /\ pc \in PoolSteps => OneVlan(cur, Mem)

SiblingInv == MapConverges /\ EntriesExist /\ HandOnOneVlan

\* What is known of every state.
Known == TypeOK /\ PersistInv /\ CalmInv /\ VlanInv /\ SiblingInv

----------------------------------------------------------------------------
(* Entries of the map.                                                     *)

\* A step that writes a new object for its own lease, and may refresh the others.
LEMMA RefreshedExist ==
    ASSUME NEW l, NEW obj, NEW map, WriteAndTriggerLeaseUpdates(l, obj, map)
    PROVE  \A m \in Leases : Exists(leases'[m]) \/ leases'[m] = map[m]
BY DEF WriteAndTriggerLeaseUpdates

\* Every step leaves an entry alone, puts an existing lease there or forgets the lease.
LEMMA EntriesStay ==
    ASSUME Calm, TypeOK, PersistInv, CalmInv, [Next]_vars
    PROVE  \A l \in Leases : leases'[l] = leases[l] \/ Exists(leases'[l]) \/ leases'[l] = NoLease
<1> DEFINE Goal == \A l \in Leases : leases'[l] = leases[l] \/ Exists(leases'[l]) \/ leases'[l] = NoLease
<1>1. ASSUME pc # "idle" PROVE cur \in Leases /\ Mem \in LeaseObjects /\ api[cur] \in LeaseObjects
  BY <1>1, LeasesFinite DEF TypeOK, Mem
<1>2. ASSUME NEW obj, pc # "idle", SetMem(obj), Exists(obj) PROVE Goal
  BY <1>1, <1>2 DEF SetMem, TypeOK
<1>3. ASSUME leases' = leases PROVE Goal
  BY <1>3
<1>4. pc \in MapSteps => Exists(Mem) /\ (~stale => Waiting(api[cur]))
  BY DEF PersistInv, HandSound
<1>5. CASE \/ Environment
           \/ \E p \in Pools : ReconcilePool(p)
           \/ \E n \in Networks : ReconcileNetwork(n)
           \/ UNCHANGED vars
  BY <1>3, <1>5, OthersKeepHand
<1>6. CASE \/ \E l \in Leases : GetLease(l)
           \/ WriteError \/ LostAnswer \/ InitStatus \/ AddFinalizer \/ NoPoolFits \/ FailRefs \/ SaveRefs
  BY <1>3, <1>6 DEF GetLease, WriteError, LostAnswer, InitStatus, AddFinalizer, Intake, NoPoolFits, FailRefs,
                    SaveRefs, inMaps
<1>7. CASE DropFinalizer
  <2> DEFINE map == [leases EXCEPT ![cur] = NoLease]
  <2>1. WriteAndTriggerLeaseUpdates(cur, NoLease, map)
    BY <1>7 DEF DropFinalizer
  <2>2. \A m \in Leases : map[m] = leases[m] \/ map[m] = NoLease
    BY DEF TypeOK
  <2> HIDE DEF map
  <2> QED BY <2>1, <2>2, RefreshedExist
<1>8. CASE FailStatus \/ Delay \/ SaveStatus
  <2>1. leases' = leases \/ WriteAndTriggerLeaseUpdates(cur, WithStatus, leases)
    BY <1>8 DEF FailStatus, Delay, SaveStatus
  <2> QED BY <1>3, <2>1, RefreshedExist
<1>9. CASE AdmitTerminal \/ AdmitWaiting \/ failLeaseIfUnsatisfiable
  <2> DEFINE wait == [work EXCEPT !.conds = Set(@, {}, {"Fulfilled"})]
             fail == [NoRefs(work) EXCEPT !.phase = "Failed", !.conds = Set(@, {}, ConditionTypes)]
  <2>1. pc = "admit" /\ (SetMem(work) \/ SetMem(wait) \/ SetMem(fail))
    BY <1>9 DEF AdmitTerminal, AdmitWaiting, AdmitOrDelay, failLeaseIfUnsatisfiable, Admit
  <2>2. Exists(work) /\ work \in LeaseObjects
    BY <2>1 DEF PersistInv, IntakeSound, IntakeSteps, TypeOK
  <2>3. wait.phase = work.phase
    BY <2>2 DEF LeaseObjects
  <2>4. fail.phase = "Failed"
    BY <2>2 DEF LeaseObjects, NoRefs
  <2>5. Exists(wait) /\ Exists(fail)
    BY <2>2, <2>3, <2>4 DEF Exists, Phases, Terminal
  <2> HIDE DEF wait, fail
  <2> QED BY <1>2, <2>1, <2>2, <2>5
<1>10. CASE AssignPool \/ PoolsDone \/ AssignNetworks
  <2>1. pc # "idle" /\ pc \in MapSteps
    BY <1>10 DEF AssignPool, PoolsDone, AssignNetworks, MapSteps, Steps, IntakeSteps
  <2>2. PICK obj : SetMem(obj) /\ obj.phase = Mem.phase
    <3>1. CASE AssignPool
      <4>1. PICK p : SetMem([Mem EXCEPT !.pools = Append(@, p)])
        BY <3>1 DEF AssignPool
      <4> QED BY <1>1, <2>1, <4>1 DEF LeaseObjects
    <3>2. CASE PoolsDone
      <4>1. SetMem([Mem EXCEPT !.name = PoolSpec[Mem.pools[1]].name])
        BY <3>2 DEF PoolsDone
      <4> QED BY <1>1, <2>1, <4>1 DEF LeaseObjects
    <3>3. CASE AssignNetworks
      <4>1. PICK S : SetMem([Mem EXCEPT !.nets = @ \cup S])
        BY <3>3, NetworksAreLoaded
      <4> QED BY <1>1, <2>1, <4>1 DEF LeaseObjects
    <3> QED BY <1>10, <3>1, <3>2, <3>3
  <2>3. Exists(obj)
    BY <1>4, <2>1, <2>2 DEF Exists
  <2> QED BY <1>2, <2>1, <2>2, <2>3
<1>11. CASE NetworksDone
  <2> DEFINE done == ~Incomplete /\ AllPoolsHaveNetworks(Assigned, Mem.nets, Asked.networks, loaded)
             obj  == WithPhase(Mem, IF done THEN "Fulfilled" ELSE "Partial")
  <2>1. SetMem(IF Missing THEN Mem ELSE obj) /\ pc # "idle" /\ pc \in MapSteps
    BY <1>11 DEF NetworksDone, MapSteps, Steps, IntakeSteps
  <2>2. obj.phase \in {"Fulfilled", "Partial"}
    BY <1>1, <2>1 DEF WithPhase, LeaseObjects
  <2>3. Exists(obj) /\ Exists(Mem)
    BY <1>4, <2>1, <2>2 DEF Exists, Phases, Terminal
  <2> HIDE DEF obj
  <2> QED BY <1>2, <2>1, <2>3
<1>12. CASE NoPool \/ SaveMissing
  <2>1. /\ pc # "idle" /\ pc \in MapSteps /\ ~stale
        /\ SetMem(Decoded(Mem, WithStatus)) \/ SetMem(Decoded(Mem, WithRefs))
    BY <1>12 DEF NoPool, SaveMissing, WriteSucceeds, MapSteps, Steps, IntakeSteps
  <2>2. WithStatus.phase = Mem.phase /\ WithRefs.phase = api[cur].phase /\ WithStatus \in LeaseObjects /\ WithRefs \in LeaseObjects
    BY <1>1, <2>1 DEF WithStatus, WithRefs, LeaseObjects
  <2>3. ASSUME NEW obj \in LeaseObjects PROVE Decoded(Mem, obj).phase = obj.phase
    BY DEF Decoded, LeaseObjects
  <2>4. Exists(Decoded(Mem, WithStatus)) /\ Exists(Decoded(Mem, WithRefs))
    BY <1>4, <2>1, <2>2, <2>3 DEF Exists, Waiting, Phases
  <2> QED BY <1>2, <2>1, <2>4
<1>13. ~ReleasePools /\ ~ReleaseRefs /\ ~Restart
  BY NothingIsReleased DEF Restart, Calm
<1>14. CASE Reconcile
  BY <1>6, <1>7, <1>8, <1>9, <1>10, <1>11, <1>12, <1>13, <1>14 DEF Reconcile
<1> QED BY <1>5, <1>13, <1>14 DEF Next

\* Only the network loop gives networks, also in the map.
LEMMA OnlyNetworkLoopGives ==
    ASSUME Calm, TypeOK, PersistInv, CalmInv, [Next]_vars
    PROVE  (\A l \in Leases : leases'[l].nets \subseteq leases[l].nets) \/ AssignNetworks
<1>1. CASE MapLoses
  BY <1>1 DEF MapLoses, Within
<1>2. CASE AssignPool
  <2>1. cur \in Leases /\ Mem \in LeaseObjects
    BY <1>2, LeasesFinite DEF TypeOK, AssignPool, Mem
  <2>2. PICK p : SetMem([Mem EXCEPT !.pools = Append(@, p)])
    BY <1>2 DEF AssignPool
  <2>3. leases'[cur].nets = leases[cur].nets
    BY <2>1, <2>2 DEF SetMem, TypeOK, LeaseObjects, Mem
  <2>4. \A l \in Leases \ {cur} : leases'[l] = leases[l]
    BY <2>2 DEF SetMem, TypeOK
  <2> QED BY <2>3, <2>4
<1> QED BY <1>1, <1>2, OnlyLoopsGive

\* So an entry with networks is one of an existing lease.
LEMMA EntriesExistStep ==
    ASSUME Calm, Known, [Next]_vars
    PROVE  EntriesExist'
<1> SUFFICES ASSUME NEW l \in Leases, leases'[l].nets # {} PROVE Exists(leases'[l])
  BY DEF EntriesExist
<1>1. leases'[l] = leases[l] \/ Exists(leases'[l]) \/ leases'[l] = NoLease
  BY EntriesStay DEF Known
<1>2. NoLease.nets = {}
  BY BlankObjects
<1> QED BY <1>1, <1>2 DEF Known, SiblingInv, EntriesExist

----------------------------------------------------------------------------
(* The networks of siblings.                                               *)

\* The first pool of a lease with siblings that have networks takes networks of the port
\* groups of one of them.
LEMMA FirstFollowsSibling ==
    ASSUME NEW l \in Leases, NEW p, NEW first, NEW avail \in ConsideredNetworks(l, p, first), NEW n \in avail,
           SiblingNetworks(l) # {}
    PROVE  \E s \in Leases : Siblings(l, s) /\ \E j \in leases[s].nets : Converging(n, j)
<1> DEFINE type == LeaseSpec[l].networkType
<1>1. PICK c \in SiblingNetworks(l) : avail = resolveCommonNetworksForPool(c, p, type, loaded, OwnedNetworks)
  BY DEF ConsideredNetworks
<1>2. PICK j \in c : Converging(n, j)
  <2>1. n \in c \/ NetworkSpec[n].portGroup \in PortGroups(c)
    BY <1>1 DEF resolveCommonNetworksForPool
  <2> QED BY <2>1 DEF PortGroups, Converging
<1>3. PICK s \in Leases : Siblings(l, s) /\ c = leases[s].nets \cap loaded
  BY <1>1 DEF SiblingNetworks
<1> QED BY <1>2, <1>3

\* A sibling that has networks is seen.
LEMMA SiblingIsSeen ==
    ASSUME TypeOK, VlanInv, EntriesExist, NEW l \in Leases, NEW m \in Leases, Siblings(l, m), leases[m].nets # {}
    PROVE  SiblingNetworks(l) # {}
<1>1. Exists(leases[m]) /\ leases[m].nets \cap loaded # {}
  BY DEF EntriesExist, VlanInv, TypeOK, LeaseObjects
<1>2. leases[m].nets \cap loaded \in SiblingNetworks(l)
  BY <1>1 DEF SiblingNetworks
<1> QED BY <1>2

\* The siblings of a job are siblings of each other.
LEMMA SiblingsOfOneJob ==
    /\ \A l, m : Siblings(l, m) => Siblings(m, l)
    /\ \A l, m, s : Siblings(l, m) /\ Siblings(l, s) => m = s \/ Siblings(m, s)
BY DEF Siblings

\* What the network loop gives has the port group of everything that the lease and its
\* siblings have, and of everything else that is given with it.
LEMMA GivenConverge ==
    ASSUME OneJobOnePortGroup, Known, AssignNetworks,
           NEW S, SetMem([Mem EXCEPT !.nets = @ \cup S]),
           NEW avail \in ConsideredNetworks(cur, Mem.pools[poolIdx], poolIdx = 1),
           S \in NetworkPicks(poolIdx = 1, Mem.pools[poolIdx], Mem.nets, avail, Asked.networks, loaded)
    PROVE  /\ \A n, k \in S : Converging(n, k)
           /\ \A m \in Leases : m = cur \/ Siblings(cur, m) =>
                 \A n \in S, k \in leases[m].nets : Converging(n, k)
<1> DEFINE p     == Mem.pools[poolIdx]
           first == poolIdx = 1
<1> USE DEF Known
<1>1. cur \in Leases /\ Mem \in LeaseObjects /\ pc \in PoolSteps
  BY LeasesFinite DEF TypeOK, AssignNetworks, Mem, PoolSteps
<1>2. OneVlan(cur, Mem) /\ MapConverges /\ EntriesExist
  BY <1>1 DEF SiblingInv, HandOnOneVlan
<1>3. CASE S = {}
  BY <1>3
<1>4. CASE S # {}
  <2>1. loaded = Networks /\ Mem.nets \in SUBSET Networks
    BY <1>1 DEF VlanInv, LeaseObjects
  <2>2. Asked.networks \in Nat /\ Asked.networks <= 1
    BY <1>1, ReconcilerLeaseSpecType DEF OneJobOnePortGroup, OneNetworkEach, Asked
  <2>3. avail \in SUBSET Networks
    <3>1. avail \subseteq getNetworksForPool(p, loaded)
      BY ConsideredAreThePools
    <3> QED BY <2>1, <3>1 DEF getNetworksForPool
  <2>4. /\ S \subseteq avail
        /\ first => Mem.nets \cap getNetworksForPool(p, Networks) = {} /\ \A n, m \in S : n = m
        /\ ~first => \A n \in S : \E m \in Mem.nets : SameVlan(n, m)
    <3>1. first \in BOOLEAN /\ S \in NetworkPicks(first, p, Mem.nets, avail, Asked.networks, Networks)
      BY <2>1
    <3> HIDE DEF p, first
    <3> QED BY <1>4, <2>1, <2>2, <2>3, <3>1, PicksFollow
  <2>5. CASE first
    <3>1. Mem.nets = {}
      <4>1. Mem.pools \in Seq(Pools) /\ poolIdx <= Len(Mem.pools)
        BY <1>1 DEF AssignNetworks, LeaseObjects
      <4>2. p = Mem.pools[1] /\ Mem.pools # <<>>
        BY <2>5, <4>1, EmptySeq
      <4> QED BY <1>2, <2>4, <2>5, <4>2 DEF OneVlan
    <3>2. ASSUME NEW m \in Leases, Siblings(cur, m), NEW n \in S, NEW k \in leases[m].nets PROVE Converging(n, k)
      <4>1. SiblingNetworks(cur) # {}
        BY <1>1, <1>2, <3>2, SiblingIsSeen
      <4>2. PICK s \in Leases : Siblings(cur, s) /\ \E j \in leases[s].nets : Converging(n, j)
        BY <1>1, <2>4, <3>2, <4>1, FirstFollowsSibling
      <4>3. PICK j \in leases[s].nets : Converging(n, j)
        BY <4>2
      <4>4. s = m \/ Siblings(s, m)
        BY <3>2, <4>2, SiblingsOfOneJob
      <4>5. Converging(j, k)
        BY <1>2, <3>2, <4>3, <4>4 DEF MapConverges
      <4> QED BY <4>3, <4>5 DEF Converging
    <3> QED BY <2>4, <2>5, <3>1, <3>2 DEF Converging, Mem
  <2>6. CASE ~first
    <3>1. ASSUME NEW n \in S PROVE \E j \in Mem.nets : Converging(n, j)
      <4>1. PICK j \in Mem.nets : SameVlan(n, j)
        BY <2>4, <2>6
      <4>2. n \in Networks /\ j \in Networks
        BY <2>1, <2>3, <2>4
      <4> QED BY <4>1, <4>2 DEF OneJobOnePortGroup, OnePortGroupPerVlan, Converging
    <3>2. ASSUME NEW m \in Leases, m = cur \/ Siblings(cur, m), NEW n \in S, NEW k \in leases[m].nets
          PROVE  Converging(n, k)
      <4>1. PICK j \in Mem.nets : Converging(n, j)
        BY <3>1
      <4>2. Converging(j, k)
        BY <1>1, <1>2, <3>2, <4>1 DEF MapConverges, Mem
      <4> QED BY <4>1, <4>2 DEF Converging
    <3>3. \A n, k \in S : Converging(n, k)
      BY <1>1, <3>1, <3>2 DEF Converging, Mem
    <3> QED BY <3>2, <3>3
  <2> QED BY <2>5, <2>6
<1> QED BY <1>3, <1>4

\* The map converges.
LEMMA MapConvergesStep ==
    ASSUME OneJobOnePortGroup, Known, [Next]_vars
    PROVE  MapConverges'
<1>1. CASE \A l \in Leases : leases'[l].nets \subseteq leases[l].nets
  BY <1>1 DEF Known, SiblingInv, MapConverges
<1>2. CASE AssignNetworks
  <2>1. cur \in Leases /\ Mem \in LeaseObjects
    BY <1>2, LeasesFinite DEF Known, TypeOK, AssignNetworks, Mem
  <2>2. PICK avail \in ConsideredNetworks(cur, Mem.pools[poolIdx], poolIdx = 1) :
          \E S \in NetworkPicks(poolIdx = 1, Mem.pools[poolIdx], Mem.nets, avail, Asked.networks, loaded) :
              SetMem([Mem EXCEPT !.nets = @ \cup S])
    BY <1>2 DEF AssignNetworks
  <2>3. PICK S \in NetworkPicks(poolIdx = 1, Mem.pools[poolIdx], Mem.nets, avail, Asked.networks, loaded) :
          SetMem([Mem EXCEPT !.nets = @ \cup S])
    BY <2>2
  <2>4. /\ \A n, k \in S : Converging(n, k)
        /\ \A m \in Leases : m = cur \/ Siblings(cur, m) =>
              \A n \in S, k \in leases[m].nets : Converging(n, k)
    BY <1>2, <2>2, <2>3, GivenConverge
  <2>5. leases'[cur].nets = leases[cur].nets \cup S
    BY <2>1, <2>3 DEF Known, SetMem, TypeOK, LeaseObjects, Mem
  <2>6. \A l \in Leases \ {cur} : leases'[l].nets = leases[l].nets
    BY <2>3 DEF Known, SetMem, TypeOK
  <2>7. MapConverges
    BY DEF Known, SiblingInv
  <2> SUFFICES ASSUME NEW l \in Leases, NEW m \in Leases, l = m \/ Siblings(l, m),
                      NEW n \in leases'[l].nets, NEW k \in leases'[m].nets
               PROVE  Converging(n, k)
    BY DEF MapConverges
  <2>8. CASE n \in leases[l].nets /\ k \in leases[m].nets
    BY <2>7, <2>8 DEF MapConverges
  <2>9. CASE n \notin leases[l].nets
    <3>1. l = cur /\ n \in S
      BY <2>5, <2>6, <2>9
    <3>2. CASE k \in leases[m].nets
      BY <2>4, <3>1, <3>2
    <3>3. CASE k \notin leases[m].nets
      <4>1. k \in S
        BY <2>5, <2>6, <3>3
      <4> QED BY <2>4, <3>1, <4>1
    <3> QED BY <3>2, <3>3
  <2>10. CASE n \in leases[l].nets /\ k \notin leases[m].nets
    <3>1. m = cur /\ k \in S
      BY <2>5, <2>6, <2>10
    <3>2. l = cur \/ Siblings(cur, l)
      BY <3>1, SiblingsOfOneJob
    <3>3. Converging(k, n)
      BY <2>4, <2>10, <3>1, <3>2
    <3> QED BY <3>3 DEF Converging
  <2> QED BY <2>8, <2>9, <2>10
<1> QED BY <1>1, <1>2, OnlyNetworkLoopGives DEF OneJobOnePortGroup, Known

----------------------------------------------------------------------------
(* The object in hand.                                                     *)

\* What is read is what the API server has, and the first writes keep the references.
LEMMA IntakeVlanStep ==
    ASSUME OneJobOnePortGroup, Known, [Next]_vars, pc' \in IntakeSteps
    PROVE  OneVlan(cur', work')
<1> USE DEF Known
<1>1. CASE \/ Environment
           \/ \E p \in Pools : ReconcilePool(p)
           \/ \E n \in Networks : ReconcileNetwork(n)
           \/ UNCHANGED vars
  <2>1. UNCHANGED <<cur, pc, work>>
    BY <1>1, OthersKeepHand
  <2> QED BY <2>1 DEF SiblingInv, HandOnOneVlan
<1>2. CASE \E l \in Leases : GetLease(l)
  <2>1. PICK l \in Leases : GetLease(l)
    BY <1>2
  <2>2. cur' = l /\ work' = api[l]
    BY <2>1, CacheIsCurrent DEF GetLease, OneJobOnePortGroup, Calm
  <2> QED BY <2>2 DEF VlanInv
<1>3. CASE InitStatus \/ AddFinalizer
  <2>1. pc \in IntakeSteps /\ cur' = cur /\ (work' = Initialised \/ work' = Finalized)
    BY <1>3 DEF InitStatus, AddFinalizer, Intake, Goto, IntakeSteps
  <2>2. /\ Initialised.pools = work.pools /\ Initialised.nets = work.nets
        /\ Finalized.pools = work.pools /\ Finalized.nets = work.nets
    BY IntakeKeepsRefs DEF TypeOK
  <2>3. OneVlan(cur, work)
    BY <2>1 DEF SiblingInv, HandOnOneVlan
  <2>4. OneVlan(cur, Initialised) /\ OneVlan(cur, Finalized)
    BY <2>2, <2>3, SameVlans
  <2> QED BY <2>1, <2>4
<1>4. ~EndReconcile
  BY DEF EndReconcile, IntakeSteps
<1>5. CASE \/ Restart \/ WriteError \/ LostAnswer \/ DropFinalizer \/ AdmitTerminal \/ FailStatus \/ Delay
           \/ ReleaseRefs \/ NoPool \/ SaveMissing \/ SaveStatus
  BY <1>4, <1>5 DEF Restart, WriteError, LostAnswer, DropFinalizer, AdmitTerminal, FailStatus, Delay, ReleaseRefs,
                    NoPool, SaveMissing, SaveStatus
<1>6. CASE failLeaseIfUnsatisfiable \/ AdmitWaiting \/ FailRefs
  BY <1>4, <1>6 DEF failLeaseIfUnsatisfiable, AdmitWaiting, AdmitOrDelay, Admit, FailRefs, Goto, IntakeSteps
<1>7. CASE AssignPool \/ ReleasePools \/ NoPoolFits \/ PoolsDone \/ AssignNetworks \/ NetworksDone \/ SaveRefs
  BY <1>7 DEF AssignPool, ReleasePools, NoPoolFits, PoolsDone, AssignNetworks, NetworksDone, SaveRefs, Goto,
              inReconcile, IntakeSteps
<1>8. CASE Reconcile
  BY <1>2, <1>3, <1>5, <1>6, <1>7, <1>8 DEF Reconcile
<1> QED BY <1>1, <1>5, <1>8 DEF Next

\* The object in hand is on one VLAN from the read to the last write.
LEMMA HandOnOneVlanStep ==
    ASSUME OneJobOnePortGroup, Known, [Next]_vars
    PROVE  HandOnOneVlan'
<1> USE DEF Known
<1>1. ASSUME pc' \in PoolSteps PROVE OneVlan(cur', Mem')
  <2>1. cur' = cur
    BY <1>1, HandSteps
  <2>2. (pc = "admit" => OneVlan(cur, work)) /\ (pc \in PoolSteps => OneVlan(cur, Mem))
    BY DEF SiblingInv, HandOnOneVlan, IntakeSteps
  <2>3. OneVlan(cur, Mem')
    BY <1>1, <2>2, HandStaysOnVlan DEF OneJobOnePortGroup
  <2> QED BY <2>1, <2>3
<1>2. pc' \in IntakeSteps => OneVlan(cur', work')
  BY IntakeVlanStep
<1> QED BY <1>1, <1>2 DEF HandOnOneVlan, OneVlan

----------------------------------------------------------------------------
(* The theorem.                                                            *)

\* The invariant holds in every reachable state.
LEMMA SiblingHolds ==
    ASSUME OneJobOnePortGroup
    PROVE  Spec => []SiblingInv
<1>1. Init => SiblingInv
  <2> SUFFICES ASSUME Init PROVE SiblingInv
    OBVIOUS
  <2>1. pc \notin IntakeSteps \cup PoolSteps /\ \A l \in Leases : leases[l] = NoLease
    BY DEF Init, IntakeSteps, PoolSteps
  <2>2. NoLease.nets = {}
    BY BlankObjects
  <2> QED BY <2>1, <2>2 DEF SiblingInv, MapConverges, EntriesExist, HandOnOneVlan
<1>2. TypeOK /\ PersistInv /\ CalmInv /\ VlanInv /\ SiblingInv /\ [Next]_vars => SiblingInv'
  BY MapConvergesStep, EntriesExistStep, HandOnOneVlanStep DEF Known, SiblingInv, OneJobOnePortGroup
<1>3. Calm /\ OneNetworkEach
  BY DEF OneJobOnePortGroup
<1> QED BY <1>1, <1>2, <1>3, TypeCorrect, PersistHolds, CalmHolds, VlanHolds, PTL DEF Spec

\* The fulfilled leases of one job in a vCenter use the same port group, in whatever order
\* they are served, whichever of them comes and goes in between and whichever writes are
\* refused or lose their answers: each lease looks for its siblings in the leases map,
\* which shows what they own, and more.
THEOREM SiblingsConvergeHolds ==
    ASSUME OneJobOnePortGroup
    PROVE  Spec => []SiblingsConverge
<1>1. ASSUME CalmInv, SiblingInv, FulfilledComplete PROVE SiblingsConverge
  <2> SUFFICES ASSUME NEW l \in Leases, NEW m \in Leases, Siblings(l, m),
                      api[l].phase = "Fulfilled", api[m].phase = "Fulfilled",
                      LeaseSpec[l].networks = 1, LeaseSpec[m].networks = 1,
                      MeetInVCenter(api[l], api[m])
               PROVE  PortGroups(api[l].nets) = PortGroups(api[m].nets)
    BY DEF SiblingsConverge
  <2>1. ASSUME NEW k \in Leases, api[k].phase = "Fulfilled", LeaseSpec[k].networks = 1 PROVE api[k].nets # {}
    <3>1. Cardinality(PoolsOf(api[k])) \in Nat \ {0}
      BY <1>1, <2>1, requiredPoolsPositive DEF FulfilledComplete
    <3>2. PICK p : p \in PoolsOf(api[k])
      <4>1. PoolsOf(api[k]) # {}
        <5>1. Cardinality({}) = 0
          BY FS_EmptySet
        <5> QED BY <3>1, <5>1
      <4> QED BY <4>1
    <3> DEFINE nets == api[k].nets \cap getNetworksForPool(p, Networks)
    <3>3. Cardinality(nets) >= 1
      BY <1>1, <2>1, <3>2 DEF FulfilledComplete, AllPoolsHaveNetworks
    <3>4. nets # {}
      <4>1. Cardinality({}) = 0
        BY FS_EmptySet
      <4> HIDE DEF nets
      <4> QED BY <3>3, <4>1
    <3> QED BY <3>4
  <2>2. api[l].nets # {} /\ api[m].nets # {}
    BY <2>1
  <2>3. \A n \in api[l].nets, k \in api[m].nets : Converging(n, k)
    BY <1>1 DEF CalmInv, MapCovers, Within, SiblingInv, MapConverges
  <2> QED BY <2>2, <2>3 DEF PortGroups, Converging
<1>2. Calm /\ Removable = {}
  BY DEF OneJobOnePortGroup, OneNetworkEach
<1> QED BY <1>1, <1>2, SiblingHolds, CalmHolds, FulfilledCompleteHolds, PTL
============================================================================
