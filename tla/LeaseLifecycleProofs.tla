------------------------ MODULE LeaseLifecycleProofs ------------------------
(***************************************************************************)
(* Proofs about what LeaseReconciler does to a lease from one step to the  *)
(* next, and that it implements LeaseLifecycle.                            *)
(***************************************************************************)
EXTENDS LeaseReconcilerProofs

----------------------------------------------------------------------------
(* The ways in which a persisted lease changes.                            *)

\* A user creates the lease, requests its deletion, or deletes it before it has a
\* finalizer.
Creates(l, obj) == api[l].phase = "Uncreated" /\ obj = NewLease
Marks(l, obj) == Exists(api[l]) /\ obj = [api[l] EXCEPT !.deleting = TRUE]
Forgets(l, obj) == Exists(api[l]) /\ ~api[l].finalizer /\ obj = NoLease

\* The garbage collector takes references away.
Collects(l, obj) ==
    /\ ~HoldsNothing(api[l]) /\ removed # {}
    /\ obj = [api[l] EXCEPT !.pools = Without(@, removed), !.nets = @ \ removed]

\* The steps of a reconcile before the leases map.
Accepts(l, obj) ==
    /\ api[l].phase = ""
    /\ obj = [api[l] EXCEPT !.phase = "Pending", !.conds = {"Pending"}]
Finalizes(l, obj) ==
    /\ Exists(api[l]) /\ api[l].phase # "" /\ ~api[l].finalizer
    /\ obj = [api[l] EXCEPT !.finalizer = TRUE]
Drops(l, obj) == Exists(api[l]) /\ api[l].deleting /\ obj = NoLease

\* The writes of a reconcile from the leases map on.
InHand(l) == l = cur /\ ~stale /\ Waiting(api[l]) /\ ~api[l].deleting
WritesRefs(l, obj) ==
    /\ InHand(l) /\ pc \in {"failRefs", "releaseRefs", "saveMissing", "saveRefs"}
    /\ obj = WithRefs
WritesStatus(l, obj) ==
    /\ InHand(l) /\ pc \in {"failStatus", "delay", "noPool", "saveStatus"}
    /\ obj = WithStatus

Changes(l, obj) ==
    \/ Creates(l, obj) \/ Marks(l, obj) \/ Forgets(l, obj) \/ Collects(l, obj)
    \/ Accepts(l, obj) \/ Finalizes(l, obj) \/ Drops(l, obj)
    \/ WritesRefs(l, obj) \/ WritesStatus(l, obj)

\* The objects before and after a lease's life, and at its beginning, hold nothing.
LEMMA BlankObjects ==
    /\ NewLease.phase = "" /\ NoLease.phase = "Gone" /\ Uncreated.phase = "Uncreated"
    /\ \A obj \in {NewLease, NoLease, Uncreated} : HoldsNothing(obj) /\ obj.pools = <<>> /\ obj.nets = {}
                                                 /\ obj.deleting = FALSE
BY DEF NewLease, NoLease, Uncreated, HoldsNothing

\* The steps that write to no lease.
LEMMA QuietSteps ==
    ASSUME \/ \E l \in Leases : Sync(l) \/ GetLease(l)
           \/ \E p \in Pools : ReconcilePool(p) \/ SetNoSchedule(p) \/ RemovePool(p)
           \/ \E n \in Networks : ReconcileNetwork(n) \/ RemoveNetwork(n)
           \/ Restart \/ WriteError
           \/ AdmitTerminal \/ failLeaseIfUnsatisfiable \/ AdmitWaiting
           \/ AssignPool \/ ReleasePools \/ NoPoolFits \/ PoolsDone \/ AssignNetworks \/ NetworksDone
           \/ UNCHANGED vars
    PROVE  api' = api
<1>1. CASE \E l \in Leases : Sync(l) \/ GetLease(l)
  BY <1>1 DEF Sync, GetLease
<1>2. CASE \/ \E p \in Pools : ReconcilePool(p) \/ SetNoSchedule(p) \/ RemovePool(p)
           \/ \E n \in Networks : ReconcileNetwork(n) \/ RemoveNetwork(n)
  BY <1>2 DEF ReconcilePool, SetNoSchedule, RemovePool, ReconcileNetwork, RemoveNetwork
<1>3. CASE Restart \/ WriteError \/ UNCHANGED vars
  BY <1>3 DEF Restart, WriteError, vars
<1>4. CASE AdmitTerminal \/ failLeaseIfUnsatisfiable \/ AdmitWaiting
  BY <1>4 DEF AdmitTerminal, failLeaseIfUnsatisfiable, AdmitWaiting, AdmitOrDelay, Admit, InMemory
<1>5. CASE AssignPool \/ ReleasePools \/ NoPoolFits \/ PoolsDone \/ AssignNetworks \/ NetworksDone
  BY <1>5 DEF AssignPool, ReleasePools, NoPoolFits, PoolsDone, AssignNetworks, NetworksDone, InMemory
<1> QED BY <1>1, <1>2, <1>3, <1>4, <1>5

\* One step changes at most one lease of the API server, in one of these ways: the
\* reconcile under way writes only to a waiting lease that nobody has touched since.
LEMMA ApiSteps ==
    ASSUME TypeOK, PersistInv, [Next]_vars
    PROVE  \/ api' = api
           \/ \E l \in Leases : \E obj : api' = [api EXCEPT ![l] = obj] /\ Changes(l, obj)
<1> DEFINE Goal == \E l \in Leases : \E obj : api' = [api EXCEPT ![l] = obj] /\ Changes(l, obj)
<1> USE DEF Changes
<1>1. ASSUME NEW l \in Leases, CreateLease(l) PROVE Goal
  <2>1. api' = [api EXCEPT ![l] = NewLease] /\ Creates(l, NewLease)
    BY <1>1 DEF CreateLease, Write, Creates
  <2> QED BY <2>1
<1>2. ASSUME NEW l \in Leases, DeleteLease(l) PROVE Goal
  <2>1. CASE api[l].finalizer
    <3> DEFINE obj == [api[l] EXCEPT !.deleting = TRUE]
    <3>1. api' = [api EXCEPT ![l] = obj] /\ Marks(l, obj)
      BY <1>2, <2>1 DEF DeleteLease, Write, Marks
    <3> HIDE DEF obj
    <3> QED BY <3>1
  <2>2. CASE ~api[l].finalizer
    <3>1. api' = [api EXCEPT ![l] = NoLease] /\ Forgets(l, NoLease)
      BY <1>2, <2>2 DEF DeleteLease, Write, Forgets
    <3> QED BY <3>1
  <2> QED BY <2>1, <2>2
<1>3. ASSUME NEW l \in Leases, CollectGarbage(l) PROVE Goal
  <2> DEFINE left == [api[l] EXCEPT !.pools = Without(@, removed), !.nets = @ \ removed]
             mark == [api[l] EXCEPT !.deleting = TRUE]
  <2>1. api' = [api EXCEPT ![l] = mark] \/ api' = [api EXCEPT ![l] = left]
    BY <1>3 DEF CollectGarbage, Write
  <2>2. Exists(api[l]) /\ ~HoldsNothing(api[l]) /\ removed # {}
    BY <1>3 DEF CollectGarbage, HoldsNothing, PoolsOf
  <2>3. Marks(l, mark) /\ Collects(l, left)
    BY <2>2 DEF Marks, Collects
  <2> HIDE DEF left, mark
  <2> QED BY <2>1, <2>3
<1>4. ASSUME pc = "initStatus", ~stale, api' = [api EXCEPT ![cur] = Initialised] PROVE Goal
  <2> DEFINE obj == Initialised
             new == [api[cur] EXCEPT !.phase = "Pending", !.conds = {"Pending"}]
  <2>1. pc = "initStatus" /\ ~stale /\ api' = [api EXCEPT ![cur] = obj]
    BY <1>4
  <2>2. work = api[cur] /\ Exists(work) /\ NextIntake(work) = "initStatus" /\ cur \in Leases
    BY <2>1, LeasesFinite DEF PersistInv, IntakeSound, IntakeSteps, TypeOK
  <2>3. work.phase = "" /\ work \in LeaseObjects /\ Sound(work)
    BY <2>2 DEF NextIntake, PersistInv, ObjectsSound, TypeOK
  <2>4. work.conds = {}
    BY <2>2, <2>3 DEF Sound, ConditionTypes
  <2>5. obj = new
    BY <2>2, <2>3, <2>4 DEF Initialised, LeaseObjects, Set
  <2>6. Accepts(cur, new)
    BY <2>2, <2>3 DEF Accepts
  <2> HIDE DEF obj, new
  <2> QED BY <2>1, <2>2, <2>5, <2>6
<1>5. ASSUME pc = "addFinalizer", ~stale, api' = [api EXCEPT ![cur] = Finalized] PROVE Goal
  <2> DEFINE obj == Finalized
  <2>1. pc = "addFinalizer" /\ ~stale /\ api' = [api EXCEPT ![cur] = obj]
    BY <1>5
  <2>2. work = api[cur] /\ Exists(work) /\ NextIntake(work) = "addFinalizer" /\ cur \in Leases
    BY <2>1, LeasesFinite DEF PersistInv, IntakeSound, IntakeSteps, TypeOK
  <2>3. work.phase # "" /\ ~work.finalizer
    BY <2>2 DEF NextIntake
  <2>4. Finalizes(cur, obj)
    BY <2>2, <2>3 DEF Finalizes, Finalized
  <2> HIDE DEF obj
  <2> QED BY <2>1, <2>2, <2>4
<1>6. ASSUME pc = "dropFinalizer", ~stale, api' = [api EXCEPT ![cur] = NoLease] PROVE Goal
  <2>2. work = api[cur] /\ Exists(work) /\ NextIntake(work) = "dropFinalizer" /\ cur \in Leases
    BY <1>6, LeasesFinite DEF PersistInv, IntakeSound, IntakeSteps, TypeOK
  <2>3. work.deleting
    BY <2>2 DEF NextIntake
  <2> QED BY <1>6, <2>2, <2>3 DEF Drops
<1>7. ASSUME pc \in MapSteps, ~stale PROVE cur \in Leases /\ InHand(cur)
  BY <1>7, LeasesFinite DEF MapSteps, TypeOK, PersistInv, HandSound, InHand
<1>8. ASSUME pc \in {"failRefs", "releaseRefs", "saveMissing", "saveRefs"}, ~stale,
             api' = [api EXCEPT ![cur] = WithRefs]
      PROVE  Goal
  <2>2. pc \in MapSteps
    BY <1>8 DEF MapSteps, IntakeSteps, Steps
  <2> QED BY <1>7, <1>8, <2>2 DEF WritesRefs
<1>9. ASSUME pc \in {"failStatus", "delay", "noPool", "saveStatus"}, ~stale,
             api' = [api EXCEPT ![cur] = WithStatus]
      PROVE  Goal
  <2>2. pc \in MapSteps
    BY <1>9 DEF MapSteps, IntakeSteps, Steps
  <2> QED BY <1>7, <1>9, <2>2 DEF WritesStatus
<1> HIDE DEF Changes
<1>10. CASE Environment
  BY <1>1, <1>2, <1>3, <1>10, QuietSteps, FaultsType DEF Environment
<1>11. CASE InitStatus \/ AddFinalizer \/ DropFinalizer
  <2>1. CASE InitStatus
    BY <1>4, <2>1 DEF InitStatus, Intake, WriteSucceeds, Write
  <2>2. CASE AddFinalizer
    BY <1>5, <2>2 DEF AddFinalizer, Intake, WriteSucceeds, Write
  <2>3. CASE DropFinalizer
    BY <1>6, <2>3 DEF DropFinalizer, WriteSucceeds, WriteAndTriggerLeaseUpdates, Write
  <2> QED BY <1>11, <2>1, <2>2, <2>3
<1>12. CASE FailRefs \/ ReleaseRefs \/ SaveMissing \/ SaveRefs
  BY <1>8, <1>12 DEF FailRefs, ReleaseRefs, SaveMissing, SaveRefs, WriteSucceeds, Write
<1>13. CASE FailStatus \/ Delay \/ NoPool \/ SaveStatus
  BY <1>9, <1>13 DEF FailStatus, Delay, NoPool, SaveStatus, WriteSucceeds, WriteAndTriggerLeaseUpdates, Write
<1>14. CASE LostAnswer
  <2>1. pc \in WriteSteps /\ ~stale /\ api' = [api EXCEPT ![cur] = Written]
    BY <1>14 DEF LostAnswer, WriteSucceeds, Write
  <2>2. \/ pc = "initStatus" /\ Written = Initialised
        \/ pc = "addFinalizer" /\ Written = Finalized
        \/ pc = "dropFinalizer" /\ Written = NoLease
        \/ pc \in {"failRefs", "releaseRefs", "saveMissing", "saveRefs"} /\ Written = WithRefs
        \/ pc \in {"failStatus", "delay", "noPool", "saveStatus"} /\ Written = WithStatus
    BY <2>1 DEF Written, WriteSteps, Steps
  <2> QED BY <1>4, <1>5, <1>6, <1>8, <1>9, <2>1, <2>2
<1>15. CASE Reconcile
  BY <1>11, <1>12, <1>13, <1>14, <1>15, QuietSteps DEF Reconcile
<1> QED BY <1>10, <1>15, QuietSteps DEF Next

----------------------------------------------------------------------------
(* The ways in which the object in hand changes while it has its pools.    *)

PoolSteps == {"pools", "noPool", "networks", "saveMissing", "saveRefs", "saveStatus"}

\* It enters the pool loop, gets a pool, gets its phase, or keeps its pools and phase.
HandEnters ==
    /\ pc = "admit" /\ pc' = "pools" /\ Mem' = work
    /\ Satisfiable /\ PoolsOf(work) \cap removed = {}
HandPicks ==
    /\ pc = "pools" /\ pc' = "pools" /\ Incomplete
    /\ \E excluded \in Exclusions : \E p \in Candidates(excluded) :
          Mem' = [Mem EXCEPT !.pools = Append(@, p)]
HandReports ==
    /\ pc = "networks" /\ pc' = "saveRefs" /\ ~Missing
    /\ LET done == ~Incomplete /\ AllPoolsHaveNetworks(Assigned, Mem.nets, Asked.networks, loaded)
       IN  Mem' = WithPhase(Mem, IF done THEN "Fulfilled" ELSE "Partial")
HandKeeps ==
    /\ pc \in PoolSteps
    /\ Mem'.pools = Mem.pools
    /\ pc' \in {"saveRefs", "saveStatus"} => pc \in {"saveRefs", "saveStatus"} /\ Mem' = Mem

\* The steps of others leave the object in hand alone.
LEMMA OthersKeepHand ==
    ASSUME TypeOK,
           \/ Environment
           \/ \E p \in Pools : ReconcilePool(p)
           \/ \E n \in Networks : ReconcileNetwork(n)
           \/ UNCHANGED vars
    PROVE  /\ UNCHANGED <<leases, cur, pc, work, poolIdx>> /\ (stale => stale')
           /\ pc # "idle" => UNCHANGED <<removed, known, noSchedule, loaded>>
<1>1. ASSUME NEW l \in Leases, CreateLease(l) \/ DeleteLease(l) \/ Sync(l) \/ CollectGarbage(l)
      PROVE  UNCHANGED <<leases, cur, pc, work, poolIdx, removed, known, noSchedule, loaded>> /\ (stale => stale')
  <2>1. UNCHANGED <<leases, cur, pc, work, poolIdx, removed, known, noSchedule, loaded>>
    BY <1>1 DEF CreateLease, DeleteLease, Sync, CollectGarbage, inventory, inMaps, inReconcile
  <2>2. CASE CreateLease(l) \/ Sync(l)
    BY <2>1, <2>2 DEF CreateLease, Sync, inReconcile
  <2>3. CASE DeleteLease(l) \/ CollectGarbage(l)
    <3>1. stale' = (stale \/ cur = l)
      BY <2>3, Zenon DEF DeleteLease, CollectGarbage
    <3> QED BY <2>1, <3>1, Zenon
  <2> QED BY <1>1, <2>2, <2>3
<1>2. ASSUME NEW p, SetNoSchedule(p) \/ RemovePool(p) \/ RemoveNetwork(p) \/ ReconcilePool(p) \/ ReconcileNetwork(p)
      PROVE  /\ UNCHANGED <<leases, cur, pc, work, poolIdx, stale>>
             /\ pc # "idle" => UNCHANGED <<removed, known, noSchedule, loaded>>
  BY <1>2 DEF SetNoSchedule, RemovePool, RemoveNetwork, ReconcilePool, ReconcileNetwork,
              inventory, inMaps, inReconcile
<1>3. CASE UNCHANGED vars
  BY <1>3 DEF vars
<1>4. CASE Environment
  BY <1>1, <1>2, <1>4 DEF Environment
<1> QED BY <1>2, <1>3, <1>4

\* A step that leaves the object in hand in the pool loop or later changes it in one of
\* these ways, and leaves the pools map and the inventory alone.
LEMMA HandSteps ==
    ASSUME TypeOK, PersistInv, [Next]_vars, pc' \in PoolSteps
    PROVE  /\ cur \in Leases /\ UNCHANGED <<cur, removed, known, noSchedule, loaded>> /\ (stale => stale')
           /\ HandEnters \/ HandPicks \/ HandReports \/ HandKeeps
<1> DEFINE Same == UNCHANGED <<cur, removed, known, noSchedule, loaded>> /\ (stale => stale')
           Goal == Same /\ (HandEnters \/ HandPicks \/ HandReports \/ HandKeeps)
<1>1. ASSUME pc # "idle" PROVE cur \in Leases
  BY <1>1, LeasesFinite DEF TypeOK
<1>2. ASSUME NEW obj, SetMem(obj), pc # "idle", cur' = cur PROVE Mem' = obj
  BY <1>1, <1>2 DEF SetMem, Mem, TypeOK
<1>3. CASE \/ Environment
           \/ \E p \in Pools : ReconcilePool(p)
           \/ \E n \in Networks : ReconcileNetwork(n)
           \/ UNCHANGED vars
  <2>1. UNCHANGED <<leases, cur, pc>> /\ (stale => stale') /\ pc # "idle"
    BY <1>3, OthersKeepHand DEF PoolSteps
  <2>2. Mem' = Mem /\ Same
    BY <1>3, <2>1, OthersKeepHand DEF Mem
  <2>3. HandKeeps
    BY <2>1, <2>2 DEF HandKeeps
  <2> QED BY <1>1, <2>1, <2>2, <2>3
<1>4. ~EndReconcile
  BY DEF EndReconcile, PoolSteps
<1>5. CASE \E l \in Leases : GetLease(l)
  BY <1>5 DEF GetLease, NextIntake, PoolSteps
<1>6. CASE InitStatus \/ AddFinalizer
  BY <1>6 DEF InitStatus, AddFinalizer, Intake, Goto, NextIntake, PoolSteps
<1>7. CASE \/ Restart \/ WriteError \/ LostAnswer \/ DropFinalizer \/ AdmitTerminal \/ FailStatus \/ Delay
           \/ ReleaseRefs \/ NoPool \/ SaveMissing \/ SaveStatus
  BY <1>4, <1>7 DEF Restart, WriteError, LostAnswer, DropFinalizer, AdmitTerminal, FailStatus, Delay, ReleaseRefs,
                    NoPool, SaveMissing, SaveStatus
<1>8. CASE failLeaseIfUnsatisfiable \/ ReleasePools \/ FailRefs
  BY <1>8 DEF failLeaseIfUnsatisfiable, ReleasePools, FailRefs, Admit, Goto, PoolSteps
<1>9. CASE AdmitWaiting
  <2>1. /\ pc = "admit" /\ pc' = "pools" /\ SetMem(work) /\ PoolsOf(work) \cap removed = {} /\ Satisfiable
        /\ UNCHANGED <<cur, stale, inventory, known, noSchedule, loaded>>
    BY <1>4, <1>9 DEF AdmitWaiting, AdmitOrDelay, Admit, Goto, InMemory, PoolSteps
  <2>2. HandEnters
    BY <1>2, <2>1 DEF HandEnters
  <2> QED BY <1>1, <2>1, <2>2 DEF inventory
<1>10. CASE AssignPool
  <2>1. /\ pc = "pools" /\ pc' = pc /\ Incomplete /\ UNCHANGED <<cur, stale, inventory, known, noSchedule, loaded>>
    BY <1>10 DEF AssignPool, InMemory, inReconcile
  <2>2. PICK excluded \in Exclusions : \E p \in Candidates(excluded) : SetMem([Mem EXCEPT !.pools = Append(@, p)])
    BY <1>10 DEF AssignPool
  <2>3. PICK p \in Candidates(excluded) : SetMem([Mem EXCEPT !.pools = Append(@, p)])
    BY <2>2
  <2>4. Mem' = [Mem EXCEPT !.pools = Append(@, p)]
    BY <1>2, <2>1, <2>3
  <2>5. HandPicks
    BY <2>1, <2>2, <2>3, <2>4 DEF HandPicks
  <2> QED BY <1>1, <2>1, <2>5 DEF inventory
<1>11. CASE NoPoolFits
  <2>1. /\ pc = "pools" /\ pc' = "noPool"
        /\ UNCHANGED <<cur, stale, leases, inventory, known, noSchedule, loaded>>
    BY <1>11 DEF NoPoolFits, Goto, InMemory
  <2>2. HandKeeps
    BY <2>1 DEF HandKeeps, PoolSteps, Mem
  <2> QED BY <1>1, <2>1, <2>2 DEF inventory
<1>12. CASE PoolsDone
  <2>1. /\ pc = "pools" /\ pc' = "networks" /\ SetMem([Mem EXCEPT !.name = PoolSpec[Mem.pools[1]].name])
        /\ UNCHANGED <<cur, stale, inventory, known, noSchedule, loaded>>
    BY <1>12 DEF PoolsDone, InMemory
  <2>2. Mem'.pools = Mem.pools
    BY <1>1, <1>2, <2>1 DEF Mem, TypeOK, LeaseObjects
  <2>3. HandKeeps
    BY <2>1, <2>2 DEF HandKeeps, PoolSteps
  <2> QED BY <1>1, <2>1, <2>3 DEF inventory
<1>13. CASE AssignNetworks
  <2>1. pc = "networks" /\ pc' = pc /\ UNCHANGED <<cur, stale, inventory, known, noSchedule, loaded>>
    BY <1>13 DEF AssignNetworks, InMemory
  <2>2. PICK S : SetMem([Mem EXCEPT !.nets = @ \cup S])
    BY <1>13, NetworksAreLoaded
  <2>3. Mem'.pools = Mem.pools
    BY <1>1, <1>2, <2>1, <2>2 DEF Mem, TypeOK, LeaseObjects
  <2>4. HandKeeps
    BY <2>1, <2>3 DEF HandKeeps, PoolSteps
  <2> QED BY <1>1, <2>1, <2>4 DEF inventory
<1>14. CASE NetworksDone
  <2> DEFINE done == ~Incomplete /\ AllPoolsHaveNetworks(Assigned, Mem.nets, Asked.networks, loaded)
             obj  == WithPhase(Mem, IF done THEN "Fulfilled" ELSE "Partial")
  <2>1. /\ pc = "networks" /\ pc' = (IF Missing THEN "saveMissing" ELSE "saveRefs")
        /\ SetMem(IF Missing THEN Mem ELSE obj)
        /\ UNCHANGED <<cur, stale, inventory, known, noSchedule, loaded>>
    BY <1>14 DEF NetworksDone, Goto, InMemory
  <2>2. Mem' = IF Missing THEN Mem ELSE obj
    <3> HIDE DEF obj
    <3> QED BY <1>2, <2>1
  <2>3. CASE Missing
    BY <1>1, <2>1, <2>2, <2>3 DEF HandKeeps, PoolSteps, inventory
  <2>4. CASE ~Missing
    BY <1>1, <2>1, <2>2, <2>4 DEF HandReports, inventory
  <2> QED BY <2>3, <2>4
<1>15. CASE SaveRefs
  <2>1. /\ pc = "saveRefs" /\ pc' = "saveStatus"
        /\ UNCHANGED <<cur, stale, inventory, leases, known, noSchedule, loaded>>
    BY <1>15 DEF SaveRefs, Goto, inMaps
  <2>2. HandKeeps
    BY <2>1 DEF HandKeeps, PoolSteps, Mem
  <2> QED BY <1>1, <2>1, <2>2 DEF inventory
<1> HIDE DEF Goal
<1>16. CASE Reconcile
  BY <1>5, <1>6, <1>7, <1>8, <1>9, <1>10, <1>11, <1>12, <1>13, <1>14, <1>15, <1>16 DEF Reconcile
<1> QED BY <1>3, <1>7, <1>16 DEF Next

----------------------------------------------------------------------------
(* Deleted pools.                                                          *)

\* A reconcile changes neither the inventory nor the keys of the maps it reads it from.
LEMMA ReconcileKeepsInventory ==
    ASSUME Reconcile
    PROVE  UNCHANGED <<cordoned, removed, known, loaded>>
<1> USE DEF inventory, inMaps, InMemory
<1>1. CASE \E l \in Leases : GetLease(l)
  BY <1>1 DEF GetLease
<1>2. CASE WriteError \/ LostAnswer \/ InitStatus \/ AddFinalizer \/ DropFinalizer
  BY <1>2 DEF WriteError, LostAnswer, InitStatus, AddFinalizer, DropFinalizer, Intake
<1>3. CASE AdmitTerminal \/ failLeaseIfUnsatisfiable \/ AdmitWaiting
  BY <1>3 DEF AdmitTerminal, failLeaseIfUnsatisfiable, AdmitWaiting, AdmitOrDelay, Admit
<1>4. CASE FailRefs \/ FailStatus \/ Delay \/ ReleaseRefs \/ NoPool \/ SaveMissing \/ SaveRefs \/ SaveStatus
  BY <1>4 DEF FailRefs, FailStatus, Delay, ReleaseRefs, NoPool, SaveMissing, SaveRefs, SaveStatus
<1>5. CASE AssignPool \/ ReleasePools \/ NoPoolFits \/ PoolsDone \/ AssignNetworks \/ NetworksDone
  BY <1>5 DEF AssignPool, ReleasePools, NoPoolFits, PoolsDone, AssignNetworks, NetworksDone
<1> QED BY <1>1, <1>2, <1>3, <1>4, <1>5 DEF Reconcile

\* No pool of the map is deleted, and no reconcile holds a deleted pool: its own pools
\* can be read when it enters the loop, and none is deleted under it.
HandExists ==
    /\ known \cap removed = {}
    /\ pc \in PoolSteps => PoolsOf(Mem) \cap removed = {}

\* This is inductive, with every deletion and every fault but a lost answer, which leaves
\* a deleted pool in the map.
LEMMA HandExistsStep ==
    ASSUME "lost" \notin Faults, TypeOK, PersistInv, HandExists, [Next]_vars
    PROVE  HandExists'
<1>1. known' \cap removed' = {}
  <2>1. CASE Reconcile
    BY <2>1, ReconcileKeepsInventory DEF HandExists
  <2>2. ASSUME NEW l \in Leases, CreateLease(l) \/ DeleteLease(l) \/ Sync(l) \/ CollectGarbage(l)
        PROVE  UNCHANGED <<known, removed>>
    BY <2>2 DEF CreateLease, DeleteLease, Sync, CollectGarbage, inventory, inMaps
  <2>3. ASSUME NEW n \in Networks, RemoveNetwork(n) PROVE known' \cap removed' = {}
    BY <2>3, RemovableType DEF RemoveNetwork, inMaps, HandExists, TypeOK
  <2>4. ASSUME NEW p, RemovePool(p) \/ ReconcilePool(p) \/ SetNoSchedule(p) \/ ReconcileNetwork(p)
        PROVE  known' \cap removed' = {}
    BY <2>4 DEF RemovePool, ReconcilePool, SetNoSchedule, ReconcileNetwork, inventory, inMaps, HandExists
  <2>5. CASE Restart \/ UNCHANGED vars
    BY <2>5 DEF Restart, vars, HandExists
  <2>6. CASE Environment
    BY <2>2, <2>3, <2>4, <2>6 DEF Environment, HandExists
  <2> QED BY <2>1, <2>4, <2>5, <2>6 DEF Next
<1>2. ASSUME pc' \in PoolSteps PROVE PoolsOf(Mem)' \cap removed' = {}
  <2>1. /\ cur \in Leases /\ removed' = removed
        /\ HandEnters \/ HandPicks \/ HandReports \/ HandKeeps
    BY <1>2, HandSteps
  <2>2. Mem \in LeaseObjects
    BY <2>1 DEF TypeOK, Mem
  <2>3. CASE HandEnters
    BY <2>1, <2>3 DEF HandEnters, PoolsOf
  <2>4. CASE HandPicks
    <3>1. PICK excluded \in Exclusions : \E p \in Candidates(excluded) : Mem' = [Mem EXCEPT !.pools = Append(@, p)]
      BY <2>4 DEF HandPicks
    <3>2. PICK p \in Candidates(excluded) : Mem' = [Mem EXCEPT !.pools = Append(@, p)]
      BY <3>1
    <3>3. p \in known /\ p \in Pools
      BY <3>2, PickIsKnown DEF TypeOK
    <3>4. Mem'.pools = Append(Mem.pools, p) /\ Mem.pools \in Seq(Pools)
      BY <2>2, <3>2 DEF LeaseObjects
    <3>5. PoolsOf(Mem') = PoolsOf(Mem) \cup {p}
      BY <3>3, <3>4, AppendMembers DEF PoolsOf
    <3> QED BY <2>1, <2>4, <3>3, <3>5 DEF HandPicks, HandExists, PoolSteps
  <2>5. CASE HandReports
    <3>1. Mem'.pools = Mem.pools
      BY <2>2, <2>5 DEF HandReports, WithPhase, LeaseObjects
    <3> QED BY <2>1, <2>5, <3>1 DEF HandReports, HandExists, PoolSteps, PoolsOf
  <2>6. CASE HandKeeps
    BY <2>1, <2>6 DEF HandKeeps, HandExists, PoolsOf
  <2> QED BY <2>1, <2>3, <2>4, <2>5, <2>6
<1> QED BY <1>1, <1>2 DEF HandExists

\* What a change gives a persisted lease: its pools stay, or lose some, or are those
\* of the object in hand.
LEMMA PoolsGiven ==
    ASSUME TypeOK, PersistInv, NEW l \in Leases, NEW obj, Changes(l, obj)
    PROVE  \/ PoolsOf(obj) \subseteq PoolsOf(api[l])
           \/ pc \in {"saveMissing", "saveRefs"} /\ PoolsOf(obj) = PoolsOf(Mem)
<1>1. api[l] \in LeaseObjects
  BY DEF TypeOK
<1>2. CASE Creates(l, obj) \/ Forgets(l, obj) \/ Drops(l, obj)
  <2>1. obj = NewLease \/ obj = NoLease
    BY <1>2, Zenon DEF Creates, Forgets, Drops
  <2>2. obj.pools = <<>>
    BY <2>1, BlankObjects
  <2> QED BY <2>2 DEF PoolsOf
<1>3. CASE Marks(l, obj) \/ Accepts(l, obj) \/ Finalizes(l, obj) \/ WritesStatus(l, obj)
  <2>1. obj.pools = api[l].pools
    BY <1>1, <1>3 DEF Marks, Accepts, Finalizes, WritesStatus, WithStatus, InHand, LeaseObjects
  <2> QED BY <2>1 DEF PoolsOf
<1>4. CASE Collects(l, obj)
  <2>1. obj.pools = Without(api[l].pools, removed) /\ api[l].pools \in Seq(Pools)
    BY <1>1, <1>4 DEF Collects, LeaseObjects
  <2> QED BY <2>1, WithoutMembers DEF PoolsOf
<1>5. CASE WritesRefs(l, obj)
  <2>1. obj.pools = Mem.pools /\ pc \in MapSteps /\ ~stale
    BY <1>1, <1>5 DEF WritesRefs, WithRefs, InHand, LeaseObjects, MapSteps, IntakeSteps, Steps
  <2>2. pc \in {"failRefs", "releaseRefs"} => Mem.pools = <<>>
    BY <2>1 DEF PersistInv, HandSound, HoldsNothing
  <2> QED BY <1>5, <2>1, <2>2 DEF WritesRefs, PoolsOf
<1> QED BY <1>2, <1>3, <1>4, <1>5 DEF Changes

\* No lease is given a pool that has been deleted, whatever dies, lags or is refused, as
\* long as no answer of the API server is lost: the one that says the pool's finalizer is
\* gone has to arrive for its entry to go.
THEOREM NoRemovedPoolIsGivenHolds ==
    ASSUME "lost" \notin Faults
    PROVE  Spec => NoRemovedPoolIsGiven
<1>1. Init => HandExists
  BY DEF Init, HandExists, PoolSteps
<1>2. ASSUME TypeOK, PersistInv, HandExists, [Next]_vars
      PROVE  \A l \in Leases : (PoolsOf(api'[l]) \ PoolsOf(api[l])) \cap removed = {}
  <2> SUFFICES ASSUME NEW l \in Leases, api'[l] # api[l]
               PROVE  (PoolsOf(api'[l]) \ PoolsOf(api[l])) \cap removed = {}
    OBVIOUS
  <2>1. PICK obj : api' = [api EXCEPT ![l] = obj] /\ Changes(l, obj)
    BY <1>2, ApiSteps DEF TypeOK
  <2>2. api'[l] = obj
    BY <1>2, <2>1 DEF TypeOK
  <2>3. pc \in {"saveMissing", "saveRefs"} => PoolsOf(Mem) \cap removed = {}
    BY <1>2 DEF HandExists, PoolSteps
  <2> QED BY <1>2, <2>1, <2>2, <2>3, PoolsGiven
<1> QED BY <1>1, <1>2, HandExistsStep, TypeCorrect, PersistHolds, PTL DEF Spec, NoRemovedPoolIsGiven

----------------------------------------------------------------------------
(* The end of a lease's life.                                              *)

\* Without deletions in the inventory the garbage collector takes nothing.
LEMMA NothingCollected ==
    ASSUME TypeOK, Removable = {}, NEW l, NEW obj
    PROVE  removed = {} /\ ~Collects(l, obj)
BY DEF TypeOK, Collects

\* A fulfilled or failed lease changes only by its deletion, whatever fails, dies or
\* lags: a late reconcile from an old copy cannot take it back.  The inventory is one
\* nothing is deleted from, as the garbage collector takes references from any lease.
THEOREM TerminalIsFinalHolds ==
    ASSUME Removable = {}
    PROVE  Spec => TerminalIsFinal
<1>1. ASSUME TypeOK, PersistInv, [Next]_vars
      PROVE  \A l \in Leases : api[l].phase \in Terminal =>
                \/ api'[l].phase = "Gone"
                \/ api'[l] = [api[l] EXCEPT !.deleting = api'[l].deleting]
  <2> SUFFICES ASSUME NEW l \in Leases, api[l].phase \in Terminal
               PROVE  \/ api'[l].phase = "Gone"
                      \/ api'[l] = [api[l] EXCEPT !.deleting = api'[l].deleting]
    OBVIOUS
  <2>1. api[l] \in LeaseObjects /\ Sound(api[l])
    BY <1>1 DEF TypeOK, PersistInv, ObjectsSound
  <2>2. CASE api'[l] = api[l]
    BY <2>1, <2>2 DEF LeaseObjects
  <2>3. CASE api'[l] # api[l]
    <3>1. PICK obj : api' = [api EXCEPT ![l] = obj] /\ Changes(l, obj)
      BY <1>1, <2>3, ApiSteps DEF TypeOK
    <3>2. api'[l] = obj
      BY <1>1, <3>1 DEF TypeOK
    <3>3. ~Creates(l, obj) /\ ~Accepts(l, obj) /\ ~WritesRefs(l, obj) /\ ~WritesStatus(l, obj)
      BY DEF Creates, Accepts, WritesRefs, WritesStatus, InHand, Waiting, Terminal
    <3>4. ~Finalizes(l, obj)
      BY <2>1 DEF Finalizes, Sound, Terminal
    <3>5. CASE Forgets(l, obj) \/ Drops(l, obj)
      BY <3>2, <3>5 DEF Forgets, Drops, NoLease, NewLease
    <3>6. CASE Marks(l, obj)
      BY <2>1, <3>2, <3>6 DEF Marks, LeaseObjects
    <3> QED BY <1>1, <3>1, <3>3, <3>4, <3>5, <3>6, NothingCollected DEF Changes
  <2> QED BY <2>2, <2>3
<1> QED BY <1>1, TypeCorrect, PersistHolds, PTL DEF Spec, TerminalIsFinal

----------------------------------------------------------------------------
(* The pools and networks of a lease.                                      *)

\* A lease has no pool twice and no more than it asks for, within its vCenter bounds,
\* and has any only if it asks for at least as many as the vCenters it must span.
Placed(l, obj) ==
    LET lease == LeaseSpec[l]
    IN  /\ Len(obj.pools) = Cardinality(PoolsOf(obj))
        /\ Cardinality(PoolsOf(obj)) <= requiredPools(lease)
        /\ WithinVCenterBounds(lease, PoolsOf(obj))
        /\ obj.pools # <<>> => lease.minVCenters <= requiredPools(lease)

Complete(l, obj) ==
    /\ Cardinality(PoolsOf(obj)) = requiredPools(LeaseSpec[l])
    /\ AllPoolsHaveNetworks(PoolsOf(obj), obj.nets, LeaseSpec[l].networks, Networks)

\* That holds of the persisted leases, and of the object in hand when the next write is
\* going to be accepted; a fulfilled one is complete.
ObjectsPlaced ==
    \A l \in Leases : Placed(l, api[l]) /\ (api[l].phase = "Fulfilled" => Complete(l, api[l]))
HandPlaced ==
    pc \in PoolSteps /\ ~stale =>
        /\ Placed(cur, Mem) /\ Asked.minVCenters <= requiredPools(Asked)
        /\ pc \in {"saveRefs", "saveStatus"} /\ Mem.phase = "Fulfilled" => Complete(cur, Mem)

PlacedInv == ObjectsPlaced /\ HandPlaced

\* A lease without pools is placed.
LEMMA NothingPlaced ==
    ASSUME NEW l \in Leases, NEW obj, obj.pools = <<>>
    PROVE  PoolsOf(obj) = {} /\ Placed(l, obj)
<1>1. PoolsOf(obj) = {} /\ Len(obj.pools) = 0
  BY DEF PoolsOf
<1>2. requiredPools(LeaseSpec[l]) \in Nat \ {0} /\ LeaseSpec[l].vcenters \in Nat /\ LeaseSpec[l].minVCenters \in Nat
  BY requiredPoolsPositive, ReconcilerLeaseSpecType
<1>3. WithinVCenterBounds(LeaseSpec[l], PoolsOf(obj))
  BY <1>1, <1>2, EmptyWithinBounds
<1> QED BY <1>1, <1>2, <1>3, FS_EmptySet DEF Placed

\* Only the pools matter to the placement, and the networks to the completeness.
LEMMA SamePlaced ==
    ASSUME NEW l, NEW old, NEW new, new.pools = old.pools
    PROVE  /\ PoolsOf(new) = PoolsOf(old) /\ (Placed(l, old) => Placed(l, new))
           /\ new.nets = old.nets /\ Complete(l, old) => Complete(l, new)
BY DEF Placed, Complete, PoolsOf

\* A satisfiable lease asks for as many pools as the vCenters it must span.
LEMMA SatisfiableSpans ==
    ASSUME cur \in Leases, Satisfiable
    PROVE  Asked.minVCenters <= requiredPools(Asked)
<1>1. requiredPools(Asked) \in Nat /\ Asked.minVCenters \in Nat
  BY requiredPoolsPositive, ReconcilerLeaseSpecType DEF Asked
<1>2. ~(Asked.minVCenters > 0 /\ Asked.minVCenters > requiredPools(Asked))
  BY DEF Satisfiable, IsLeaseSatisfiable, minVCentersUnsatisfiable, Asked
<1> QED BY <1>1, <1>2

\* Another pool of the map that the filters let through keeps an incomplete lease
\* placed.
LEMMA PickPlaced ==
    ASSUME TypeOK, cur \in Leases, Placed(cur, Mem), Incomplete, Asked.minVCenters <= requiredPools(Asked),
           NEW excluded \in Exclusions, NEW p \in Candidates(excluded),
           NEW new, new.pools = Append(Mem.pools, p)
    PROVE  Placed(cur, new)
<1>1. Mem.pools \in Seq(Pools) /\ p \in Pools /\ p \notin PoolsOf(Mem)
  BY PickIsKnown DEF TypeOK, LeaseObjects, Mem, Assigned
<1>2. Len(new.pools) = Len(Mem.pools) + 1 /\ PoolsOf(new) = PoolsOf(Mem) \cup {p}
  BY <1>1, AppendMembers DEF PoolsOf
<1>3. IsFiniteSet(PoolsOf(Mem)) /\ Cardinality(PoolsOf(Mem)) \in Nat
  BY <1>1, MembersType, FS_CardinalityType DEF PoolsOf
<1>4. Cardinality(PoolsOf(new)) = Cardinality(PoolsOf(Mem)) + 1
  BY <1>1, <1>2, <1>3, FS_AddElement
<1>5. requiredPools(Asked) \in Nat /\ Asked.vcenters \in Nat /\ Asked.minVCenters \in Nat
  BY requiredPoolsPositive, ReconcilerLeaseSpecType DEF Asked
<1>6. WithinVCenterBounds(Asked, PoolsOf(Mem) \cup {p})
  <2>1. WithinVCenterBounds(Asked, PoolsOf(Mem))
    BY DEF Placed, Asked
  <2>2. excluded \in ExcludedVCenters(Asked, PoolsOf(Mem), known \ PoolsOf(Mem), noSchedule, FreeNow)
    BY DEF Exclusions, Assigned
  <2>3. p \in GetPoolWithStrategy(Asked, PoolsOf(Mem), known \ PoolsOf(Mem), noSchedule, FreeNow, excluded,
                                  GetDiversityExcludedVCenters(Asked, PoolsOf(Mem)))
    BY DEF Candidates, Assigned
  <2> QED BY <1>3, <1>5, <2>1, <2>2, <2>3, PickWithinBounds
<1> QED BY <1>2, <1>3, <1>4, <1>5, <1>6 DEF Placed, Asked, Incomplete, Assigned

\* A lease that has its networks among the loaded ones has them.
LEMMA LoadedSuffices ==
    ASSUME TypeOK, cur \in Leases, AllPoolsHaveNetworks(Assigned, Mem.nets, Asked.networks, loaded)
    PROVE  AllPoolsHaveNetworks(Assigned, Mem.nets, Asked.networks, Networks)
<1> SUFFICES ASSUME NEW p \in Assigned
             PROVE  Cardinality(Mem.nets \cap getNetworksForPool(p, Networks)) >= Asked.networks
  BY DEF AllPoolsHaveNetworks
<1> DEFINE S == Mem.nets \cap getNetworksForPool(p, loaded)
           T == Mem.nets \cap getNetworksForPool(p, Networks)
<1>1. S \subseteq T /\ T \subseteq Networks
  BY DEF TypeOK, getNetworksForPool
<1>2. IsFiniteSet(T) /\ IsFiniteSet(S)
  BY <1>1, NetworksFinite, FS_Subset
<1>3. Cardinality(S) <= Cardinality(T) /\ Cardinality(S) \in Nat /\ Cardinality(T) \in Nat
  BY <1>1, <1>2, FS_Subset, FS_CardinalityType
<1>4. Cardinality(S) >= Asked.networks /\ Asked.networks \in Nat
  BY ReconcilerLeaseSpecType DEF AllPoolsHaveNetworks, Asked
<1> HIDE DEF S, T
<1> QED BY <1>3, <1>4 DEF T

\* A change of a persisted lease keeps it placed, and complete once it is fulfilled.
LEMMA ObjectsPlacedStep ==
    ASSUME TypeOK, PersistInv, PlacedInv, Removable = {}, [Next]_vars
    PROVE  ObjectsPlaced'
<1> SUFFICES ASSUME NEW l \in Leases, api'[l] # api[l]
             PROVE  Placed(l, api'[l]) /\ (api'[l].phase = "Fulfilled" => Complete(l, api'[l]))
  BY DEF PlacedInv, ObjectsPlaced
<1>1. PICK obj : api' = [api EXCEPT ![l] = obj] /\ Changes(l, obj)
  BY ApiSteps DEF TypeOK
<1>2. api'[l] = obj /\ api[l] \in LeaseObjects /\ Sound(api[l])
  BY <1>1 DEF TypeOK, PersistInv, ObjectsSound
<1>3. Placed(l, api[l]) /\ (api[l].phase = "Fulfilled" => Complete(l, api[l]))
  BY DEF PlacedInv, ObjectsPlaced
<1>4. CASE Creates(l, obj) \/ Forgets(l, obj) \/ Drops(l, obj)
  <2>1. obj = NewLease \/ obj = NoLease
    BY <1>4, Zenon DEF Creates, Forgets, Drops
  <2>2. obj.pools = <<>> /\ obj.phase # "Fulfilled"
    BY <2>1, BlankObjects
  <2> QED BY <1>2, <2>2, NothingPlaced
<1>5. CASE Marks(l, obj) \/ Accepts(l, obj) \/ Finalizes(l, obj)
  <2>1. /\ obj.pools = api[l].pools /\ obj.nets = api[l].nets
        /\ obj.phase = api[l].phase \/ obj.phase = "Pending"
    BY <1>2, <1>5 DEF Marks, Accepts, Finalizes, LeaseObjects
  <2> QED BY <1>2, <1>3, <2>1, SamePlaced
<1>6. CASE WritesRefs(l, obj)
  <2>1. /\ obj.pools = Mem.pools /\ obj.phase = api[l].phase /\ pc \in MapSteps /\ ~stale /\ l = cur
        /\ Waiting(api[l]) /\ pc \in {"failRefs", "releaseRefs", "saveMissing", "saveRefs"}
    BY <1>2, <1>6 DEF WritesRefs, WithRefs, InHand, LeaseObjects, MapSteps, IntakeSteps, Steps
  <2>2. obj.phase # "Fulfilled"
    BY <2>1 DEF Waiting
  <2>3. CASE pc \in {"failRefs", "releaseRefs"}
    <3>1. Mem.pools = <<>>
      BY <2>1, <2>3 DEF PersistInv, HandSound, HoldsNothing
    <3> QED BY <1>2, <2>1, <2>2, <3>1, NothingPlaced
  <2>4. CASE pc \in {"saveMissing", "saveRefs"}
    <3>1. Placed(cur, Mem)
      BY <2>1, <2>4 DEF PlacedInv, HandPlaced, PoolSteps
    <3> QED BY <1>2, <2>1, <2>2, <3>1, SamePlaced
  <2> QED BY <2>1, <2>3, <2>4
<1>7. CASE WritesStatus(l, obj)
  <2>1. /\ obj.pools = api[l].pools /\ obj.nets = api[l].nets /\ obj.phase = Mem.phase
        /\ pc \in MapSteps /\ ~stale /\ l = cur
        /\ Waiting(api[l]) /\ pc \in {"failStatus", "delay", "noPool", "saveStatus"}
    BY <1>2, <1>7 DEF WritesStatus, WithStatus, InHand, LeaseObjects, MapSteps, IntakeSteps, Steps
  <2>2. pc # "saveStatus" => obj.phase # "Fulfilled"
    BY <2>1 DEF PersistInv, HandSound, StatusKept, Waiting
  <2>3. ASSUME pc = "saveStatus", obj.phase = "Fulfilled" PROVE Complete(l, obj)
    <3>1. Mem.pools = api[cur].pools /\ Mem.nets = api[cur].nets
      BY <2>1, <2>3 DEF PersistInv, HandSound, RefsSaved
    <3>2. Complete(cur, Mem)
      BY <2>1, <2>3 DEF PlacedInv, HandPlaced, PoolSteps
    <3> QED BY <2>1, <3>1, <3>2, SamePlaced
  <2> QED BY <1>2, <1>3, <2>1, <2>2, <2>3, SamePlaced
<1> QED BY <1>1, <1>4, <1>5, <1>6, <1>7, NothingCollected DEF Changes

\* So does a step with the object in hand.
LEMMA HandPlacedStep ==
    ASSUME TypeOK, PersistInv, PlacedInv, [Next]_vars
    PROVE  HandPlaced'
<1> SUFFICES ASSUME pc' \in PoolSteps, ~stale'
             PROVE  /\ Placed(cur', Mem') /\ Asked'.minVCenters <= requiredPools(Asked')
                    /\ pc' \in {"saveRefs", "saveStatus"} /\ Mem'.phase = "Fulfilled" => Complete(cur', Mem')
  BY DEF HandPlaced, Placed, Complete, PoolsOf
<1>1. /\ cur \in Leases /\ cur' = cur /\ ~stale
      /\ HandEnters \/ HandPicks \/ HandReports \/ HandKeeps
  BY HandSteps
<1>2. Mem \in LeaseObjects /\ work \in LeaseObjects /\ Asked' = Asked
  BY <1>1 DEF TypeOK, Mem, Asked
<1>3. pc \in PoolSteps => Placed(cur, Mem) /\ Asked.minVCenters <= requiredPools(Asked)
  BY <1>1 DEF PlacedInv, HandPlaced
<1>4. CASE HandEnters
  <2>1. pc = "admit" /\ pc' = "pools" /\ Mem' = work /\ Satisfiable
    BY <1>4 DEF HandEnters
  <2>2. work = api[cur]
    BY <1>1, <2>1 DEF PersistInv, IntakeSound, IntakeSteps
  <2>3. Placed(cur, work)
    BY <1>1, <2>2 DEF PlacedInv, ObjectsPlaced
  <2> QED BY <1>1, <1>2, <2>1, <2>3, SatisfiableSpans
<1>5. CASE HandPicks
  <2>1. pc = "pools" /\ pc' = "pools" /\ Incomplete
    BY <1>5 DEF HandPicks
  <2>2. PICK excluded \in Exclusions : \E p \in Candidates(excluded) : Mem' = [Mem EXCEPT !.pools = Append(@, p)]
    BY <1>5 DEF HandPicks
  <2>3. PICK p \in Candidates(excluded) : Mem' = [Mem EXCEPT !.pools = Append(@, p)]
    BY <2>2
  <2>4. Mem'.pools = Append(Mem.pools, p)
    BY <1>2, <2>3 DEF LeaseObjects
  <2>5. Placed(cur, Mem) /\ Asked.minVCenters <= requiredPools(Asked)
    BY <1>3, <2>1 DEF PoolSteps
  <2>6. Placed(cur, Mem')
    BY <1>1, <2>1, <2>4, <2>5, PickPlaced
  <2> QED BY <1>1, <1>2, <2>1, <2>5, <2>6
<1>6. CASE HandReports
  <2> DEFINE done == ~Incomplete /\ AllPoolsHaveNetworks(Assigned, Mem.nets, Asked.networks, loaded)
  <2>1. /\ pc = "networks" /\ pc' = "saveRefs"
        /\ Mem' = WithPhase(Mem, IF done THEN "Fulfilled" ELSE "Partial")
    BY <1>6 DEF HandReports
  <2>2. /\ Mem'.pools = Mem.pools /\ Mem'.nets = Mem.nets
        /\ Mem'.phase = IF done THEN "Fulfilled" ELSE "Partial"
    BY <1>2, <2>1 DEF WithPhase, LeaseObjects
  <2>3. Placed(cur, Mem) /\ Asked.minVCenters <= requiredPools(Asked)
    BY <1>3, <2>1 DEF PoolSteps
  <2>4. Placed(cur, Mem')
    BY <2>2, <2>3, SamePlaced
  <2>5. ASSUME done PROVE Complete(cur, Mem)
    <3>1. Cardinality(PoolsOf(Mem)) <= requiredPools(Asked) /\ ~(Cardinality(PoolsOf(Mem)) < requiredPools(Asked))
      BY <2>3, <2>5 DEF Placed, Asked, Incomplete, Assigned
    <3>2. Cardinality(PoolsOf(Mem)) \in Nat /\ requiredPools(Asked) \in Nat
      BY <1>1, <1>2, MembersType, FS_CardinalityType, requiredPoolsPositive DEF PoolsOf, LeaseObjects, Asked
    <3>3. Cardinality(PoolsOf(Mem)) = requiredPools(Asked)
      BY <3>1, <3>2
    <3>4. AllPoolsHaveNetworks(Assigned, Mem.nets, Asked.networks, Networks)
      BY <1>1, <2>5, LoadedSuffices
    <3> QED BY <3>3, <3>4 DEF Complete, Asked, Assigned
  <2>6. Mem'.phase = "Fulfilled" => Complete(cur, Mem')
    BY <2>2, <2>5, SamePlaced
  <2> QED BY <1>1, <1>2, <2>3, <2>4, <2>6
<1>7. CASE HandKeeps
  <2>1. /\ pc \in PoolSteps /\ Mem'.pools = Mem.pools
        /\ pc' \in {"saveRefs", "saveStatus"} => pc \in {"saveRefs", "saveStatus"} /\ Mem' = Mem
    BY <1>7 DEF HandKeeps
  <2>2. Placed(cur, Mem')
    BY <1>3, <2>1, SamePlaced
  <2>3. pc' \in {"saveRefs", "saveStatus"} /\ Mem'.phase = "Fulfilled" => Complete(cur, Mem')
    BY <1>1, <2>1 DEF PlacedInv, HandPlaced
  <2> QED BY <1>1, <1>2, <1>3, <2>1, <2>2, <2>3
<1> QED BY <1>1, <1>4, <1>5, <1>6, <1>7

\* The placement holds of every history, with every fault.
LEMMA PlacedHolds ==
    ASSUME Removable = {}
    PROVE  Spec => []PlacedInv
<1>1. Init => PlacedInv
  <2> SUFFICES ASSUME Init PROVE PlacedInv
    OBVIOUS
  <2>1. \A l \in Leases : api[l] = Uncreated
    BY DEF Init
  <2>2. \A l \in Leases : Placed(l, api[l]) /\ api[l].phase # "Fulfilled"
    BY <2>1, BlankObjects, NothingPlaced
  <2> QED BY <2>2 DEF Init, PlacedInv, ObjectsPlaced, HandPlaced, PoolSteps
<1>2. TypeOK /\ PersistInv /\ PlacedInv /\ [Next]_vars => PlacedInv'
  BY ObjectsPlacedStep, HandPlacedStep DEF PlacedInv
<1> QED BY <1>1, <1>2, TypeCorrect, PersistHolds, PTL DEF Spec

\* What a lease owns never leaves its vCenter bounds and names no pool twice, in any
\* phase, although its picks may be spread over crashes, failed writes and stale reads.
THEOREM OwnedWithinBoundsHolds ==
    ASSUME Removable = {}
    PROVE  Spec => []OwnedWithinBounds
<1>1. PlacedInv => OwnedWithinBounds
  BY DEF PlacedInv, ObjectsPlaced, Placed, OwnedWithinBounds
<1> QED BY <1>1, PlacedHolds, PTL

\* A lease that reports Fulfilled owns all its pools, within its vCenter bounds, and in
\* each of them the networks it asked for, whatever failed on the way.
THEOREM FulfilledCompleteHolds ==
    ASSUME Removable = {}
    PROVE  Spec => []FulfilledComplete
<1>1. TypeOK /\ PlacedInv => FulfilledComplete
  <2> SUFFICES ASSUME TypeOK, PlacedInv, NEW l \in Leases, api[l].phase = "Fulfilled"
               PROVE  LET lease == LeaseSpec[l]
                          pools == PoolsOf(api[l])
                          n     == Cardinality(GetVCentersInUse(pools))
                      IN  /\ Len(api[l].pools) = requiredPools(lease) /\ Cardinality(pools) = requiredPools(lease)
                          /\ n >= lease.minVCenters /\ (lease.vcenters > 0 => n <= lease.vcenters)
                          /\ AllPoolsHaveNetworks(pools, api[l].nets, lease.networks, Networks)
    BY DEF FulfilledComplete
  <2> DEFINE lease == LeaseSpec[l]
             pools == PoolsOf(api[l])
             n     == Cardinality(GetVCentersInUse(pools))
  <2>1. Placed(l, api[l]) /\ Complete(l, api[l])
    BY DEF PlacedInv, ObjectsPlaced
  <2>2. requiredPools(lease) \in Nat \ {0} /\ lease.minVCenters \in Nat /\ lease.vcenters \in Nat
    BY requiredPoolsPositive, ReconcilerLeaseSpecType
  <2>3. /\ Len(api[l].pools) = requiredPools(lease) /\ Cardinality(pools) = requiredPools(lease)
        /\ AllPoolsHaveNetworks(pools, api[l].nets, lease.networks, Networks)
    BY <2>1 DEF Placed, Complete
  <2>4. api[l].pools # <<>>
    BY <2>2, <2>3
  <2>5. lease.minVCenters <= requiredPools(lease)
    BY <2>1, <2>4 DEF Placed
  <2>6. n \in Nat
    BY MembersType, VCentersFinite DEF TypeOK, LeaseObjects, PoolsOf
  <2>7. /\ n >= lease.minVCenters \/ n = Cardinality(pools)
        /\ lease.vcenters > 0 => n <= lease.vcenters
    BY <2>1 DEF Placed, WithinVCenterBounds
  <2>8. n >= lease.minVCenters
    BY <2>2, <2>3, <2>5, <2>6, <2>7
  <2> HIDE DEF n, pools, lease
  <2> QED BY <2>3, <2>7, <2>8 DEF n, pools, lease
<1> QED BY <1>1, PlacedHolds, TypeCorrect, PTL

----------------------------------------------------------------------------
(* The refinement.                                                         *)

\* The abstract specification counts as this one does.
LEMMA SameCardinality == \A S : Lifecycle!Cardinality(S) = Cardinality(S)
BY DEF Lifecycle!Cardinality, Cardinality

\* The pools and networks of a complete lease are as many as the owner was promised.
LEMMA CompleteIsEnough ==
    ASSUME NEW l \in Leases, NEW obj \in LeaseObjects, Complete(l, obj)
    PROVE  /\ Cardinality(PoolsOf(obj)) = requiredPools(LeaseSpec[l])
           /\ Cardinality(obj.nets) >= LeaseSpec[l].networks
<1>1. requiredPools(LeaseSpec[l]) \in Nat \ {0} /\ LeaseSpec[l].networks \in Nat
  BY requiredPoolsPositive, ReconcilerLeaseSpecType
<1>2. Cardinality(PoolsOf(obj)) = requiredPools(LeaseSpec[l])
  BY DEF Complete
<1>3. PICK p : p \in PoolsOf(obj)
  BY <1>1, <1>2, FS_EmptySet
<1> DEFINE S == obj.nets \cap getNetworksForPool(p, Networks)
<1>4. Cardinality(S) >= LeaseSpec[l].networks
  BY <1>3 DEF Complete, AllPoolsHaveNetworks
<1>5. IsFiniteSet(obj.nets) /\ S \subseteq obj.nets
  BY NetworksFinite, FS_Subset DEF LeaseObjects
<1>6. Cardinality(S) <= Cardinality(obj.nets) /\ Cardinality(S) \in Nat /\ Cardinality(obj.nets) \in Nat
  BY <1>5, FS_Subset, FS_CardinalityType
<1> HIDE DEF S
<1> QED BY <1>1, <1>2, <1>4, <1>6

\* What is shown of a lease has four parts of these types.
Views == [phase : Phases \cup {"Uncreated", "Gone"}, pools : SUBSET Pools, nets : SUBSET Networks, ending : BOOLEAN]

\* Shown takes them from the object, with the pools as a set.
LEMMA ShownParts ==
    ASSUME NEW obj \in LeaseObjects
    PROVE  /\ Shown(obj) \in Views
           /\ Shown(obj).phase = obj.phase /\ Shown(obj).pools = PoolsOf(obj) /\ Shown(obj).nets = obj.nets
           /\ Shown(obj).ending = obj.deleting
<1>1. PoolsOf(obj) \subseteq Pools
  BY MembersType DEF LeaseObjects, PoolsOf
<1> QED BY <1>1 DEF Shown, Views, LeaseObjects

\* A change of a persisted lease is a step of its lifecycle, or none.
LEMMA ChangesAreLifecycleSteps ==
    ASSUME TypeOK, PersistInv, PlacedInv, Removable = {}, NEW l \in Leases, NEW obj \in LeaseObjects, Changes(l, obj)
    PROVE  LET old    == Shown(api[l])
               new    == Shown(obj)
               wanted == [pools |-> requiredPools(LeaseSpec[l]), networks |-> LeaseSpec[l].networks]
           IN  \/ new = old
               \/ Lifecycle!Create(old, new) \/ Lifecycle!Accept(old, new)
               \/ Lifecycle!Acquire(old, new) \/ Lifecycle!Release(old, new)
               \/ Lifecycle!ReportPartial(old, new) \/ Lifecycle!ReportFulfilled(old, new, wanted)
               \/ Lifecycle!ReportFailed(old, new)
               \/ Lifecycle!RequestDeletion(old, new) \/ Lifecycle!Remove(old, new)
<1> DEFINE old    == Shown(api[l])
           new    == Shown(obj)
           wanted == [pools |-> requiredPools(LeaseSpec[l]), networks |-> LeaseSpec[l].networks]
<1>1. api[l] \in LeaseObjects /\ Sound(api[l]) /\ api[l].deleting \in BOOLEAN
  BY DEF TypeOK, PersistInv, ObjectsSound, LeaseObjects
<1>2. /\ old.phase = api[l].phase /\ old.pools = PoolsOf(api[l]) /\ old.nets = api[l].nets
      /\ old.ending = api[l].deleting
      /\ new.phase = obj.phase /\ new.pools = PoolsOf(obj) /\ new.nets = obj.nets
      /\ new.ending = obj.deleting
      /\ old \in Views /\ new \in Views
  BY <1>1, ShownParts
<1>3. \A x : HoldsNothing(x) => PoolsOf(x) = {} /\ x.nets = {}
  BY DEF HoldsNothing, PoolsOf
<1>4. Exists(api[l]) <=> old.phase \in Lifecycle!Living
  BY DEF Exists, Phases, Terminal, Lifecycle!Living, Shown
<1>5. \A x : HoldsNothing(x) /\ x.deleting = FALSE => Shown(x) = Lifecycle!Nothing(x.phase)
  BY <1>3 DEF Shown, Lifecycle!Nothing
<1>6. CASE Creates(l, obj)
  <2>1. old.phase = "Uncreated" /\ new = Lifecycle!Nothing("")
    BY <1>5, <1>6, BlankObjects DEF Creates, Shown
  <2> QED BY <2>1 DEF Lifecycle!Create
<1>7. CASE Marks(l, obj)
  <2>1. /\ obj.phase = api[l].phase /\ obj.pools = api[l].pools /\ obj.nets = api[l].nets
        /\ obj.deleting = TRUE
    BY <1>1, <1>7 DEF Marks, LeaseObjects
  <2>2. PoolsOf(obj) = PoolsOf(api[l])
    BY <2>1 DEF PoolsOf
  <2>3. new = [old EXCEPT !.ending = TRUE]
    <3> HIDE DEF old, new
    <3> QED BY <1>2, <2>1, <2>2 DEF Views
  <2> QED BY <1>4, <1>7, <2>3 DEF Marks, Lifecycle!RequestDeletion
<1>8. CASE Forgets(l, obj) \/ Drops(l, obj)
  <2>1. Exists(api[l]) /\ obj = NoLease
    BY <1>8, Zenon DEF Forgets, Drops
  <2>2. new = Lifecycle!Nothing("Gone")
    BY <1>5, <2>1, BlankObjects
  <2>3. CASE api[l].deleting
    <3>1. old.ending
      BY <1>2, <2>3
    <3> QED BY <1>4, <2>1, <2>2, <3>1 DEF Lifecycle!Remove
  <2>4. CASE ~api[l].finalizer
    <3>1. api[l].phase \in {"", "Pending"} /\ HoldsNothing(api[l])
      BY <1>1, <2>1, <2>4 DEF Sound
    <3>2. ~Lifecycle!Holds(old)
      BY <1>2, <1>3, <3>1 DEF Lifecycle!Holds
    <3> QED BY <1>2, <1>4, <2>1, <2>2, <3>1, <3>2 DEF Lifecycle!Remove
  <2> QED BY <1>8, <2>3, <2>4, Zenon DEF Forgets, Drops
<1>9. CASE Accepts(l, obj)
  <2>1. /\ obj.phase = "Pending" /\ obj.pools = api[l].pools /\ obj.nets = api[l].nets
        /\ obj.deleting = api[l].deleting /\ old.phase = ""
    BY <1>1, <1>2, <1>9 DEF Accepts, LeaseObjects
  <2>2. PoolsOf(obj) = PoolsOf(api[l])
    BY <2>1 DEF PoolsOf
  <2>3. new = [old EXCEPT !.phase = "Pending"]
    <3> HIDE DEF old, new
    <3> QED BY <1>2, <2>1, <2>2 DEF Views
  <2> QED BY <2>1, <2>3 DEF Lifecycle!Accept
<1>10. CASE Finalizes(l, obj)
  <2>1. /\ obj.phase = api[l].phase /\ obj.pools = api[l].pools /\ obj.nets = api[l].nets
        /\ obj.deleting = api[l].deleting
    BY <1>1, <1>10 DEF Finalizes, LeaseObjects
  <2> QED BY <2>1 DEF Shown, PoolsOf
<1>11. ASSUME InHand(l) PROVE l = cur /\ ~stale /\ Lifecycle!Waiting(old) /\ api[l].deleting = FALSE
  BY <1>1, <1>2, <1>11 DEF InHand, Waiting, Lifecycle!Waiting
<1>12. CASE WritesRefs(l, obj)
  <2>1. /\ obj.phase = api[l].phase /\ obj.pools = Mem.pools /\ obj.nets = Mem.nets
        /\ obj.deleting = api[l].deleting /\ InHand(l)
        /\ pc \in MapSteps /\ pc \in {"failRefs", "releaseRefs", "saveMissing", "saveRefs"}
    BY <1>1, <1>11, <1>12 DEF WritesRefs, WithRefs, LeaseObjects, MapSteps, IntakeSteps, Steps
  <2>2. CASE pc \in {"failRefs", "releaseRefs"}
    <3>1. HoldsNothing(obj)
      BY <1>11, <2>1, <2>2 DEF PersistInv, HandSound, HoldsNothing
    <3>2. new = Lifecycle!Nothing(old.phase)
      BY <1>2, <1>5, <1>11, <2>1, <3>1
    <3> QED BY <1>11, <2>1, <3>2 DEF Lifecycle!Release
  <2>3. CASE pc \in {"saveMissing", "saveRefs"}
    <3>1. PoolsOf(api[l]) \subseteq PoolsOf(Mem) /\ api[l].nets \subseteq Mem.nets
      BY <1>11, <2>1, <2>3 DEF PersistInv, HandSound, RefsKept
    <3>2. PoolsOf(obj) = PoolsOf(Mem)
      BY <2>1 DEF PoolsOf
    <3>3. /\ new.pools = PoolsOf(Mem) /\ new.nets = Mem.nets
          /\ new = [old EXCEPT !.pools = new.pools, !.nets = new.nets]
      <4> HIDE DEF old, new
      <4> QED BY <1>2, <2>1, <3>2 DEF Views
    <3> HIDE DEF old, new
    <3>4. Lifecycle!Acquire(old, new)
      BY <1>2, <1>11, <2>1, <3>1, <3>3 DEF Lifecycle!Acquire
    <3> USE DEF old, new
    <3> QED BY <3>4
  <2> QED BY <2>1, <2>2, <2>3
<1>13. CASE WritesStatus(l, obj)
  <2>1. /\ obj.phase = Mem.phase /\ obj.pools = api[l].pools /\ obj.nets = api[l].nets
        /\ obj.deleting = api[l].deleting /\ InHand(l)
        /\ pc \in MapSteps /\ pc \in {"failStatus", "delay", "noPool", "saveStatus"}
    BY <1>1, <1>11, <1>13 DEF WritesStatus, WithStatus, LeaseObjects, MapSteps, IntakeSteps, Steps
  <2>2. new = [old EXCEPT !.phase = Mem.phase]
    BY <2>1, SamePlaced DEF Shown
  <2>3. CASE pc = "failStatus"
    <3>1. Mem.phase = "Failed" /\ HoldsNothing(api[l])
      BY <1>11, <2>1, <2>3 DEF PersistInv, HandSound, HoldsNothing, RefsSaved
    <3>2. ~Lifecycle!Holds(old)
      BY <1>2, <1>3, <3>1 DEF Lifecycle!Holds
    <3> QED BY <1>11, <2>1, <2>2, <3>1, <3>2 DEF Lifecycle!ReportFailed
  <2>4. CASE pc \in {"delay", "noPool"}
    <3>1. obj.phase = api[l].phase
      BY <1>11, <2>1, <2>4 DEF PersistInv, HandSound, StatusKept
    <3> QED BY <2>1, <3>1 DEF Shown, PoolsOf
  <2>5. CASE pc = "saveStatus"
    <3>1. Reported /\ RefsSaved
      BY <1>11, <2>1, <2>5 DEF PersistInv, HandSound
    <3>2. CASE Mem.phase = "Partial"
      <4>1. api[l].pools # <<>> /\ api[l].nets # {} /\ api[l].pools \in Seq(Pools)
        BY <1>1, <1>11, <2>1, <3>1 DEF Reported, RefsSaved, LeaseObjects
      <4>2. api[l].pools[1] \in PoolsOf(api[l])
        BY <4>1, MembersType, EmptySeq DEF PoolsOf
      <4> QED BY <1>2, <1>11, <2>1, <2>2, <3>2, <4>1, <4>2 DEF Lifecycle!ReportPartial
    <3>3. CASE Mem.phase = "Fulfilled"
      <4>1. Complete(cur, Mem)
        BY <1>11, <2>1, <2>5, <3>3 DEF PlacedInv, HandPlaced, PoolSteps
      <4>2. Complete(l, api[l])
        BY <1>11, <2>1, <3>1, <4>1, SamePlaced DEF RefsSaved
      <4>3. Cardinality(old.pools) = wanted.pools /\ Cardinality(old.nets) >= wanted.networks
        BY <1>1, <1>2, <4>2, CompleteIsEnough
      <4> QED BY <1>11, <2>1, <2>2, <3>3, <4>3, SameCardinality DEF Lifecycle!ReportFulfilled
    <3> QED BY <3>1, <3>2, <3>3 DEF Reported
  <2> QED BY <2>1, <2>3, <2>4, <2>5
<1> QED BY <1>6, <1>7, <1>8, <1>9, <1>10, <1>12, <1>13, NothingCollected DEF Changes

\* The lease controller implements LeaseLifecycle, whatever fails, dies or lags: every
\* step changes what an owner sees of one lease in one of the ways the lifecycle allows,
\* or of none.  The inventory is one nothing is deleted from, as the garbage collector
\* takes references one by one, from a fulfilled lease too.
THEOREM LifecycleImplemented ==
    ASSUME Removable = {}
    PROVE  Spec => ImplementsLifecycle
<1> DEFINE view == [l \in Leases |-> Shown(api[l])]
<1>1. Init => Lifecycle!Init
  <2> SUFFICES ASSUME Init PROVE view = [l \in Leases |-> Lifecycle!Nothing("Uncreated")]
    BY DEF Lifecycle!Init
  <2>1. \A l \in Leases : api[l] = Uncreated
    BY DEF Init
  <2>2. Uncreated.pools = <<>>
    BY BlankObjects
  <2>3. PoolsOf(Uncreated) = {}
    BY <2>2 DEF PoolsOf
  <2>4. Shown(Uncreated) = Lifecycle!Nothing("Uncreated")
    BY <2>3, BlankObjects DEF Shown, Lifecycle!Nothing
  <2> QED BY <2>1, <2>4
<1>2. TypeOK /\ TypeOK' /\ PersistInv /\ PlacedInv /\ [Next]_vars => [Lifecycle!Next]_view
  <2> SUFFICES ASSUME TypeOK, TypeOK', PersistInv, PlacedInv, [Next]_vars, view' # view
               PROVE  Lifecycle!Next
    OBVIOUS
  <2>1. PICK l \in Leases : \E obj : api' = [api EXCEPT ![l] = obj] /\ Changes(l, obj)
    BY ApiSteps
  <2>2. PICK obj : api' = [api EXCEPT ![l] = obj] /\ Changes(l, obj)
    BY <2>1
  <2>3. /\ api'[l] = obj /\ obj \in LeaseObjects
        /\ \A m \in Leases \ {l} : api'[m] = api[m]
    BY <2>2 DEF TypeOK
  <2>4. /\ view[l] = Shown(api[l]) /\ view'[l] = Shown(obj)
        /\ \A m \in Leases \ {l} : view'[m] = view[m]
    BY <2>3 DEF Shown, PoolsOf
  <2>5. view' = [view EXCEPT ![l] = view'[l]]
    BY <2>4
  <2>6. view'[l] # view[l]
    BY <2>5
  <2> DEFINE old    == view[l]
             new    == view'[l]
             wanted == [pools |-> requiredPools(LeaseSpec[l]), networks |-> LeaseSpec[l].networks]
  <2>7. \/ Lifecycle!Create(old, new) \/ Lifecycle!Accept(old, new)
        \/ Lifecycle!Acquire(old, new) \/ Lifecycle!Release(old, new)
        \/ Lifecycle!ReportPartial(old, new) \/ Lifecycle!ReportFulfilled(old, new, wanted)
        \/ Lifecycle!ReportFailed(old, new)
        \/ Lifecycle!RequestDeletion(old, new) \/ Lifecycle!Remove(old, new)
    <3> HIDE DEF view
    <3> QED BY <2>2, <2>3, <2>4, <2>6, ChangesAreLifecycleSteps
  <2> QED BY <2>5, <2>7 DEF Lifecycle!Next
<1> QED BY <1>1, <1>2, TypeCorrect, PersistHolds, PlacedHolds, PTL DEF Spec, ImplementsLifecycle, Lifecycle!Spec

============================================================================
