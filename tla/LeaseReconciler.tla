--------------------------- MODULE LeaseReconciler ---------------------------
(***************************************************************************)
(* The lease controller: every lease's life from its creation to its       *)
(* deletion, as LeaseReconciler.Reconcile (pkg/controller/leases.go)       *)
(* drives it, with the in-memory maps it decides from and the API server   *)
(* it writes to.                                                           *)
(*                                                                         *)
(* A reconcile holds reconcileLock from its first step to its last, so at  *)
(* most one is under way (cur, pc).  It is split at its writes, because    *)
(* users go on writing to the API server, writes fail, and the process may *)
(* die between two of them; and at the iterations of its two loops.  The   *)
(* working object of a reconcile is the one it puts into the leases map    *)
(* (a pointer), so what it changes is visible there whether or not it is   *)
(* ever written.                                                           *)
(***************************************************************************)
EXTENDS NetworkSelection, Conditions, Sequences

CONSTANTS
    Leases,         \* the names of the Lease objects
    LeaseSpec,      \* the specification of each lease
    Cordonable,     \* the pools an administrator cordons and uncordons
    Removable,      \* the pools and networks an administrator deletes
    Faults          \* which of FaultKinds happen

\* "restart": the process dies at any point and comes back with empty maps.
\* "lag":     reads are served by an informer cache behind the API server.
\* "error":   a write may be refused although the object has not changed.
\* "lost":    a write may be applied and its answer lost: the caller gets an error.
FaultKinds == {"restart", "lag", "error", "lost"}

ASSUME LeasesFinite == IsFiniteSet(Leases) /\ None \notin Leases
\* A lease's spec; created is the creation timestamp.  Storage is never looked at.
LeaseFields == {"vcpus", "memory", "pools", "vcenters", "minVCenters", "networks", "networkType",
                "requiredPool", "poolSelector", "tolerations", "boskosId", "created"}
ASSUME ReconcilerLeaseSpecType ==
    \A l \in Leases :
        /\ LeaseFields \subseteq DOMAIN LeaseSpec[l]
        /\ LeaseSpec[l].vcpus \in Nat /\ LeaseSpec[l].memory \in Nat
        /\ LeaseSpec[l].pools \in Nat /\ LeaseSpec[l].networks \in Nat
        /\ LeaseSpec[l].vcenters \in Nat /\ LeaseSpec[l].minVCenters \in Nat
        /\ LeaseSpec[l].created \in Nat
ASSUME FaultsType == Faults \subseteq FaultKinds /\ Cordonable \subseteq Pools
ASSUME RemovableType == Removable \subseteq Pools \cup Networks /\ Pools \cap Networks = {}

VARIABLES
    api,         \* the Lease objects in the API server
    cache,       \* the Lease objects in the informer cache
    behind,      \* the leases whose cached object is not the latest version
    cordoned,    \* the pools whose spec.noSchedule is set in the API server
    removed,     \* the pools and networks deleted from the API server
    leases,      \* the leases map
    known,       \* the keys of the pools map
    noSchedule,  \* the pools whose entry in the pools map has spec.noSchedule
    loaded,      \* the keys of the networks map
    cur,         \* the lease being reconciled, or None
    pc,          \* what the reconcile does next
    work,        \* the object read, until it is put into the leases map
    stale,       \* the object in hand is not the latest version in the API server
    poolIdx      \* the pool whose networks are assigned next

vars == <<api, cache, behind, cordoned, removed, leases, known, noSchedule, loaded,
          cur, pc, work, stale, poolIdx>>

----------------------------------------------------------------------------
(* Lease objects.  pools and nets are the owner references, name is        *)
(* status.name, the failure domain of the first pool, and conds are the    *)
(* conditions that are True.                                               *)

Terminal == {"Fulfilled", "Failed"}
Phases == {"", "Pending", "Partial"} \cup Terminal

NewLease == [phase |-> "", pools |-> <<>>, nets |-> {}, name |-> "pending",
             conds |-> {}, deleting |-> FALSE, finalizer |-> FALSE]
Uncreated == [NewLease EXCEPT !.phase = "Uncreated"]
NoLease == [NewLease EXCEPT !.phase = "Gone"]

Exists(obj) == obj.phase \in Phases
PoolsOf(obj) == {obj.pools[i] : i \in DOMAIN obj.pools}

NetworkOnly(l) == LeaseSpec[l].vcpus = 0 /\ LeaseSpec[l].memory = 0
Siblings(l, m) ==
    /\ l # m
    /\ LeaseSpec[l].boskosId # None /\ LeaseSpec[l].boskosId = LeaseSpec[m].boskosId
    /\ ~NetworkOnly(l) /\ ~NetworkOnly(m)

LeaseObjects ==
    [phase : Phases \cup {"Uncreated", "Gone"}, pools : Seq(Pools), nets : SUBSET Networks,
     name : {"pending"} \cup {PoolSpec[p].name : p \in Pools}, conds : SUBSET ConditionTypes,
     deleting : BOOLEAN, finalizer : BOOLEAN]

Steps == {"idle", "initStatus", "addFinalizer", "dropFinalizer", "admit", "failRefs",
          "failStatus", "delay", "pools", "releaseRefs", "noPool", "networks",
          "saveMissing", "saveRefs", "saveStatus"}

\* Every variable has its type; a reconcile has a lease and the pools map's
\* cordons are those of pools it holds.
TypeOK ==
    /\ api \in [Leases -> LeaseObjects] /\ cache \in [Leases -> LeaseObjects]
    /\ leases \in [Leases -> LeaseObjects]
    /\ behind \subseteq Leases
    /\ cordoned \subseteq Pools /\ removed \subseteq Removable
    /\ known \subseteq Pools /\ noSchedule \subseteq known /\ loaded \subseteq Networks
    /\ pc \in Steps /\ cur \in Leases \cup {None} /\ (cur = None <=> pc = "idle")
    /\ work \in LeaseObjects /\ stale \in BOOLEAN /\ poolIdx \in Nat

\* The controller has read its inventory, and there is no lease yet.
Init ==
    /\ api = [l \in Leases |-> Uncreated]
    /\ cache = api
    /\ behind = {}
    /\ cordoned = {} /\ removed = {}
    /\ leases = [l \in Leases |-> NoLease]
    /\ known = Pools /\ noSchedule = {} /\ loaded = Networks
    /\ cur = None /\ pc = "idle" /\ work = NoLease /\ stale = FALSE /\ poolIdx = 0

inventory == <<cordoned, removed>>
inMaps == <<leases, known, noSchedule, loaded>>
inReconcile == <<cur, pc, work, stale, poolIdx>>

----------------------------------------------------------------------------
(* The API server and the informer cache.                                  *)

\* Without lag the cache follows the API server at once.
CacheAfter(l, obj) == IF "lag" \in Faults THEN cache ELSE [cache EXCEPT ![l] = obj]

\* The object of l becomes obj, in a new version; the leases in touched get a new
\* version too, with nothing changed that the model shows.
Write(l, obj, touched) ==
    /\ api' = [api EXCEPT ![l] = obj]
    /\ cache' = CacheAfter(l, obj)
    /\ behind' = IF "lag" \in Faults THEN behind \cup {l} \cup touched ELSE {}

\* Mutated form: the version of the object is not compared.
WriteSucceeds_NoVersion == TRUE

\* A write of the object in hand is accepted only if it is the latest version.
WriteSucceeds == ~stale
WriteFails == stale \/ "error" \in Faults

\* A watch event brings the cache up to date.
Sync(l) ==
    /\ l \in behind
    /\ cache' = [cache EXCEPT ![l] = api[l]]
    /\ behind' = behind \ {l}
    /\ UNCHANGED <<api, inventory, inMaps, inReconcile>>

\* A user creates a lease.
CreateLease(l) ==
    /\ api[l].phase = "Uncreated"
    /\ Write(l, NewLease, {})
    /\ UNCHANGED <<inventory, inMaps, inReconcile>>

\* A user, or PruneAbandonedLeases, deletes it: the finalizer keeps the object.
DeleteLease(l) ==
    /\ Exists(api[l]) /\ ~api[l].deleting
    /\ LET obj == IF api[l].finalizer THEN [api[l] EXCEPT !.deleting = TRUE] ELSE NoLease
       IN  Write(l, obj, {})
    /\ stale' = (stale \/ cur = l)
    /\ UNCHANGED <<inventory, inMaps, cur, pc, work, poolIdx>>

\* An administrator sets or clears a pool's noSchedule.
SetNoSchedule(p) ==
    /\ p \notin removed
    /\ cordoned' = IF p \in cordoned THEN cordoned \ {p} ELSE cordoned \cup {p}
    /\ UNCHANGED <<api, cache, behind, removed, inMaps, inReconcile>>

\* The members of the sequence s that are not in gone, in their order: the k-th is the
\* one with k kept positions up to its own.
Without(s, gone) ==
    LET kept    == {i \in DOMAIN s : s[i] \notin gone}
        rank(i) == Cardinality({j \in kept : j <= i})
    IN  [k \in 1..Cardinality(kept) |-> s[CHOOSE i \in kept : rank(i) = k]]

\* The garbage collector takes the references to deleted objects away, and deletes
\* a lease that has no other.
CollectGarbage(l) ==
    /\ Exists(api[l]) /\ ~api[l].deleting
    /\ (PoolsOf(api[l]) \cup api[l].nets) \cap removed # {}
    /\ LET left == [api[l] EXCEPT !.pools = Without(@, removed), !.nets = @ \ removed]
           obj  == IF left.pools = <<>> /\ left.nets = {} THEN [api[l] EXCEPT !.deleting = TRUE] ELSE left
       IN  Write(l, obj, {})
    /\ stale' = (stale \/ cur = l)
    /\ UNCHANGED <<inventory, inMaps, cur, pc, work, poolIdx>>

----------------------------------------------------------------------------
(* The pool and network controllers, as far as they feed the maps.         *)

\* PoolReconciler: the entry is replaced by the object of the API server.
ReconcilePool(p) ==
    /\ pc = "idle" /\ p \notin removed
    /\ known' = known \cup {p}
    /\ noSchedule' = (noSchedule \ {p}) \cup (cordoned \cap {p})
    /\ UNCHANGED <<api, cache, behind, inventory, leases, loaded, inReconcile>>

\* NetworkReconciler.
ReconcileNetwork(n) ==
    /\ pc = "idle" /\ n \notin removed
    /\ loaded' = loaded \cup {n}
    /\ UNCHANGED <<api, cache, behind, inventory, leases, known, noSchedule, inReconcile>>

\* Mutated form: the entry stays.
RemovePool_KeepsEntry(p) ==
    /\ pc = "idle" /\ p \notin removed
    /\ removed' = removed \cup {p}
    /\ UNCHANGED <<api, cache, behind, cordoned, inMaps, inReconcile>>

\* An administrator deletes a pool.  Until the PoolReconciler, which holds the lock,
\* drops its finalizer, nothing tells it from any other: a write that is refused
\* changes nothing.  After the write the entry goes, unless the answer was lost: then
\* the PoolReconciler returns the error, and does not find the pool when it retries.
RemovePool(p) ==
    /\ pc = "idle" /\ p \notin removed
    /\ removed' = removed \cup {p}
    /\ \E dropped \in IF "lost" \in Faults THEN {{}, {p}} ELSE {{p}} :
          known' = known \ dropped /\ noSchedule' = noSchedule \ dropped
    /\ UNCHANGED <<api, cache, behind, cordoned, leases, loaded, inReconcile>>

\* An administrator deletes a network: the NetworkReconciler deletes its key from the
\* pools map, where it is not, and the networks map keeps it.
RemoveNetwork(n) ==
    /\ pc = "idle" /\ n \notin removed
    /\ removed' = removed \cup {n}
    /\ UNCHANGED <<api, cache, behind, cordoned, inMaps, inReconcile>>

----------------------------------------------------------------------------
(* What a reconcile computes from the maps.                                *)

\* Mutated form: only fulfilled leases count.
OwnedNetworks_Fulfilled == UNION {leases[l].nets : l \in {m \in Leases : leases[m].phase = "Fulfilled"}}

OwnedNetworks == UNION {leases[l].nets : l \in Leases}

\* What a set of leases asks for, together.  A unit of a resource is a lease and a
\* number, and the sum is the number of units.
Total(S) ==
    [vcpus  |-> Cardinality(UNION {{l} \X (1..LeaseSpec[l].vcpus) : l \in S}),
     memory |-> Cardinality(UNION {{l} \X (1..LeaseSpec[l].memory) : l \in S})]

\* Mutated form: only fulfilled leases count.
FreeNow_Fulfilled ==
    [p \in Pools |->
        FreeResources(p, Total({l \in Leases : leases[l].phase = "Fulfilled" /\ p \in PoolsOf(leases[l])}))]

\* reconcilePoolStates: what the leases of the map leave of each pool.
FreeNow ==
    [p \in Pools |-> FreeResources(p, Total({l \in Leases : p \in PoolsOf(leases[l])}))]

\* A lease with several networks and no required pool stands for the pool its
\* status shows.
WantedPool(m) ==
    IF LeaseSpec[m].networks > 1 /\ LeaseSpec[m].requiredPool = None
      THEN leases[m].name
      ELSE LeaseSpec[m].requiredPool

\* Mutated form: leases of other network types count too.
shouldLeaseBeDelayed_AnyType(l, phase) ==
    LET wanted == LeaseSpec[l].requiredPool
    IN  /\ phase = "Pending"
        /\ \E m \in Leases \ {l} :
              \/ /\ leases[m].phase = "Partial"
                 /\ wanted = None \/ WantedPool(m) = wanted
              \/ /\ leases[m].phase = "Pending"
                 /\ wanted = None \/ WantedPool(m) \in {None, wanted}
                 /\ LeaseSpec[m].created < LeaseSpec[l].created

\* A lease in phase `phase` waits for the partial leases of its type and for the
\* older pending ones, as far as they may want the same pool.
shouldLeaseBeDelayed(l, phase) ==
    LET wanted == LeaseSpec[l].requiredPool
    IN  /\ phase = "Pending"
        /\ \E m \in Leases \ {l} :
              /\ LeaseSpec[m].networkType = LeaseSpec[l].networkType
              /\ \/ /\ leases[m].phase = "Partial"
                    /\ wanted = None \/ WantedPool(m) = wanted
                 \/ /\ leases[m].phase = "Pending"
                    /\ wanted = None \/ WantedPool(m) \in {None, wanted}
                    /\ LeaseSpec[m].created < LeaseSpec[l].created

\* The sets of networks getCommonNetworksForLease may return: those of the first
\* sibling in map order that owns any.
SiblingNetworks(l) ==
    {leases[m].nets \cap loaded : m \in {s \in Leases : Exists(leases[s]) /\ Siblings(l, s)}} \ {{}}

\* resolveSiblingPools: the pools the siblings own or, before that, require.
SiblingPools(l) ==
    known \cap UNION {IF PoolsOf(cache[m]) = {} THEN {LeaseSpec[m].requiredPool} ELSE PoolsOf(cache[m]) :
                        m \in {s \in Leases : /\ Siblings(l, s) /\ Exists(cache[s])
                                              /\ ~cache[s].deleting}}

\* The lists of networks the loop may consider for the lease in pool p.
ConsideredNetworks(l, p, first) ==
    LET type     == LeaseSpec[l].networkType
        free     == getAvailableNetworks(p, type, loaded, OwnedNetworks)
        together == PoolsOf(leases[l]) \cup SiblingPools(l)
        common   == commonPortGroupNames(together, type, loaded, OwnedNetworks)
    IN  IF SiblingNetworks(l) # {}
          THEN {resolveCommonNetworksForPool(c, p, type, loaded, OwnedNetworks) : c \in SiblingNetworks(l)}
          ELSE {IF first THEN {n \in free : NetworkSpec[n].portGroup \in common} ELSE free}

----------------------------------------------------------------------------
(* The wake-ups a reconcile ends with.                                     *)

\* triggerPoolUpdates reads every pool of the map again; the entry of one that is not
\* found stays as it is.
triggerPoolUpdates ==
    noSchedule' = ((cordoned \cap known) \ removed) \cup (noSchedule \cap removed)

\* The last write of a reconcile, followed by triggerLeaseUpdates on the leases
\* map `map`: the entries of the waiting leases of the type are overwritten by
\* what the cache holds, and the oldest of them is touched in the API server
\* (where the write fails if the version read is not the latest).
WriteAndTriggerLeaseUpdates(l, obj, map) ==
    LET cached == CacheAfter(l, obj)
        refreshed == {m \in Leases : /\ Exists(map[m]) /\ map[m].phase \notin Terminal
                                     /\ LeaseSpec[m].networkType = LeaseSpec[l].networkType
                                     /\ Exists(cached[m])}
        oldest == {m \in refreshed : \A k \in refreshed : LeaseSpec[m].created <= LeaseSpec[k].created}
    IN  /\ leases' = [m \in Leases |-> IF m \in refreshed THEN cached[m] ELSE map[m]]
        /\ \E touched \in IF oldest = {} THEN {{}} ELSE {{m} : m \in oldest} : Write(l, obj, touched)

----------------------------------------------------------------------------
(* A reconcile, up to the leases map.                                      *)

Goto(step) == pc' = step /\ UNCHANGED <<cur, stale, poolIdx>>

EndReconcile ==
    /\ pc' = "idle" /\ cur' = None
    /\ work' = NoLease /\ stale' = FALSE /\ poolIdx' = 0

\* The next step before the lease enters the map.
NextIntake(obj) ==
    IF obj.phase = "" THEN "initStatus"
    ELSE IF ~obj.finalizer THEN "addFinalizer"
    ELSE IF obj.deleting THEN "dropFinalizer"
    ELSE "admit"

\* The worker takes l from the queue and reads it from the cache.  Nothing happens
\* for a lease that is not found.
GetLease(l) ==
    /\ pc = "idle" /\ Exists(cache[l])
    /\ cur' = l /\ work' = cache[l] /\ stale' = (l \in behind) /\ poolIdx' = 0
    /\ pc' = NextIntake(cache[l])
    /\ UNCHANGED <<api, cache, behind, inventory, inMaps>>

WriteSteps == Steps \ {"idle", "admit", "pools", "networks"}

\* A write that is refused ends the reconcile with the error; what it changed in the
\* leases map stays.
WriteError ==
    /\ pc \in WriteSteps /\ WriteFails
    /\ EndReconcile
    /\ UNCHANGED <<api, cache, behind, inventory, inMaps>>

Intake(step, obj) ==
    /\ pc = step /\ WriteSucceeds
    /\ Write(cur, obj, {})
    /\ work' = obj
    /\ Goto(NextIntake(obj))
    /\ UNCHANGED <<inventory, inMaps>>

Initialised ==
    [work EXCEPT !.phase = "Pending", !.conds = Set(@, {"Pending"}, {"Fulfilled", "Partial"})]
Finalized == [work EXCEPT !.finalizer = TRUE]

InitStatus == Intake("initStatus", Initialised)
AddFinalizer == Intake("addFinalizer", Finalized)

\* Mutated form: the lease stays in the map.
DropFinalizer_KeepsEntry ==
    /\ pc = "dropFinalizer" /\ WriteSucceeds
    /\ WriteAndTriggerLeaseUpdates(cur, NoLease, leases)
    /\ triggerPoolUpdates
    /\ EndReconcile
    /\ UNCHANGED <<inventory, known, loaded>>

\* The deletion path: without the finalizer the API server forgets the lease, then
\* the map does, and whoever waits is woken up.
DropFinalizer ==
    /\ pc = "dropFinalizer" /\ WriteSucceeds
    /\ WriteAndTriggerLeaseUpdates(cur, NoLease, [leases EXCEPT ![cur] = NoLease])
    /\ triggerPoolUpdates
    /\ EndReconcile
    /\ UNCHANGED <<inventory, known, loaded>>

----------------------------------------------------------------------------
(* A reconcile, from the leases map on.                                    *)

Mem == leases[cur]
SetMem(obj) == leases' = [leases EXCEPT ![cur] = obj]

\* Mutated form: only the Pool references are dropped.
NoRefs_PoolsOnly(obj) == [obj EXCEPT !.pools = <<>>]

\* obj without its Pool and Network owner references.
NoRefs(obj) == [obj EXCEPT !.pools = <<>>, !.nets = {}]

\* The answer obj of a write is decoded into the object in hand: what the answer
\* has replaces what is there, but a field that it leaves out, as the API server
\* does with an empty list of owner references, stays.
Decoded(mem, obj) ==
    IF obj.pools = <<>> /\ obj.nets = {}
      THEN [obj EXCEPT !.pools = mem.pools, !.nets = mem.nets]
      ELSE obj
InMemory == UNCHANGED <<api, cache, behind, inventory, known, noSchedule, loaded>>

\* The lease enters the map and the reconcile goes on with step.
Admit(obj, step) ==
    /\ SetMem(obj) /\ work' = NoLease
    /\ Goto(step)
    /\ InMemory

AdmitTerminal ==
    /\ pc = "admit" /\ work.phase \in Terminal
    /\ SetMem(work)
    /\ EndReconcile
    /\ InMemory

Satisfiable == IsLeaseSatisfiable(LeaseSpec[cur], known, noSchedule)

\* Mutated form: a condition is named after the phase.
failLeaseIfUnsatisfiable_SetsFailed ==
    /\ pc = "admit" /\ work.phase \notin Terminal /\ ~Satisfiable
    /\ Admit([NoRefs(work) EXCEPT !.phase = "Failed", !.conds = Set(@, {"Failed"}, ConditionTypes)], "failRefs")

\* failLeaseIfUnsatisfiable changes the object in the map before anything is written.
failLeaseIfUnsatisfiable ==
    /\ pc = "admit" /\ work.phase \notin Terminal /\ ~Satisfiable
    /\ Admit([NoRefs(work) EXCEPT !.phase = "Failed", !.conds = Set(@, {}, ConditionTypes)], "failRefs")

\* The lease waits for others, or goes on to the pools, if the ones it has can be read.
AdmitOrDelay ==
    \/ /\ shouldLeaseBeDelayed(cur, work.phase)
       /\ Admit([work EXCEPT !.conds = Set(@, {}, {"Fulfilled"})], "delay")
    \/ /\ ~shouldLeaseBeDelayed(cur, work.phase) /\ PoolsOf(work) \cap removed = {}
       /\ Admit(work, "pools")
    \/ /\ ~shouldLeaseBeDelayed(cur, work.phase) /\ PoolsOf(work) \cap removed # {}
       /\ SetMem(work)
       /\ EndReconcile
       /\ InMemory

\* Mutated form: no early return for a failed or fulfilled lease.
AdmitWaiting_Again == pc = "admit" /\ Satisfiable /\ AdmitOrDelay

AdmitWaiting == pc = "admit" /\ work.phase \notin Terminal /\ Satisfiable /\ AdmitOrDelay

\* A write of the status leaves the rest of the persisted object alone, and a write
\* of the rest leaves the status alone.
WithStatus ==
    [api[cur] EXCEPT !.phase = Mem.phase, !.name = Mem.name, !.conds = Mem.conds]
WithRefs == [api[cur] EXCEPT !.pools = Mem.pools, !.nets = Mem.nets]

\* Mutated form: only the status is written.
FailRefs_Skipped ==
    /\ pc = "failRefs" /\ WriteSucceeds
    /\ Goto("failStatus")
    /\ UNCHANGED <<api, cache, behind, inventory, inMaps, work>>

FailRefs ==
    /\ pc = "failRefs" /\ WriteSucceeds
    /\ Write(cur, WithRefs, {})
    /\ Goto("failStatus")
    /\ UNCHANGED <<inventory, inMaps, work>>

FailStatus ==
    /\ pc = "failStatus" /\ WriteSucceeds
    /\ WriteAndTriggerLeaseUpdates(cur, WithStatus, leases)
    /\ triggerPoolUpdates
    /\ EndReconcile
    /\ UNCHANGED <<inventory, known, loaded>>

\* The conditions are written; then the oldest waiting lease is woken up.
Delay ==
    /\ pc = "delay" /\ WriteSucceeds
    /\ WriteAndTriggerLeaseUpdates(cur, WithStatus, leases)
    /\ EndReconcile
    /\ UNCHANGED <<inventory, known, noSchedule, loaded>>

----------------------------------------------------------------------------
(* The pool loop.                                                          *)

Asked == LeaseSpec[cur]
Assigned == PoolsOf(Mem)
Incomplete == Cardinality(Assigned) < requiredPools(Asked)
VCenterConstrained == Asked.vcenters > 0 \/ Asked.minVCenters > 0

Exclusions == ExcludedVCenters(Asked, Assigned, known \ Assigned, noSchedule, FreeNow)

Candidates(excluded) ==
    GetPoolWithStrategy(Asked, Assigned, known \ Assigned, noSchedule, FreeNow, excluded,
                        GetDiversityExcludedVCenters(Asked, Assigned))

StuckOnFilters(excluded) ==
    \/ CapReached(Asked, Assigned)
    \/ ~DiversityPending(Asked, Assigned) /\ excluded # {}

AssignPool ==
    /\ pc = "pools" /\ Incomplete
    /\ \E excluded \in Exclusions : \E p \in Candidates(excluded) :
          SetMem([Mem EXCEPT !.pools = Append(@, p)])
    /\ InMemory /\ UNCHANGED inReconcile

\* The references go from the object in the map first.
ReleasePools ==
    /\ pc = "pools" /\ Incomplete
    /\ Assigned # {} /\ VCenterConstrained
    /\ \E excluded \in Exclusions : Candidates(excluded) = {} /\ StuckOnFilters(excluded)
    /\ SetMem(NoRefs(Mem))
    /\ Goto("releaseRefs")
    /\ InMemory /\ UNCHANGED work

\* Then from the API server, whose answer takes back what this reconcile changed in
\* the status.  The write of the status that follows changes nothing the model
\* shows: the Fulfilled condition, which it clears, is not set.
ReleaseRefs ==
    /\ pc = "releaseRefs" /\ WriteSucceeds
    /\ Write(cur, WithRefs, {})
    /\ SetMem(Decoded(Mem, WithRefs))
    /\ EndReconcile
    /\ UNCHANGED <<inventory, known, noSchedule, loaded>>

NoPoolFits ==
    /\ pc = "pools" /\ Incomplete
    /\ Assigned = {} \/ ~VCenterConstrained
    /\ \E excluded \in Exclusions : Candidates(excluded) = {}
    /\ Goto("noPool")
    /\ InMemory /\ UNCHANGED <<leases, work>>

\* Only the status is written: the picks of this reconcile are not.  They stay in
\* the map until the lease is read again.
NoPool ==
    /\ pc = "noPool" /\ WriteSucceeds
    /\ Write(cur, WithStatus, {})
    /\ SetMem(Decoded(Mem, WithStatus))
    /\ EndReconcile
    /\ UNCHANGED <<inventory, known, noSchedule, loaded>>

\* The loop ends with all pools, or with some and the hope for more.
PoolsDone ==
    /\ pc = "pools"
    /\ \/ ~Incomplete
       \/ /\ Incomplete /\ Assigned # {} /\ VCenterConstrained
          /\ \E excluded \in Exclusions : Candidates(excluded) = {} /\ ~StuckOnFilters(excluded)
    /\ SetMem([Mem EXCEPT !.name = PoolSpec[Mem.pools[1]].name])
    /\ pc' = "networks" /\ poolIdx' = 1
    /\ InMemory /\ UNCHANGED <<cur, work, stale>>

----------------------------------------------------------------------------
(* The network loop and the final writes.                                  *)

AssignNetworks ==
    /\ pc = "networks" /\ poolIdx <= Len(Mem.pools)
    /\ LET p     == Mem.pools[poolIdx]
           first == poolIdx = 1
       IN  \E avail \in ConsideredNetworks(cur, p, first) :
           \E S \in NetworkPicks(first, p, Mem.nets, avail, Asked.networks, loaded) :
               SetMem([Mem EXCEPT !.nets = @ \cup S])
    /\ poolIdx' = poolIdx + 1
    /\ InMemory /\ UNCHANGED <<cur, pc, work, stale>>

Missing == poolMissingNetworks(Assigned, Mem.nets, loaded)

\* Mutated form: Pending stays.
WithPhase_Pending(obj, phase) ==
    [obj EXCEPT !.phase = phase,
                !.conds = Set(@, {phase}, {"Fulfilled", "Partial"} \ {phase})]

WithPhase(obj, phase) ==
    [obj EXCEPT !.phase = phase,
                !.conds = Set(@, {phase}, {"Fulfilled", "Pending", "Partial"} \ {phase})]

\* Mutated form: the number of pools is not looked at.
NetworksDone_AnyPools ==
    /\ pc = "networks" /\ poolIdx > Len(Mem.pools)
    /\ LET done == AllPoolsHaveNetworks(Assigned, Mem.nets, Asked.networks, loaded)
       IN  SetMem(IF Missing THEN Mem ELSE WithPhase(Mem, IF done THEN "Fulfilled" ELSE "Partial"))
    /\ Goto(IF Missing THEN "saveMissing" ELSE "saveRefs")
    /\ InMemory /\ UNCHANGED work

\* The phase is computed, or left out when a pool has no network at all.
NetworksDone ==
    /\ pc = "networks" /\ poolIdx > Len(Mem.pools)
    /\ LET done == ~Incomplete /\ AllPoolsHaveNetworks(Assigned, Mem.nets, Asked.networks, loaded)
       IN  SetMem(IF Missing THEN Mem ELSE WithPhase(Mem, IF done THEN "Fulfilled" ELSE "Partial"))
    /\ Goto(IF Missing THEN "saveMissing" ELSE "saveRefs")
    /\ InMemory /\ UNCHANGED work

SaveMissing ==
    /\ pc = "saveMissing" /\ WriteSucceeds
    /\ Write(cur, WithRefs, {})
    /\ SetMem(Decoded(Mem, WithRefs))
    /\ EndReconcile
    /\ UNCHANGED <<inventory, known, noSchedule, loaded>>

\* Mutated form: only the status is written.
SaveRefs_Skipped ==
    /\ pc = "saveRefs" /\ WriteSucceeds
    /\ Goto("saveStatus")
    /\ UNCHANGED <<api, cache, behind, inventory, inMaps, work>>

SaveRefs ==
    /\ pc = "saveRefs" /\ WriteSucceeds
    /\ Write(cur, WithRefs, {})
    /\ Goto("saveStatus")
    /\ UNCHANGED <<inventory, inMaps, work>>

SaveStatus ==
    /\ pc = "saveStatus" /\ WriteSucceeds
    /\ \/ /\ Mem.phase = "Fulfilled"
          /\ WriteAndTriggerLeaseUpdates(cur, WithStatus, leases)
          /\ triggerPoolUpdates
       \/ /\ Mem.phase # "Fulfilled"
          /\ Write(cur, WithStatus, {})
          /\ UNCHANGED <<leases, noSchedule>>
    /\ EndReconcile
    /\ UNCHANGED <<inventory, known, loaded>>

----------------------------------------------------------------------------
(* What happens between the writes.                                        *)

\* The object that the write the reconcile has come to leaves in the API server.
Written ==
    CASE pc = "initStatus"    -> Initialised
      [] pc = "addFinalizer"  -> Finalized
      [] pc = "dropFinalizer" -> NoLease
      [] pc \in {"failRefs", "releaseRefs", "saveMissing", "saveRefs"}  -> WithRefs
      [] pc \in {"failStatus", "delay", "noPool", "saveStatus"}         -> WithStatus

\* A write whose answer is lost is applied, and still ends the reconcile with an
\* error: nothing that comes after it happens, in the maps neither.
LostAnswer ==
    /\ "lost" \in Faults
    /\ pc \in WriteSteps /\ WriteSucceeds
    /\ Write(cur, Written, {})
    /\ EndReconcile
    /\ UNCHANGED <<inventory, inMaps>>

\* The process dies and comes back: the maps are empty, the caches are filled
\* from the API server before the controllers start.
Restart ==
    /\ "restart" \in Faults
    /\ leases' = [l \in Leases |-> NoLease]
    /\ known' = {} /\ noSchedule' = {} /\ loaded' = {}
    /\ cache' = api /\ behind' = {}
    /\ EndReconcile
    /\ UNCHANGED <<api, inventory>>

Reconcile ==
    \/ \E l \in Leases : GetLease(l)
    \/ WriteError \/ LostAnswer
    \/ InitStatus \/ AddFinalizer \/ DropFinalizer
    \/ AdmitTerminal \/ failLeaseIfUnsatisfiable \/ AdmitWaiting
    \/ FailRefs \/ FailStatus \/ Delay
    \/ AssignPool \/ ReleasePools \/ ReleaseRefs \/ NoPoolFits \/ NoPool \/ PoolsDone
    \/ AssignNetworks \/ NetworksDone \/ SaveMissing \/ SaveRefs \/ SaveStatus

Environment ==
    \/ \E l \in Leases : CreateLease(l) \/ DeleteLease(l) \/ Sync(l) \/ CollectGarbage(l)
    \/ \E p \in Cordonable : SetNoSchedule(p)
    \/ \E p \in Removable \cap Pools : RemovePool(p)
    \/ \E n \in Removable \cap Networks : RemoveNetwork(n)

Next ==
    \/ Reconcile
    \/ \E p \in Pools : ReconcilePool(p)
    \/ \E n \in Networks : ReconcileNetwork(n)
    \/ Environment
    \/ Restart

Spec == Init /\ [][Next]_vars

\* The workqueue hands out waiting leases first in, first out: every return of
\* Reconcile for a waiting lease carries an error or a RequeueAfter, and a
\* reconcile runs to its end.  The jobs that hold fulfilled leases end, and the
\* garbage collector gets round to every lease.
ReconcileStep == cur # None /\ Reconcile
FairSpec ==
    /\ Spec
    /\ WF_vars(ReconcileStep)
    /\ \A l \in Leases : /\ SF_vars(GetLease(l))
                         /\ WF_vars(api[l].phase = "Fulfilled" /\ DeleteLease(l))
                         /\ WF_vars(CollectGarbage(l))

----------------------------------------------------------------------------
(* Properties.                                                             *)

\* Two leases own the same network only as siblings of one job, which share a
\* stretched network on purpose (getAvailableNetworks, getCommonNetworksForLease).
NoDoubleBooking ==
    \A l, m \in Leases :
        l # m /\ api[l].nets \cap api[m].nets # {} => Siblings(l, m)

\* The leases that own a pool fit into it together, over-commitment included
\* (GetFittingPools checks one lease against what the map says is left).
CapacityRespected ==
    \A p \in Pools :
        LET users == {l \in Leases : p \in PoolsOf(api[l])}
            left  == FreeResources(p, Total(users))
        IN  users # {} => left.vcpus >= 0 /\ left.memory >= 0

\* The leases that are not being deleted never get into each other's way.  A vCenter cap
\* that is reached, or a cordon that makes a lease unsatisfiable, takes references from the
\* map before they are taken from the API server, and a user's delete in between leaves
\* them there, free to be given to others; the lease that is being deleted then owns what
\* they own, but they must not meet (failLeaseIfUnsatisfiable, the release in the pool
\* loop, triggerLeaseUpdates).
Live(l) == ~api[l].deleting
LiveLeasesExclude ==
    /\ \A l, m \in Leases :
          l # m /\ Live(l) /\ Live(m) /\ api[l].nets \cap api[m].nets # {} => Siblings(l, m)
    /\ \A p \in Pools :
          LET users == {l \in Leases : Live(l) /\ p \in PoolsOf(api[l])}
              left  == FreeResources(p, Total(users))
          IN  users # {} => left.vcpus >= 0 /\ left.memory >= 0

\* A lease that reports Fulfilled owns all its pools, within its vCenter bounds,
\* and in each of them the networks it asked for, whatever failed on the way.
FulfilledComplete ==
    \A l \in Leases : api[l].phase = "Fulfilled" =>
        LET lease == LeaseSpec[l]
            pools == PoolsOf(api[l])
            n     == Cardinality(GetVCentersInUse(pools))
        IN  /\ Len(api[l].pools) = requiredPools(lease) /\ Cardinality(pools) = requiredPools(lease)
            /\ n >= lease.minVCenters /\ (lease.vcenters > 0 => n <= lease.vcenters)
            /\ AllPoolsHaveNetworks(pools, api[l].nets, lease.networks, Networks)

\* What a lease owns never leaves the vCenter bounds of its spec and names no pool
\* twice, in any phase: the loop enforces the bounds one pick at a time, and the
\* picks of a lease may be spread over crashes, failed writes and stale reads.
OwnedWithinBounds ==
    \A l \in Leases :
        /\ Len(api[l].pools) = Cardinality(PoolsOf(api[l]))
        /\ WithinVCenterBounds(LeaseSpec[l], PoolsOf(api[l]))

\* A failed lease has given everything back before it says so.
FailedHoldsNothing ==
    \A l \in Leases : api[l].phase = "Failed" => api[l].pools = <<>> /\ api[l].nets = {}

\* Once a lease is fulfilled or failed, its phase and what it owns never change
\* until it is deleted: a late reconcile from an old copy cannot take it back.
TerminalIsFinal ==
    [][\A l \in Leases : api[l].phase \in Terminal =>
          \/ api'[l].phase = "Gone"
          \/ api'[l] = [api[l] EXCEPT !.deleting = api'[l].deleting]]_vars

MeetInVCenter(obj, other) ==
    GetVCentersInUse(PoolsOf(obj)) \cap GetVCentersInUse(PoolsOf(other)) # {}

\* Siblings that meet in a vCenter and are both fulfilled, with one network per pool
\* each, use the same port groups (getCommonNetworksForLease, "common port groups are
\* scoped to a single vCenter").
SiblingsConverge ==
    \A l, m \in Leases :
        (/\ Siblings(l, m) /\ api[l].phase = "Fulfilled" /\ api[m].phase = "Fulfilled"
         /\ LeaseSpec[l].networks = 1 /\ LeaseSpec[m].networks = 1
         /\ MeetInVCenter(api[l], api[m]))
            => PortGroups(api[l].nets) = PortGroups(api[m].nets)

\* A lease does without a network that is free in its pool only for the sake of a
\* sibling in the same vCenter: "When leases cross vCenters, those leases will have
\* different network leases."  getCommonNetworksForLease looks at no vCenter.
SiblingsBindWithinVCenter ==
    pc = "saveMissing" /\ Cardinality(Assigned) = 1 =>
        \/ \A p \in Assigned : getAvailableNetworks(p, Asked.networkType, loaded, OwnedNetworks) = {}
        \/ \E m \in Leases : Siblings(cur, m) /\ MeetInVCenter(Mem, leases[m])

\* The pools of a fulfilled lease are connected by the same VLANs.
PoolsShareVlans ==
    \A l \in Leases : api[l].phase = "Fulfilled" =>
        \A p, q \in PoolsOf(api[l]) :
            \A n \in api[l].nets \cap getNetworksForPool(p, Networks) :
                \E m \in api[l].nets \cap getNetworksForPool(q, Networks) : SameVlan(n, m)

\* Whatever network a lease with several pools owns has a counterpart, taken or
\* not, in each of them: the network picked for the first pool must exist in every
\* other one.
NetworksMatchEveryPool ==
    \A l \in Leases : \A n \in api[l].nets : \A p \in PoolsOf(api[l]) :
        \E m \in getNetworksForPool(p, Networks) : SameVlan(n, m)

\* A lease fails only if the inventory of the API server cannot satisfy it.
FailsOnlyIfUnsatisfiable ==
    [][\A l \in Leases :
          api[l].phase # "Failed" /\ api'[l].phase = "Failed"
            => ~IsLeaseSatisfiable(LeaseSpec[l], Pools \ removed, cordoned)]_vars

\* Cordoning a pool takes it from no lease: existing leases stay until they are
\* deleted.
ExistingLeasesStay ==
    [][\A l \in Leases : Exists(api'[l])
          => PoolsOf(api[l]) \cap cordoned \subseteq PoolsOf(api'[l])]_vars

\* A lease that waits as Partial has something to show for it: when the cap is reached
\* and everything is given back, it goes "back to PENDING" (the comment and the logs of
\* the release in the pool loop).
PartialHoldsPools ==
    pc = "idle" => \A l \in Leases : api[l].phase = "Partial" => api[l].pools # <<>>

\* The conditions of a lease say what its phase says: they are set in several places
\* of several reconciles, and a write that fails between them leaves no mixture.
ConditionsMatchPhase ==
    \A l \in Leases : Exists(api[l]) => api[l].conds = {api[l].phase} \cap ConditionTypes

\* Nothing is held for a lease that is gone: an entry of the leases map, which
\* counts in every decision and which only the deletion path removes, is that of a
\* lease of the API server.  The answer of the write that drops the finalizer must
\* arrive for it: the code after it is the only one that deletes the entry.
NoGhostOwners == \A l \in Leases : Exists(leases[l]) => Exists(api[l])

\* No lease is given a pool that has been deleted: the PoolReconciler drops its
\* finalizer and then its entry of the pools map under the lock that every reconcile
\* of a lease holds, so that none reads the map in between; the answer of the write
\* must arrive, or the entry stays.
NoRemovedPoolIsGiven ==
    [][\A l \in Leases : (PoolsOf(api'[l]) \ PoolsOf(api[l])) \cap removed = {}]_vars

\* The lease controller implements LeaseLifecycle: what an owner sees of a lease
\* object, and what each lease asks for.
Shown(obj) == [phase |-> obj.phase, pools |-> PoolsOf(obj), nets |-> obj.nets, ending |-> obj.deleting]
Lifecycle ==
    INSTANCE LeaseLifecycle WITH
        Wanted <- [l \in Leases |-> [pools |-> requiredPools(LeaseSpec[l]), networks |-> LeaseSpec[l].networks]],
        lease  <- [l \in Leases |-> Shown(api[l])]

\* Whatever fails, dies or lags, a lease's owner sees a LeaseLifecycle.
ImplementsLifecycle == Lifecycle!Spec

\* The leases that fit into an empty pool and queue behind none that does not:
\* IsLeaseSatisfiable does not look at resources, so that a lease larger than every
\* pool stays Pending and holds back every younger lease of its type.
Servable ==
    LET fits(l) ==
            \E p \in Pools :
                LET room == FreeResources(p, Total({}))
                IN  LeaseSpec[l].vcpus <= room.vcpus /\ LeaseSpec[l].memory <= room.memory
    IN  {l \in Leases :
            \A m \in Leases :
                /\ LeaseSpec[m].networkType = LeaseSpec[l].networkType
                /\ LeaseSpec[m].created <= LeaseSpec[l].created
                => fits(m)}

\* Every such lease is eventually fulfilled, failed or gone, whatever the leases of
\* other network types wait for and whichever pools are deleted, as long as no
\* network is: a deleted network is handed out again and again, and taken away by
\* the garbage collector.
EveryLeaseIsServed ==
    \A l \in Servable :
        Exists(api[l]) ~> \/ api[l].phase \in Terminal \/ ~Exists(api[l])
                         \/ removed \cap Networks # {}
============================================================================
