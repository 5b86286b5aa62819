--------------------------- MODULE PoolAssignment ---------------------------
(***************************************************************************)
(* How one lease collects its pools over successive reconciles: the        *)
(* satisfiability check and the assignment loop of                         *)
(* LeaseReconciler.Reconcile (pkg/controller/leases.go).  One action is    *)
(* one outcome of an iteration of the loop.                                *)
(*                                                                         *)
(* The other leases appear as what they leave free in each pool, which     *)
(* changes arbitrarily between two reconciles of this lease; so does the   *)
(* set of cordoned pools.  During a reconcile neither changes, because it  *)
(* holds reconcileLock and works on the states computed at its start.      *)
(* Networks appear as a nondeterministic final phase: the loop never reads *)
(* them.                                                                   *)
(***************************************************************************)
EXTENDS PoolSelection

CONSTANTS
    LeaseSpecs,     \* the lease specifications considered
    FreeStates,     \* the values [vcpus, memory] that a pool's free resources take
    ApiErrors,      \* TRUE when a write to the API server may fail
    MaxCordoned     \* bound: how many pools are cordoned at once

ASSUME LeaseSpecType ==
    \A lease \in LeaseSpecs :
        /\ {"vcpus", "memory", "pools", "vcenters", "minVCenters", "requiredPool",
            "poolSelector", "tolerations"} \subseteq DOMAIN lease
        /\ lease.pools \in Nat /\ lease.vcenters \in Nat /\ lease.minVCenters \in Nat
ASSUME BoundsType == ApiErrors \in BOOLEAN /\ MaxCordoned \in Nat
\* They may be negative: an administrator may shrink a pool that is in use.
ASSUME FreeStatesType == \A f \in FreeStates : f.vcpus \in Int /\ f.memory \in Int

VARIABLES
    lease,      \* the spec of the lease, fixed
    phase,      \* status.phase as persisted
    refs,       \* the Pool owner references as persisted
    assigned,   \* assignedPools, the working set of a reconcile
    pc,         \* "idle" between reconciles, "loop" inside one
    free,       \* pool.Status.VCpusAvailable and MemoryAvailable of each pool
    cordoned    \* the pools with spec.noSchedule

vars == <<lease, phase, refs, assigned, pc, free, cordoned>>

Phases == {"Pending", "Partial", "Fulfilled", "Failed"}
Terminal == {"Fulfilled", "Failed"}

\* Every variable has its type; the working set is empty between reconciles and
\* grows from the persisted owner references within one.
TypeOK ==
    /\ lease \in LeaseSpecs
    /\ phase \in Phases
    /\ refs \subseteq Pools
    /\ assigned \subseteq Pools
    /\ pc \in {"idle", "loop"}
    /\ free \in [Pools -> FreeStates]
    /\ cordoned \subseteq Pools
    /\ (pc = "idle" => assigned = {})
    /\ (pc = "loop" => refs \subseteq assigned)

Init ==
    /\ lease \in LeaseSpecs
    /\ phase = "Pending"
    /\ refs = {}
    /\ assigned = {}
    /\ pc = "idle"
    /\ free \in [Pools -> FreeStates]
    /\ cordoned = {}

----------------------------------------------------------------------------
(* The rest of the system, between two reconciles.                         *)

\* Other leases take resources of a pool or give them back.
OtherLeases(p) ==
    /\ pc = "idle"
    /\ \E f \in FreeStates \ {free[p]} : free' = [free EXCEPT ![p] = f]
    /\ UNCHANGED <<lease, phase, refs, assigned, pc, cordoned>>

\* An administrator cordons or uncordons a pool.
SetNoSchedule(p) ==
    /\ pc = "idle"
    /\ \/ p \in cordoned /\ cordoned' = cordoned \ {p}
       \/ /\ p \notin cordoned /\ Cardinality(cordoned) < MaxCordoned
          /\ cordoned' = cordoned \cup {p}
    /\ UNCHANGED <<lease, phase, refs, assigned, pc, free>>

----------------------------------------------------------------------------
(* One reconcile.                                                          *)

\* Mutated form: the persisted references are not read back.
Start_FromNothing ==
    /\ pc = "idle" /\ phase \notin Terminal
    /\ IsLeaseSatisfiable(lease, Pools, cordoned)
    /\ pc' = "loop"
    /\ assigned' = {}
    /\ UNCHANGED <<lease, phase, refs, free, cordoned>>

\* Mutated form: a partial lease is not tried again.
Start_PendingOnly ==
    /\ pc = "idle" /\ phase = "Pending"
    /\ IsLeaseSatisfiable(lease, Pools, cordoned)
    /\ pc' = "loop"
    /\ assigned' = refs
    /\ UNCHANGED <<lease, phase, refs, free, cordoned>>

Start ==
    /\ pc = "idle" /\ phase \notin Terminal
    /\ IsLeaseSatisfiable(lease, Pools, cordoned)
    /\ pc' = "loop"
    /\ assigned' = refs
    /\ UNCHANGED <<lease, phase, refs, free, cordoned>>

\* failLeaseIfUnsatisfiable: the owner references are dropped by a first write,
\* the phase is set by a second one that may fail.
Fail ==
    /\ pc = "idle" /\ phase \notin Terminal
    /\ ~IsLeaseSatisfiable(lease, Pools, cordoned)
    /\ refs' = {}
    /\ \/ phase' = "Failed"
       \/ ApiErrors /\ phase' = phase
    /\ UNCHANGED <<lease, assigned, pc, free, cordoned>>

available == Pools \ assigned

Exclusions == ExcludedVCenters(lease, assigned, available, cordoned, free)

\* The pools GetPoolWithStrategy may return under the exclusions.
Candidates(excluded) ==
    GetPoolWithStrategy(lease, assigned, available, cordoned, free, excluded,
                        GetDiversityExcludedVCenters(lease, assigned))

Incomplete == Cardinality(assigned) < requiredPools(lease)

VCenterConstrained(l) == l.vcenters > 0 \/ l.minVCenters > 0

\* The iteration finds no pool and the vCenter filters are to blame.
StuckOnFilters(excluded) ==
    \/ CapReached(lease, assigned)
    \/ ~DiversityPending(lease, assigned) /\ excluded # {}

AssignPool ==
    /\ pc = "loop" /\ Incomplete
    /\ \E excluded \in Exclusions : \E p \in Candidates(excluded) : assigned' = assigned \cup {p}
    /\ UNCHANGED <<lease, phase, refs, pc, free, cordoned>>

EndReconcile(newRefs, newPhases) ==
    /\ refs' = newRefs
    /\ phase' \in newPhases
    /\ pc' = "idle"
    /\ assigned' = {}
    /\ UNCHANGED <<lease, free, cordoned>>

\* Nothing fits because of the cap: give everything back.  The phase is not
\* written.
ReleasePools ==
    /\ pc = "loop" /\ Incomplete
    /\ assigned # {} /\ VCenterConstrained(lease)
    /\ \E excluded \in Exclusions : Candidates(excluded) = {} /\ StuckOnFilters(excluded)
    /\ EndReconcile({}, {phase})

\* Nothing fits for now: keep what is assigned and wait.  When a pool has no
\* network the reconcile ends before the phase is written.
WaitPartial ==
    /\ pc = "loop" /\ Incomplete
    /\ assigned # {} /\ VCenterConstrained(lease)
    /\ \E excluded \in Exclusions : Candidates(excluded) = {} /\ ~StuckOnFilters(excluded)
    /\ EndReconcile(assigned, {"Partial", phase})

\* Mutated form: the metadata is written too.
NoPool_SavesRefs ==
    /\ pc = "loop" /\ Incomplete
    /\ assigned = {} \/ ~VCenterConstrained(lease)
    /\ \E excluded \in Exclusions : Candidates(excluded) = {}
    /\ EndReconcile(assigned, {phase})

\* Nothing fits: only the status is written, so the picks of this reconcile are
\* dropped.
NoPool ==
    /\ pc = "loop" /\ Incomplete
    /\ assigned = {} \/ ~VCenterConstrained(lease)
    /\ \E excluded \in Exclusions : Candidates(excluded) = {}
    /\ EndReconcile(refs, {phase})

\* All pools are there; whether the lease is Fulfilled depends on the networks.
Complete ==
    /\ pc = "loop" /\ ~Incomplete
    /\ EndReconcile(assigned, {"Fulfilled", "Partial", phase})

\* A write, or the Get of an assigned pool, fails: the reconcile returns the error.
Abort ==
    /\ ApiErrors
    /\ pc = "loop"
    /\ EndReconcile(refs, {phase})

Iteration == AssignPool \/ ReleasePools \/ WaitPartial \/ NoPool \/ Complete
Reconcile == Start \/ Fail \/ Iteration

Next ==
    \/ \E p \in Pools : OtherLeases(p) \/ SetNoSchedule(p)
    \/ Reconcile
    \/ Abort

Spec == Init /\ [][Next]_vars

\* A lease that is not terminal is always queued again: every return of Reconcile
\* carries an error or a RequeueAfter, and the worker runs a reconcile to its end.
FairSpec == Spec /\ WF_vars(Reconcile)

----------------------------------------------------------------------------
(* Properties.                                                             *)

\* The pools a lease holds, persisted or being collected, never leave the
\* vCenter bounds of its spec, however long it waits and whatever others do: the
\* loop of leases.go enforces them one pick at a time, over many reconciles.
VCenterBounds == WithinVCenterBounds(lease, refs) /\ WithinVCenterBounds(lease, assigned)

\* A lease without vCenter constraints never sits on some of its pools: it
\* persists all of them or none (the loop returns without the metadata update).
AllOrNothing ==
    ~VCenterConstrained(lease) => refs = {} \/ Cardinality(refs) >= requiredPools(lease)

\* The assigned pools can be completed to a full set within the bounds from what
\* fits now.
Feasible(l, S) ==
    \E extra \in SUBSET GetFittingPools(l, S, Pools \ S, cordoned, free, {}, {}) :
        LET n == Cardinality(GetVCentersInUse(S \cup extra))
        IN  /\ Cardinality(S \cup extra) = requiredPools(l)
            /\ n >= l.minVCenters
            /\ l.vcenters > 0 => n <= l.vcenters

\* No pick walks into a dead end: with a cap or with a minimum, but not both, the
\* filters of the loop keep a lease that can be completed from what fits now
\* completable.
PicksKeepFeasible ==
    [][(AssignPool /\ (lease.minVCenters = 0 \/ lease.vcenters = 0) /\ Feasible(lease, assigned))
        => Feasible(lease, assigned')]_vars

\* Pools are given back only by a lease that cannot be completed from what fits
\* now ("stuck"), and a reconcile that stops collecting without an error has the
\* same excuse.
StopsOnlyWhenStuck ==
    [][(ReleasePools \/ WaitPartial \/ NoPool) => ~Feasible(lease, assigned)]_vars

Roomy ==
    /\ cordoned = {}
    /\ \A p \in Pools : free[p].vcpus >= lease.vcpus /\ free[p].memory >= lease.memory

\* Once everyone else has left the pools alone and they have room, a satisfiable
\* lease gets all of its pools.
EventuallyAllPools == <>[]Roomy => <>(Cardinality(refs) >= requiredPools(lease) \/ phase = "Failed")
============================================================================
