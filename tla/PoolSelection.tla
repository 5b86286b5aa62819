--------------------------- MODULE PoolSelection ---------------------------
(***************************************************************************)
(* The pure functions that decide which pools a lease may be placed on     *)
(* (pkg/utils/pools.go) and the vCenter filtering of the assignment loop   *)
(* (pkg/controller/leases.go).  No state: a lease is its spec record, and  *)
(* everything that changes while the controller runs is a parameter:       *)
(*   known    the pools in the controller's pools map                      *)
(*   cordoned the pools whose spec.noSchedule is set                       *)
(*   free     the resources left in each pool (pool.Status.*Available)     *)
(*   owned    the pools among the lease's owner references                 *)
(***************************************************************************)
EXTENDS Integers, FiniteSets

CONSTANTS
    Pools,      \* the names of the Pool objects
    PoolSpec,   \* the specification of each pool, see PoolSpecType
    None        \* "no value": an empty required-pool, boskos label, ...

(***************************************************************************)
(* A pool's spec.  overCommit is the ratio num/den; labels is a set of     *)
(* <<key, value>> pairs; portGroups are the last elements of the paths in  *)
(* spec.topology.networks; name is the failure domain's name, usually but  *)
(* not necessarily the object's.  The CRD requires a non-empty server, and *)
(* the score of a pool divides by vcpus and memory.                        *)
(***************************************************************************)
PoolFields == {"server", "vcpus", "memory", "overCommit", "exclude", "labels",
               "taints", "pod", "portGroups", "name"}

ASSUME PoolsFinite == IsFiniteSet(Pools) /\ None \notin Pools
ASSUME PoolSpecType ==
    \A p \in Pools :
        /\ DOMAIN PoolSpec[p] = PoolFields
        /\ PoolSpec[p].vcpus \in Nat \ {0} /\ PoolSpec[p].memory \in Nat \ {0}
        /\ PoolSpec[p].overCommit.num \in Nat /\ PoolSpec[p].overCommit.den \in Nat \ {0}
        /\ PoolSpec[p].exclude \in BOOLEAN

Server(p) == PoolSpec[p].server

----------------------------------------------------------------------------
(* Taints, labels and the structural match.                                *)

\* The empty string is a wildcard effect, and with operator Exists a wildcard key.
tolerationMatchesTaint(toleration, taint) ==
    /\ toleration.effect \in {"", taint.effect}
    /\ IF toleration.operator = "Exists"
         THEN toleration.key \in {"", taint.key}
         ELSE toleration.key = taint.key /\ toleration.value = taint.value

LeaseToleratesPoolTaints(lease, p) ==
    \A taint \in PoolSpec[p].taints :
        \E toleration \in lease.tolerations : tolerationMatchesTaint(toleration, taint)

PoolMatchesSelector(lease, p) == lease.poolSelector \subseteq PoolSpec[p].labels

\* The checks that depend on configuration alone.  A pool named by required-pool
\* may be an excluded one.
poolMatchesStructural(lease, p, cordoned) ==
    /\ p \notin cordoned
    /\ IF lease.requiredPool = None THEN ~PoolSpec[p].exclude ELSE lease.requiredPool = p
    /\ PoolMatchesSelector(lease, p)
    /\ LeaseToleratesPoolTaints(lease, p)

StructuralPools(lease, known, cordoned) ==
    {p \in known : poolMatchesStructural(lease, p, cordoned)}

requiredPools(lease) == IF lease.pools = 0 THEN 1 ELSE lease.pools

----------------------------------------------------------------------------
(* Satisfiability: could the request ever be met by the known inventory?   *)

\* The pools of S that reside on one of the vCenters V.
OnVCenters(S, V) == {p \in S : Server(p) \in V}

GetVCentersInUse(assigned) == {Server(p) : p \in assigned}

CountDistinctVCenters(lease, known, cordoned) ==
    Cardinality(GetVCentersInUse(StructuralPools(lease, known, cordoned)))

\* MaxAchievablePools(lease) >= n.  The sum of the largest VCenters per-vCenter
\* counts is the most pools that VCenters vCenters offer together.
MaxAchievableAtLeast(lease, known, cordoned, n) ==
    LET matching == StructuralPools(lease, known, cordoned)
    IN  IF lease.vcenters = 0
          THEN Cardinality(matching) >= n
          ELSE \E V \in SUBSET GetVCentersInUse(matching) :
                   /\ Cardinality(V) <= lease.vcenters
                   /\ Cardinality(OnVCenters(matching, V)) >= n

minVCentersUnsatisfiable(lease, known, cordoned) ==
    /\ lease.minVCenters > 0
    /\ \/ lease.minVCenters > requiredPools(lease)
       \/ lease.vcenters > 0 /\ lease.minVCenters > lease.vcenters
       \/ CountDistinctVCenters(lease, known, cordoned) < lease.minVCenters

IsLeaseSatisfiable(lease, known, cordoned) ==
    /\ ~minVCentersUnsatisfiable(lease, known, cordoned)
    /\ MaxAchievableAtLeast(lease, known, cordoned, requiredPools(lease))

----------------------------------------------------------------------------
(* Fitting: which pools can take the lease now, and which one is picked.   *)

\* What reconcilePoolStates leaves in a pool once used.vcpus and used.memory
\* are taken: int(vcpus * overCommitRatio) - used, and memory - used.
FreeResources(p, used) ==
    LET spec == PoolSpec[p]
    IN  [vcpus  |-> ((spec.vcpus * spec.overCommit.num) \div spec.overCommit.den) - used.vcpus,
         memory |-> spec.memory - used.memory]

GetFittingPools(lease, owned, available, cordoned, free, excludedVCenters, diversityVCenters) ==
    {p \in available \ owned :
        /\ poolMatchesStructural(lease, p, cordoned)
        /\ Server(p) \notin excludedVCenters
        /\ Server(p) \notin diversityVCenters
        /\ free[p].vcpus >= lease.vcpus
        /\ free[p].memory >= lease.memory}

\* Pool p scores above pool q: cpuAvail/cpu + memAvail/mem, without the division.
ScoresAbove(p, q, free) ==
    LET cp == PoolSpec[p].vcpus   mp == PoolSpec[p].memory
        cq == PoolSpec[q].vcpus   mq == PoolSpec[q].memory
    IN  (free[p].vcpus * mp + free[p].memory * cp) * (cq * mq)
          > (free[q].vcpus * mq + free[q].memory * cq) * (cp * mp)

\* The pools the sort may put first: those no other one scores above.  Pools with
\* equal scores come in the random order in which Go iterates the pools map.
GetPoolWithStrategy(lease, owned, available, cordoned, free, excludedVCenters, diversityVCenters) ==
    LET fitting == GetFittingPools(lease, owned, available, cordoned, free,
                                   excludedVCenters, diversityVCenters)
    IN  {p \in fitting : \A q \in fitting : ~ScoresAbove(q, p, free)}

----------------------------------------------------------------------------
(* The vCenter filters of the assignment loop.                             *)

\* MinVCenters is not met yet (the returned map is not nil).
DiversityPending(lease, assigned) ==
    lease.minVCenters > 0 /\ Cardinality(GetVCentersInUse(assigned)) < lease.minVCenters

\* Mutated form: the minimum excludes nothing.
GetDiversityExcludedVCenters_None(lease, assigned) == {}

GetDiversityExcludedVCenters(lease, assigned) ==
    IF DiversityPending(lease, assigned) THEN GetVCentersInUse(assigned) ELSE {}

\* Mutated form: the cap counts as reached one vCenter too late.
CapReached_Late(lease, assigned) ==
    lease.vcenters > 0 /\ Cardinality(GetVCentersInUse(assigned)) > lease.vcenters

CapReached(lease, assigned) ==
    lease.vcenters > 0 /\ Cardinality(GetVCentersInUse(assigned)) >= lease.vcenters

\* (n - 1) / d + 1 in Go, for n >= 1.
CeilDiv(n, d) == ((n - 1) \div d) + 1

\* Mutated form: a vCenter with exactly as many pools as needed is excluded too.
DynamicallyExcluded_OffByOne(lease, assigned, available, fitting) ==
    LET inUse == GetVCentersInUse(assigned)
        slots == lease.vcenters - Cardinality(inUse)
        need  == CeilDiv(requiredPools(lease) - Cardinality(assigned), slots)
    IN  {v \in GetVCentersInUse(available) \ inUse : Cardinality(OnVCenters(fitting, {v})) <= need}

\* Mutated form: full pools are counted too.
DynamicallyExcluded_CountsFull(lease, assigned, available, fitting) ==
    LET inUse == GetVCentersInUse(assigned)
        slots == lease.vcenters - Cardinality(inUse)
        need  == CeilDiv(requiredPools(lease) - Cardinality(assigned), slots)
    IN  {v \in GetVCentersInUse(available) \ inUse : Cardinality(OnVCenters(available, {v})) < need}

\* Dynamic filtering: the unused vCenters with fewer fitting pools than every
\* remaining vCenter slot has to supply.
DynamicallyExcluded(lease, assigned, available, fitting) ==
    LET inUse == GetVCentersInUse(assigned)
        slots == lease.vcenters - Cardinality(inUse)
        need  == CeilDiv(requiredPools(lease) - Cardinality(assigned), slots)
    IN  {v \in GetVCentersInUse(available) \ inUse : Cardinality(OnVCenters(fitting, {v})) < need}

\* The sorts of the vCenters of the fitting pools by their number of pools,
\* descending; equal counts come in any order.
DescendingOrders(fitting) ==
    LET V == GetVCentersInUse(fitting)
        n == Cardinality(V)
        count(v) == Cardinality(OnVCenters(fitting, {v}))
    IN  {order \in [1..n -> V] :
            \A i, j \in 1..n : i < j => order[i] # order[j] /\ count(order[i]) >= count(order[j])}

\* The first pick under a pending diversity requirement: leave out the vCenters
\* that cannot take part in a combination of VCenters vCenters that fulfills the
\* lease.  Needs no exclusion when even the largest ones together are too small.
CombinationExcluded(lease, fitting, order) ==
    LET n          == Cardinality(DOMAIN order)
        required   == requiredPools(lease)
        count(i)   == Cardinality(OnVCenters(fitting, {order[i]}))
        total(I)   == Cardinality(OnVCenters(fitting, {order[i] : i \in I}))
        top        == IF lease.vcenters > n THEN n ELSE lease.vcenters
        enough     == {k \in 1..n : total(1..k) >= required}
        needed     == CHOOSE k \in enough : \A j \in enough : k <= j
        \* the largest vCenters other than the i-th
        others(i)  == IF i < lease.vcenters THEN (1..top) \ {i} ELSE 1..(lease.vcenters - 1)
    IN  IF total(1..top) < required THEN {}
        ELSE IF needed < lease.vcenters
          THEN {order[i] : i \in {j \in (needed + 1)..n : count(j) < CeilDiv(required, lease.vcenters)}}
          ELSE {order[i] : i \in {j \in 1..n : count(j) + total(others(j) \cap 1..n) < required}}

\* The sets of vCenters that one iteration of the loop may exclude because of the cap.
ExcludedVCenters(lease, assigned, available, cordoned, free) ==
    LET inUse     == GetVCentersInUse(assigned)
        remaining == requiredPools(lease) - Cardinality(assigned)
        slots     == lease.vcenters - Cardinality(inUse)
        fitting   == GetFittingPools(lease, assigned, available, cordoned, free, {}, {})
    IN  IF lease.vcenters = 0 THEN {{}}
        ELSE IF CapReached(lease, assigned) THEN {GetVCentersInUse(available) \ inUse}
        ELSE IF ~DiversityPending(lease, assigned) /\ slots > 0 /\ remaining > slots
          THEN {DynamicallyExcluded(lease, assigned, available, fitting)}
        ELSE IF lease.vcenters < requiredPools(lease) /\ assigned = {}
          THEN {CombinationExcluded(lease, fitting, order) : order \in DescendingOrders(fitting)}
        ELSE {{}}

----------------------------------------------------------------------------
(* What the filters are for.                                               *)

\* MinVCenters and VCenters as the API documents them: a set of pools spans as
\* many vCenters as its size allows, up to the minimum, and never more than the
\* cap.
WithinVCenterBounds(lease, S) ==
    LET n == Cardinality(GetVCentersInUse(S))
    IN  /\ n >= lease.minVCenters \/ n = Cardinality(S)
        /\ lease.vcenters > 0 => n <= lease.vcenters
============================================================================
