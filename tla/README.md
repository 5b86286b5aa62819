# vsphere-capacity-manager: TLA+ specifications and proofs

vsphere-capacity-manager hands out slices of vSphere capacity to CI jobs. A job
creates a **Lease**; the operator gives it one or more **Pools** (vCPUs and memory
on a vCenter) and, in each pool, **Networks** (port groups), and records them as
owner references of the Lease. This directory models the part of the operator that
decides who gets what, checks it with TLC and proves its core with TLAPS.

## The system

| Component | State | Operations | Correct when |
|---|---|---|---|
| Lease controller (`pkg/controller/leases.go`) | the `leases` map; the Lease objects it writes | one `Reconcile` per lease: first status, finalizer, deletion, satisfiability, delay, pool loop, network loop, two final writes, wake-ups | no network or capacity given out twice; Fulfilled means complete; Failed owns nothing; both final; everyone is served |
| Pool selection (`pkg/utils/pools.go`, the vCenter filters of `leases.go`) | none (pure) | satisfiability, fitting, scoring, cap and minimum filters | picks respect cap and minimum and do not walk into a dead end |
| Network selection (`leases.go`) | the `networks` map | available networks, common port groups, sibling matching, VLAN matching | pools of a lease share VLANs; siblings converge |
| Pool controller (`pools.go`) | the `pools` map | load, cordon, status, delete | the map follows the API server |
| Network controller (`networks.go`) | the `networks` map | load, delete | as above (a deletion does not reach the map: see the live run) |
| Namespace pruner (`namespaces.go`) | none | deletes leases of vanished namespaces | never deletes a lease in use |
| Pool status counters (`reconcilePoolStates`) | `pool.Status` | recompute from the leases map | equal to what the leases leave |
| Conditions (`pkg/utils/conditions`) | `status.conditions` | set, at every change of phase | they say what the phase says |
| Env vars, metrics | status texts, gauges | write-only | informational |

How they interact: the three controllers and the pruner share three in-memory maps
under one mutex, held for a whole reconcile. Reads of objects come from an informer
cache; writes go to the API server, which accepts an object only if it is the
latest version. A reconcile ends by touching the oldest waiting lease and all pools
in the API server, which puts them on the work queues again. Nothing but the API
server's objects survives a restart.

What is hard: a decision is taken from maps filled by other reconciles, from a
copy that may be stale, and is persisted by two writes either of which may fail,
while users delete leases and administrators cordon pools; a lease collects its
pools over many such reconciles. The hazards, with their lines and the properties
that watch them, are listed in `PROJECT.json`.

## The modules

| Module | Models | Kind |
|---|---|---|
| `PoolSelection` | `pkg/utils/pools.go` and the vCenter filters of `leases.go` | operators |
| `PoolAssignment` | the satisfiability check and pool loop for one lease, everyone else as free resources that change | state machine |
| `PoolSelectionProofs` | lemmas about the operators of `PoolSelection`: vCenters of sets of pools, what a pick does to them | proofs |
| `PoolAssignmentProofs` | types and bounds of `PoolAssignment` | proofs |
| `PoolFeasibilityProofs` | no pick ends a completion, and the search stops only when stuck | proofs |
| `NetworkSelection` | the network helpers and the network loop's picks | operators |
| `Conditions` | the condition types and `conditions.Set` | operators |
| `LeaseReconciler` | the lease controller with its maps, the API server, the informer cache and the garbage collector | state machine |
| `LeaseLifecycle` | what a lease's owner may rely on; `LeaseReconciler` implements it | abstract specification |
| `LeaseReconcilerProofs` | type correctness of `LeaseReconciler`, and what holds of each persisted lease by itself | proofs |
| `LeaseLifecycleProofs` | what one step does to a lease; finality, placement, completeness, the refinement | proofs |
| `LeaseExclusionProofs` | what the leases do not do to each other: networks and capacity, without and with caps and cordons | proofs |
| `LeaseNetworkProofs` | the VLANs of a lease of several pools | proofs |
| `LeaseSiblingProofs` | the port group of the leases of one job | proofs |
| `MCPoolAssignment`, `MCLeaseReconciler` | instances for TLC | |

Some operators exist a second time with a suffix (`CapReached_Late`): the form a
plausible bug would give them. Nothing uses them; they stand beside the definition
so that one can put them in its place and see which property fails
(`PROJECT.json`, `mutants`).

### State and actions of PoolAssignment

`refs` and `phase` are the persisted Pool owner references and phase; `assigned` is
`assignedPools`, alive inside a reconcile (`pc = "loop"`). One action is one outcome
of an iteration: `AssignPool`; `ReleasePools` (stuck on the vCenter filters: all
references dropped, phase untouched); `WaitPartial` (keep and wait); `NoPool` (only
the status is written, so this reconcile's picks are dropped); `Complete`. Choices
that Go's map order or the sort leave open (pools of equal score, the order of
vCenters of equal size) are nondeterministic. `OtherLeases` changes what is free in
a pool between two reconciles, `SetNoSchedule` cordons. `Complete` and `WaitPartial`
leave open what the network loop makes of the phase.

### State and actions of LeaseReconciler

| Variable | Code |
|---|---|
| `api` | the Lease objects in the API server: phase, owner references (`pools`, `nets`), status name, the conditions that are True (`conds`), deletion timestamp, finalizer |
| `cache`, `behind` | the informer cache, and the leases it holds an old version of |
| `leases`, `known`, `noSchedule`, `loaded` | the `leases` map, the keys and cordons of the `pools` map, the keys of the `networks` map |
| `cordoned`, `removed` | `spec.noSchedule` in the API server, and the pools and networks deleted from it |
| `cur`, `pc`, `work`, `stale`, `poolIdx` | the reconcile under way: its lease, its next step, the object before it enters the map, whether that object is an old version, the position in the network loop |

The lock makes reconciles sequential, but a reconcile is not atomic: it is cut at
every write to the API server (`InitStatus`, `AddFinalizer`, `DropFinalizer`,
`FailRefs`, `FailStatus`, `Delay`, `ReleaseRefs`, `NoPool`, `SaveMissing`,
`SaveRefs`, `SaveStatus`) and at each iteration of its two loops (`AssignPool`,
`AssignNetworks`). Between the cuts users create and delete leases, administrators
cordon, the cache catches up (`Sync`) and the process may die (`Restart`).
`WriteError` is a write that is refused, because of a conflict or an error of the API
server: the reconcile returns, the map keeps what was changed. `LostAnswer` is a write
that is applied while the client gets an error (a timeout, a broken connection): the
reconcile returns too, the API server has the new object, and what the code does after
the write, in the maps and for the others, does not happen. `Faults` says which of
`"error"`, `"lost"`, `"lag"` and `"restart"` an instance has. The working object is the one in the map (a pointer), so changes are
visible there before, or without, their being written. The answer of a write is
decoded into that object (`Decoded`): what the answer has replaces what is there, but
an empty list of owner references is left out of the answer, and what the object had
then stays. After `NoPool`, which persists only the status of a lease without
references, the picks of the reconcile therefore stay in the map, where they count
for every other lease, until the lease is read again. `WriteAndTriggerLeaseUpdates` and
`triggerPoolUpdates` are the wake-ups at the end of a reconcile, part of the same
action as the last write.

Deletion. `RemovePool` and `RemoveNetwork` are an administrator's delete together
with the reconcile that drops the finalizer: until then nothing in the code tells the
object from any other. The pool controller writes the API server first and takes the
pool out of its map second: if the answer is lost, the pool is gone and the map keeps
it, because the retry finds nothing to reconcile. The network
controller deletes the network's name from the *pools* map, so that the `networks`
map keeps it. `CollectGarbage` is Kubernetes' garbage collector (external): it takes
references to deleted objects away and deletes a lease that has no other left.
`AdmitOrDelay` has the error return of a reconcile that cannot read an assigned pool.

Abstractions. A lease's spec is constant, a network is a name with its pod, port
group, VLAN, datacenter and type; status texts, the `Delayed` condition, reasons and
times of conditions, and metrics are left out. Each lease name is used once, pools and
networks have different names, and a lease has no owner references or finalizers but
the operator's. The API server's Pool objects are read without lag (a late read of a
cordon is a late `ReconcilePool`). A port group of a pod has one Network object
(`OneNetworkPerPortGroup`). `AllowMultiToUseSingle` is off: `main.go` fixes it to false.
`PoolAssignment` does not see networks; `LeaseReconciler` repeats the loop on the
real maps.

### LeaseLifecycle and the refinement

`LeaseLifecycle` is the life of each lease without controllers, maps, caches or
writes. One lease changes at a time. A waiting lease collects pools and networks
(`Acquire`, never giving back some of them) or gives back all (`Release`, after which
it is called Pending or still what it was); it reports
`Partial` only when it owns a pool and a network, `Fulfilled` only with all its pools
and at least its number of networks, `Failed` only when it owns nothing; from then on,
and from the moment its deletion is requested, nothing it owns changes until it is
gone. `LeaseReconciler` implements it (`ImplementsLifecycle`) under the mapping that
takes each lease's phase, owner references and deletion timestamp from `api`: a
reconcile's in-memory steps, the caches and the wake-ups are stuttering. What makes
this more than a restatement is that ownership and phase are written by two different
calls, either of which may fail, be the last before a crash, or come from an old
version. `Release` is as wide as code and comment are apart: `leases.go:1223-1225` and
the logs at 1278 and 1283 say that the lease goes back to PENDING, and the code never
assigns the phase there. An operator of either kind satisfies the abstract
specification; that this one keeps Partial is what `LeaseReconcilerRelease.cfg` shows
(below). The runs check it without deleted pools and networks: the garbage collector
takes single references away, which the abstract specification does not allow.

## The runs

### Passing

* `pool_assignment`: five pools on vCenters of sizes 2, 2 and 1, the smallest
  inventory in which a careless first pick makes a capped lease of four pools
  impossible; all leases of up to four pools with caps and minimums up to three that
  the CRD admits, and leases that match by name, label or taint. One pool cordoned
  at a time (`MaxCordoned`), a pool has room or not (`FreeOrFull`): the loop
  compares free resources with the lease only. The pools of one vCenter are
  symmetric. Checks `TypeOK`, `VCenterBounds`, `AllOrNothing`, and the action
  properties `PicksKeepFeasible` (a lease with a cap or a minimum, but not both, that
  can be completed stays so after each pick) and `StopsOnlyWhenStuck` (pools are given back, or the search
  ends, only if what fits now cannot complete the lease).
* `pool_assignment_live`: the same inventory, leases with a cap or a minimum but not
  both: once there is room, all pools are assigned.
* `reconciler`: two pools in two pods, capacity for two leases in the first and one
  in the second, three networks in two port groups one of which exists in one pod
  only, a lease over both vCenters and two siblings, one of which requires the first
  pool, so that they meet in a vCenter or live in two: memory, networks and sibling
  constraints are all contended. Any write may be refused, or be applied and its
  answer lost, and any lease may be deleted between any two steps. Checks `NoDoubleBooking`, `CapacityRespected`,
  `FulfilledComplete`, `SiblingsConverge`, `PoolsShareVlans`, `ImplementsLifecycle`.
  `SiblingsConverge` is about siblings that meet in a vCenter, which is what
  `README.md:185-191` and `doc/how-it-works.md:25` of the repository promise; what the
  code does to the others is `LeaseReconcilerSiblingVCenter.cfg` (below).
* `reconciler_live`: one port group stretched over both pods, a lease over both
  vCenters, a lease of one pool, and a lease of another network type, older than both
  and larger than any pool, which stays Pending for ever because `IsLeaseSatisfiable`
  does not look at resources. A pool and a network may be deleted at any time.
  `EveryLeaseIsServed`: every lease of `Servable`, those that fit into an empty pool
  and do not queue behind one of their type that does not, is eventually fulfilled,
  failed or gone, unless a network has been deleted. Without that exception the
  property is violated: the network stays in the map, is given out, is taken away by
  the garbage collector, and is given out again. `NoRemovedPoolIsGiven`: for pools,
  whose deletion does reach the map, this cannot happen.
* `reconciler_crash`: three pools on two vCenters, a lease of all three with cap and
  minimum 2, and a lease of one pool that may take any of them first, so that the
  larger one goes through Partial (the second vCenter is taken) and through release
  (the cap is reached and the last pool is taken). The process may die between any
  two steps and comes back with empty maps, which fails leases too.
* `reconciler_stale`: the same pools, the second lease on the second vCenter, that
  pool cordoned and uncordoned, reads from a cache that lags by any number of
  versions; writes from old versions are rejected. Both check `OwnedWithinBounds`,
  `FulfilledComplete`, `FailedHoldsNothing`, `TerminalIsFinal`, `ConditionsMatchPhase`
  and `ImplementsLifecycle`, what holds of the persisted objects whatever happens to
  the process, and `NoGhostOwners`, that no map entry outlives its lease. The two
  pools of the first vCenter are symmetric. Refused writes and lost answers are left to
  `reconciler`: on the persisted objects they have the effect of a conflict and of a
  crash after the write. On the map they have not, and `NoGhostOwners` needs that no
  answer is lost (`LeaseReconcilerGhost.cfg`, below).
* `reconciler_busy`: the three pools again, a lease of all three with cap and minimum
  2, and two siblings without a cap, each of which requires one of its pools. The
  capped lease picks, waits, releases and is failed while the siblings take what it
  gives back, two pools are cordoned and uncordoned, and leases are deleted at any
  point. Checks `TypeOK` and `LiveLeasesExclude`: the leases that are not being deleted own no
  network together unless they are siblings, and fit into their pools.
  `NoDoubleBooking` and `CapacityRespected`, which count the leases that are being
  deleted too, are violated on this very instance.

Deadlock is not checked in the reconciler runs: each lease name is used once, so
when all leases are gone the system rests.

### Violations (what the code does against what its texts say)

* `cap_and_minimum`: with a cap and a minimum the second pick ignores which vCenters
  can be combined; release and retry repeat it for ever (`EventuallyAllPools`).
* `stale_double_booking`: a reconcile from a stale copy replaces a lease's entry in
  the map; its real network is then given to another lease (`NoDoubleBooking`). The
  property is violated too by a restart (`Faults = {"restart"}`: a waiting lease is
  reconciled before the owner of a network is back in the map) and by a failing
  write after a cordon (`Cordonable = {pA}`, `Faults = {"error"}`: the references
  leave the map before the API server). With a vCenter cap no fault is needed: a
  release drops the references from the map, a user's delete makes its write fail,
  and the network goes to another lease while the one being deleted still owns it.
  `LeaseExclusionProofs` proves the property where none of this can happen, and, for
  caps and cordons, `LiveLeasesExclude`, which is what remains then.
* `restart_fails_lease`: a waiting lease reconciled before the pools are loaded
  fails for good (`FailsOnlyIfUnsatisfiable`).
* `stranded_network`: a Partial lease picks its network before its later pools are
  known (`NetworksMatchEveryPool`). It is then never fulfilled and blocks its type;
  `reconciler_live` therefore assumes stretched port groups.
* `partial_deadlock`: a lease over two vCenters is Partial with one network and waits
  for a pool; a lease that requires this pool and two networks is let into it, because
  a Partial lease without a required pool stands for no pool in
  `shouldLeaseBeDelayed`, and waits for the other's network. Both wait for ever,
  without any fault (`EveryLeaseIsServed`). With the test that the function uses for
  Pending leases applied to Partial ones, the instance satisfies the property.

### Further instances

Seven more configurations of `MCLeaseReconciler` end in a counterexample when they are
run by hand. They mark the limits of what the runs above and the theorems say, and most
of them are a disagreement between the code and its texts.

* `LeaseReconcilerGhost.cfg` (`NoGhostOwners`): the write that drops the finalizer of a
  deleted lease is applied and its answer is lost. The reconcile returns at
  `leases.go:868-870`, before `delete(leases, leaseKey)` at 876; the retry ends at
  `NotFound` (783-785). The entry counts as an owner of its pools and networks until the
  process restarts.
* `LeaseReconcilerLostPool.cfg` (`NoRemovedPoolIsGiven`): the same in the pool
  controller. The return at `pools.go:76-78` skips `delete(pools, poolKey)` at 80, the
  retry ends at 67-69, and the deleted pool is given to a lease.
* `LeaseReconcilerRelease.cfg` (`PartialHoldsPools`, without any fault): a capped lease
  is Partial with one pool, picks the second vCenter, finds the cap reached and its last
  pool taken, and gives back everything. Its phase stays Partial, where the comment at
  `leases.go:1223-1225` says "we should release what we have and go back to PENDING" and
  the log at 1283 "released pools and is PENDING"; and it has given up pools although
  `MIN_VCENTER_REQUIREMENT.md:121` says "A `Partial` lease keeps the pools it already
  holds; it does not release them". Being Partial, it goes on holding back the leases
  of its type.
* `LeaseReconcilerSiblingVCenter.cfg` (`SiblingsBindWithinVCenter`, without any fault):
  one sibling takes a network of the first vCenter that does not exist in the second;
  the other sibling, in the second vCenter, is left without a network although one is
  free there. `README.md:185-191` of the repository calls leases related only if "the
  lease resides in the same vCenter" and says "When leases cross vCenters, those leases
  will have different network leases"; the comment at `leases.go:426-427` says the common
  port groups "are scoped to a single vCenter. for multiple vCenters, a network lease for
  each vCenter will be claimed". `getCommonNetworksForLease` does not look at the vCenter.
  The comment of `resolveCommonNetworksForPool` (480-493) does want siblings of several
  vCenters on one stretched network, so the texts disagree among themselves too.
* `LeaseReconcilerSiblingBooking.cfg` (`LiveLeasesExclude`): a capped lease releases its
  network in the map and is deleted by a user, so that the write fails; a lease of
  another job takes the network; the wake-ups of a later reconcile read the deleted
  lease into the map again, references included (`triggerLeaseUpdates`,
  `leases.go:322`); and its sibling follows it to the network
  (`getCommonNetworksForLease`, `leases.go:439`, which does not skip leases that are
  being deleted, as `resolveSiblingPools` does at `leases.go:601`). Two leases of
  different jobs, neither being deleted, own one network, although
  `doc/how-it-works.md:8` says the operator "records ownership so the network is not
  double-booked". With deleted siblings skipped, the instance satisfies the property.
* `LeaseReconcilerReleaseFails.cfg` (`LiveLeasesExclude`): the instance of
  `reconciler_busy` without cordons but with failing writes. A release replaces the
  references of the object in the map before the write (`leases.go:1255`); if that
  fails for a passing reason, the network goes to another lease, and two live leases
  own it.
* `LeaseReconcilerCordon.cfg` (`ExistingLeasesStay`): a cordon makes a Partial lease
  that holds the pool unsatisfiable (`leases.go:896`); it is failed and loses it, where
  `doc/concepts.md:9` says "existing leases stay; **new** leases are not placed here".

## Fairness

`PoolAssignment`: weak fairness of `Reconcile`. Every return of the code for a
waiting lease carries an error or a `RequeueAfter`, so the lease is always queued
again, and a worker runs a reconcile to its end.
`LeaseReconciler`: weak fairness of the steps of a reconcile under way, strong
fairness of `GetLease(l)` for each lease (the work queue is first in, first out;
the action is disabled while another reconcile runs), weak fairness of deleting
a fulfilled lease: jobs end, or the pruner removes what they leave; and weak fairness
of `CollectGarbage(l)`: the garbage collector is a controller of its own that gets
round to every object. Restarts, lag, refused writes and lost answers are off in the
live runs: with any of them happening for ever nothing could be promised. Creation, cordoning and the
deletion of pools and networks are never fair.

## What is proved

All theorems hold for every finite inventory and every set of leases whose specs have
natural bounds, from the assumptions named in the modules (`PoolsFinite`,
`PoolSpecType`, `NetworksFinite`, `NetworkSpecType`, `OneNetworkPerPortGroup`,
`LeasesFinite`, `ReconcilerLeaseSpecType`, `LeaseSpecType`, `BoundsType`,
`FreeStatesType`, `FaultsType`, `RemovableType`). A theorem that needs more says so with `ASSUME`:

| Theorem | Property | Beyond the assumptions |
|---|---|---|
| `PoolAssignmentProofs!TypeCorrect`, `BoundsHold`, `AllOrNothingHolds` | `TypeOK`, `VCenterBounds`, `AllOrNothing` | |
| `PicksKeepFeasibleHolds`, `StopsOnlyWhenStuckHolds` | `PicksKeepFeasible`, `StopsOnlyWhenStuck` | |
| `LeaseReconcilerProofs!TypeCorrect` | `TypeOK` | |
| `FailedHoldsNothingHolds` | `FailedHoldsNothing` | |
| `ConditionsMatchPhaseHolds` | `ConditionsMatchPhase` | |
| `NoGhostOwnersHolds` | `NoGhostOwners` | `"lost" \notin Faults` |
| `NoRemovedPoolIsGivenHolds` | `NoRemovedPoolIsGiven` | `"lost" \notin Faults` |
| `TerminalIsFinalHolds` | `TerminalIsFinal` | `Removable = {}` |
| `OwnedWithinBoundsHolds` | `OwnedWithinBounds` | `Removable = {}` |
| `FulfilledCompleteHolds` | `FulfilledComplete` | `Removable = {}` |
| `LifecycleImplemented` | `ImplementsLifecycle` | `Removable = {}` |
| `NoDoubleBookingHolds`, `CapacityRespectedHolds` | `NoDoubleBooking`, `CapacityRespected` | `Calm` |
| `LiveLeasesExcludeHolds` | `LiveLeasesExclude` | `Undisturbed` |
| `PoolsShareVlansHolds` | `PoolsShareVlans` | `OneNetworkEach` |
| `SiblingsConvergeHolds` | `SiblingsConverge` | `OneJobOnePortGroup` |

`Removable = {}`: nothing is deleted from the inventory. The garbage collector takes
single references from any lease, a fulfilled one included, so the four properties are
about systems without such deletions. Restarts, lag, refused writes, lost answers and
cordons are all allowed.

`"lost" \notin Faults`: the answers of the writes arrive. Restarts, lag, refused writes,
cordons and deletions are allowed. `LeaseReconcilerGhost.cfg` and
`LeaseReconcilerLostPool.cfg` show that the condition is needed.

### PoolAssignmentProofs

`TypeOK` carries the fact that within a reconcile the persisted references are among
the assigned pools. `VCenterBounds` speaks of the persisted and of the working set,
because `WaitPartial` and `Complete` turn the second into the first; together with
`TypeOK` it is inductive. The step that matters is `PickWithinBounds`: a pool on a new
vCenter adds one to the number of vCenters and is only picked below the cap
(`CapReached` excludes every vCenter not in use); a pool on a used vCenter is only
picked when the minimum is met (diversity excludes them). `AllOrNothing`: without
vCenter constraints the only writes of the references are those of a complete set.

### PoolFeasibilityProofs

`StopsOnlyWhenStuck` says that a reconcile gives pools back, or ends its search, only
when no set of pools that fit now completes the lease; `PicksKeepFeasible`, that a pick
leaves such a set if there was one. Both follow from `TypeOK` alone, one step at a time;
the work is in the operators. If a completion exists, one of its pools passes every
filter (and a best-scored one among those that do exists: `LeastNumber`, from the
well-foundedness of the naturals, and `ScoreOrder`). For a pick there is an exchange
argument: the completion is rebuilt around the picked pool. On a used vCenter, or below
the cap, one pool of the completion is swapped for it; when the pick opens the last
vCenter the cap allows, the filter has counted that this vCenter and the used ones
have enough pools, and the completion is taken from those. The code's counts are sums
over vCenters, which would need induction; the proofs compare sets of pools by their
cardinalities and numbered bijections instead.

### LeaseReconcilerProofs

The inductive invariant is `PersistInv`. None of the properties is inductive, because
what a reconcile writes next depends on the object it has in hand and on whether the
API server is going to accept it:

* `ObjectsSound`: what holds of every persisted object by itself (conditions, failed
  leases, the finalizer comes with the first phase and before any reference);
* `CacheIsPast`: the cache holds the object or an earlier version of it; a finalizer
  it shows is still there, or the lease is gone and the cache shows its deletion. This
  is why an old copy cannot bring a lease back into the map after the deletion path
  has removed it (`NoGhostOwners`);
* `MapIsAccepted`: the map holds only leases that have a finalizer, or ghosts, leases
  that are gone while their entry stayed, which a lost answer alone can leave;
* `IntakeSound`, `HandSound`: for each step of a reconcile, what the object in hand
  has in common with the persisted one *unless it is stale*; a stale one is only
  written to be rejected.

### LeaseLifecycleProofs

`ApiSteps` says that one step changes at most one persisted lease, in one of nine ways
(`Changes`); `HandSteps` says the same of the object in hand in the loops. The
theorems rest on these two instead of on the actions.

* `NoRemovedPoolIsGivenHolds` needs `HandExists`: no pool of the map is deleted, and
  none that a reconcile has in hand, because a deletion takes the lock.
* `OwnedWithinBoundsHolds` and `FulfilledCompleteHolds` need `PlacedInv`: persisted
  leases, and the object in hand while it is not stale, have no pool twice, no more
  than they ask for and stay within their bounds (`PickWithinBounds` again), and a
  Fulfilled one is complete. The minimum of a complete lease is met because a lease
  that asks for fewer pools than vCenters is never satisfiable.
* `LifecycleImplemented`: every way of `Changes` is one action of `LeaseLifecycle` on
  what is shown of the lease, or shows nothing; everything else is a stutter.

### LeaseExclusionProofs

`Calm` is: reads are current, the process does not die, pools are neither cordoned nor
deleted, and no lease has a vCenter cap. Writes are refused or their answers are lost,
and leases and networks are created and deleted at any point. Each part is needed: see
`stale_double_booking` for what happens with lag, a restart, a cordon and a cap; a
deleted pool does what a cordon does (`Removable = {pA}`, `Faults = {"error"}`). The
`reconciler` run is an instance of it.

The controller decides from the leases map, so the argument (`CalmInv`) is about the
map: it *covers* the API server (`MapCovers`: every persisted reference is in it, and
perhaps more, such as the picks of a write that failed, or a lease that is gone), its leases exclude each other
(`MapExclusive`) and fit into their pools (`MapFits`). All but two steps only take
references out of the map (`LosingIsSafe`). `AssignPool` gives a pool with room for one
lease more (`FitsCount`, from `TotalCount`: the total of the requests grows by the
lease's own); `AssignNetworks` gives networks that nobody owns, or those of a sibling,
which only siblings own. That the map covers the API server when references leave it
needs the rest of the invariant: a lease is failed only if the full inventory cannot
satisfy it, and such a lease never owned anything (`UnachievableHoldNothing`); without
a cap nothing is released.

`Total` is written as the number of units (a lease and a number up to its request)
instead of as a sum, so that the facts about it follow from the theorems on
cardinalities; a recursive sum would need induction over the set of leases.

Caps and cordons. `LiveLeasesExcludeHolds` allows both, at any point of a reconcile, as
well as creation and deletion. `Undisturbed` is what it excludes: writes that fail other
than on a conflict (see `LeaseReconcilerReleaseFails.cfg`), lag and restarts (as
in `stale_double_booking`), deletions from the inventory (the garbage collector changes a
lease while a reconcile has it in hand, so that the write of a release or a failure is
refused as a failing one would be: `reconciler_live`'s instance violates the property),
and siblings with a cap (`LeaseReconcilerSiblingBooking.cfg`). Lost answers are excluded
for the sake of the proof: TLC finds no violation with `Faults = {"lost"}` on the
instance of `reconciler_busy` (4.9 million states). `reconciler_busy` is an instance.

With a cap the map no longer covers the API server: a lease that is giving back has
lost its references in the map and owns them until they are written. The invariant
`LiveInv` therefore speaks of what a lease *holds* (`Held`): its persisted references
while it is giving back, its map entry otherwise. What is held covers what is persisted
(`HeldCovers`), excludes (`HeldExclusive`) and fits (`HeldFits`). It speaks of the
leases that are `Sure`: the live ones, and those without a cap, whose entries their
siblings still look at after their deletion. While a reconcile gives back it gives to
nobody, so the two views never matter at once. That the write is then accepted, unless
the lease has been deleted meanwhile, is `StaleIsDeleted`: in these circumstances
nothing but a deletion makes the object in hand an old version.

### LeaseNetworkProofs

`OneNetworkEach` is: no restart, nothing deleted, and at most one network per pool for
every lease. After a restart a lease is reconciled before its network is loaded, counts
as having none and gets another one (`Faults = {"restart"}` and the networks
`StretchedNetworks` violate the property). With several networks per pool the property
depends on the inventory: two networks of one VLAN in different datacenters of a pod
count as different, and fill a pool without covering the lease's VLANs. The invariant
`VlanInv`: all networks of a lease are of one VLAN, and if it has any, its first pool
has one, which is why the first pool never picks a second VLAN.

### LeaseSiblingProofs

`OneJobOnePortGroup` is `Calm`, `OneNetworkEach` and `OnePortGroupPerVlan`: a VLAN goes by
one port group name wherever it is stretched to. The last is needed because the first
pool of a lease follows the port groups of its siblings and the other pools follow its
VLAN. The invariant `SiblingInv`: the leases of one job have networks of one port group
*in the map* (`MapConverges`), which is where they look for each other and which covers
the API server by `CalmInv`; the entries they look at are of leases that exist
(`EntriesExist`); and the object in hand has one VLAN (`HandOnOneVlan`, with `VlanInv`).
The `reconciler` run is an instance. The proof does not use that the siblings meet in a
vCenter: in these circumstances those of two vCenters converge as well, for better or
worse.

### Only model-checked

Every invariant and action property of a passing run is stated by a theorem. What is
left to TLC is liveness, which is out of TLAPS' reach: `EventuallyAllPools` and
`EveryLeaseIsServed`.

## Not modelled

* Several Network objects for one port group of a pod: `getNetworksForPool` then
  depends on map order, and every operator of `NetworkSelection` would return a set.
* Pools' short names, the pool status written back and the network counters in it,
  the `Delayed` condition, reasons and times of conditions: written, never decided
  from.
* Environment variables of a lease: text for the jobs, produced from the pools and
  networks a lease has; keeping them would double the states of the fault runs.
* Foreign finalizers and owner references of a lease, and namespaces: nothing in the
  repository sets the first two, and the pruner's deletes are `DeleteLease`.
* Metrics, process set-up, generated code, the `oc-vcm` plug-in (its cordon and
  uncordon are `SetNoSchedule`).

## Plan

Instances still worth adding: leases of two network types that are Partial in the same
pools, picks that `NoPool` leaves in the map and that hold back other leases, several
Network objects per port group.
