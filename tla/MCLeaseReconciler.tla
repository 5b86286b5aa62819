-------------------------- MODULE MCLeaseReconciler --------------------------
(***************************************************************************)
(* LeaseReconciler on two pools of two vCenters, each in a pod of its own, *)
(* with the port groups that make leases compete for the same networks.    *)
(***************************************************************************)
EXTENDS LeaseReconciler, TLC

CONSTANTS pA, pB, l1, l2, l3, a1, a2, b1, b2

MCPools == {pA, pB}
MCPoolSpec ==
    [p \in MCPools |->
        [server |-> IF p = pA THEN "vcA" ELSE "vcB", vcpus |-> 1, memory |-> IF p = pA THEN 2 ELSE 1,
         overCommit |-> [num |-> 2, den |-> 1], exclude |-> FALSE, labels |-> {}, taints |-> {},
         pod |-> IF p = pA THEN "podA" ELSE "podB", portGroups |-> {"pg1", "pg2"}, name |-> p]]

\* Two port groups, both stretched over the two pods.
StretchedNetworks == {a1, a2, b1, b2}
MCNetworkSpec ==
    [n \in StretchedNetworks |->
        [pod |-> IF n \in {a1, a2} THEN "podA" ELSE "podB",
         portGroup |-> IF n \in {a1, b1} THEN "pg1" ELSE "pg2",
         vlan |-> IF n \in {a1, b1} THEN "vlan1" ELSE "vlan2",
         datacenter |-> IF n \in {a1, a2} THEN "dcA" ELSE "dcB", type |-> "single"]]
\* One of them exists in the first pod only.
MCNetworks == {a1, a2, b1}

Lease(pools, minVCenters, created) ==
    [vcpus |-> 1, memory |-> 1, pools |-> pools, vcenters |-> 0, minVCenters |-> minVCenters,
     networks |-> 1, networkType |-> "single", requiredPool |-> None, poolSelector |-> {},
     tolerations |-> {}, boskosId |-> None, created |-> created]

MCLeases == {l1, l2, l3}
\* One lease over both vCenters, and two siblings, which meet in the first vCenter or do
\* not.
MCLeaseSpec ==
    (l1 :> Lease(2, 2, 1)) @@
    (l2 :> [Lease(1, 0, 2) EXCEPT !.boskosId = "job"]) @@
    (l3 :> [Lease(1, 0, 3) EXCEPT !.boskosId = "job", !.requiredPool = pA])

\* Two leases of one pool each, of different jobs.
PlainLeases == {l1, l2}
PlainLeaseSpec == (l1 :> Lease(1, 0, 1)) @@ (l2 :> Lease(1, 0, 2))

\* One port group, stretched over the two pods.
OnePortGroup == {a1, b1}
\* One lease over both vCenters, one on either, and the oldest of all, of another
\* network type, that is larger than any pool.
LiveLeaseSpec ==
    (l1 :> Lease(2, 2, 1)) @@ (l2 :> Lease(1, 0, 2)) @@
    (l3 :> [Lease(1, 0, 0) EXCEPT !.vcpus = 3, !.networkType = "multi"])

----------------------------------------------------------------------------
(* Three pools, two of them in one pod and on one vCenter, for the runs    *)
(* with restarts, a lagging cache and cordons.                             *)
CONSTANTS pC

FaultPools == {pA, pB, pC}
FaultPoolSpec ==
    [p \in FaultPools |->
        [server |-> IF p = pC THEN "vcB" ELSE "vcA", vcpus |-> 1, memory |-> 1,
         overCommit |-> [num |-> 1, den |-> 1], exclude |-> FALSE, labels |-> {}, taints |-> {},
         pod |-> IF p = pC THEN "podB" ELSE "podA", portGroups |-> {"pg1"}, name |-> p]]
\* The two pools of one vCenter are interchangeable.
FaultSymmetry == Permutations({pA, pB})

FaultLeases == {l1, l2}
\* All three pools, on exactly two vCenters; and a lease that stands in the way: on
\* the second vCenter, so that the first waits in Partial, or on the first, so that
\* it has to give everything back.
CrashLeaseSpec ==
    (l1 :> [Lease(3, 2, 1) EXCEPT !.vcenters = 2]) @@
    (l2 :> Lease(1, 0, 2))
\* The second lease stands in the way on the second vCenter only.
StaleLeaseSpec == [CrashLeaseSpec EXCEPT ![l2].requiredPool = pC]
\* The first lease, and two siblings without a cap that each stand in its way in one pool
\* and may take what it gives back there.
BusyLeaseSpec ==
    (l1 :> [Lease(3, 2, 1) EXCEPT !.vcenters = 2]) @@
    (l2 :> [Lease(1, 0, 2) EXCEPT !.requiredPool = pC, !.boskosId = "job"]) @@
    (l3 :> [Lease(1, 0, 3) EXCEPT !.requiredPool = pB, !.boskosId = "job"])

----------------------------------------------------------------------------
(* A sibling with a cap: four leases, and one pool with room for two.      *)
CONSTANTS l4

SiblingLeases == {l1, l2, l3, l4}
\* The lease that gives everything back has a sibling; one of the other two stands in its
\* way, and one takes its network.
SiblingLeaseSpec ==
    (l1 :> [Lease(3, 2, 1) EXCEPT !.vcenters = 2, !.boskosId = "job"]) @@
    (l2 :> [Lease(1, 0, 2) EXCEPT !.requiredPool = pC]) @@
    (l3 :> [Lease(1, 0, 3) EXCEPT !.requiredPool = pA, !.boskosId = "job"]) @@
    (l4 :> [Lease(1, 0, 4) EXCEPT !.requiredPool = pB])
SiblingPoolSpec == [FaultPoolSpec EXCEPT ![pA].vcpus = 2, ![pA].memory = 2]

----------------------------------------------------------------------------
(* Two pools of two vCenters in one pod, with room for one lease each, and *)
(* two networks for both.                                                  *)
SharedPoolSpec == [p \in MCPools |-> [MCPoolSpec[p] EXCEPT !.memory = 1, !.pod = "podA"]]
SharedNetworks == {a1, a2}

\* A lease over both vCenters, one that stands in its way for a while, and one that
\* asks for both networks in the pool the first waits for.
SharedLeaseSpec ==
    (l1 :> Lease(2, 2, 2)) @@
    (l2 :> [Lease(1, 0, 1) EXCEPT !.requiredPool = pB]) @@
    (l3 :> [Lease(1, 0, 3) EXCEPT !.requiredPool = pB, !.networks = 2])
============================================================================
