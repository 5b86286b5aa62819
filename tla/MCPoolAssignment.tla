-------------------------- MODULE MCPoolAssignment --------------------------
(***************************************************************************)
(* PoolAssignment on five pools of three vCenters of sizes 2, 2 and 1, the *)
(* smallest inventory on which a careless first pick makes a capped lease  *)
(* of four pools impossible.  Pool c1 is tainted, and the pools outside    *)
(* vcA carry a label.                                                      *)
(***************************************************************************)
EXTENDS PoolAssignment, TLC

CONSTANTS a1, a2, b1, b2, c1

MCPools == {a1, a2, b1, b2, c1}

MCServer == (a1 :> "vcA") @@ (a2 :> "vcA") @@ (b1 :> "vcB") @@ (b2 :> "vcB") @@ (c1 :> "vcC")

Taint == [key |-> "dedicated", value |-> "ci", effect |-> "NoSchedule"]

MCPoolSpec ==
    [p \in MCPools |->
        [server |-> MCServer[p], vcpus |-> 2, memory |-> 2,
         overCommit |-> [num |-> 1, den |-> 1], exclude |-> FALSE,
         labels |-> IF p \in {b1, b2, c1} THEN {<<"region", "east">>} ELSE {},
         taints |-> IF p = c1 THEN {Taint} ELSE {},
         pod |-> "pod", portGroups |-> {}, name |-> p]]

\* The smallest pool, c1, stands out: with the same resources left everywhere,
\* the scores order the vCenters strictly, vcC first.
SkewedPoolSpec ==
    [p \in MCPools |->
        [MCPoolSpec[p] EXCEPT !.vcpus = CASE p = c1 -> 1 [] p \in {a1, a2} -> 2 [] OTHER -> 3]]

LeaseOf(pools, vcenters, minVCenters) ==
    [vcpus |-> 1, memory |-> 1, pools |-> pools, vcenters |-> vcenters,
     minVCenters |-> minVCenters, requiredPool |-> None, poolSelector |-> {},
     tolerations |-> {[key |-> "", operator |-> "Exists", value |-> "", effect |-> ""]}]

\* The leases of up to four pools that the CRD's validation rules admit.
Admitted(l) == l.minVCenters <= l.pools /\ (l.vcenters > 0 => l.minVCenters <= l.vcenters)
GenericLeases == {l \in {LeaseOf(p, v, m) : p \in 1..4, v \in 0..3, m \in 0..3} : Admitted(l)}

\* Leases that only some pools match: by name, by label, by taint.
SelectiveLeases ==
    {[LeaseOf(1, 0, 0) EXCEPT !.requiredPool = c1],
     [LeaseOf(2, 0, 2) EXCEPT !.poolSelector = {<<"region", "east">>}],
     [LeaseOf(3, 2, 0) EXCEPT !.tolerations =
        {[key |-> "dedicated", operator |-> "Equal", value |-> "other", effect |-> ""]}]}

MCLeaseSpecs == GenericLeases \cup SelectiveLeases
\* Those with a cap or a minimum, but not both.
OneBoundLeases == {l \in MCLeaseSpecs : l.vcenters = 0 \/ l.minVCenters = 0}
\* Four pools on exactly two vCenters.
CapAndMinimumLeases == {LeaseOf(4, 2, 2)}

\* The pools of one vCenter are interchangeable.
PoolSymmetry == {f @@ g : f \in Permutations({a1, a2}), g \in Permutations({b1, b2})}

\* A pool has room for the lease, or not.
FreeOrFull == {[vcpus |-> 0, memory |-> 1], [vcpus |-> 1, memory |-> 1]}
\* Every pool has room, always.
AlwaysRoom == {[vcpus |-> 1, memory |-> 1]}
============================================================================
