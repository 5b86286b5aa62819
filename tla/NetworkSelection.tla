-------------------------- MODULE NetworkSelection --------------------------
(***************************************************************************)
(* The pure functions that decide which networks a lease may own           *)
(* (pkg/controller/leases.go).  Parameters stand for the maps they read:   *)
(*   loaded  the networks in the controller's networks map                 *)
(*   owned   the networks among the owner references of the leases map     *)
(***************************************************************************)
EXTENDS PoolSelection

CONSTANTS
    Networks,       \* the names of the Network objects
    NetworkSpec     \* the specification of each network

\* A network's spec, as far as the controllers decide from it, and its type label.
NetworkFields == {"pod", "portGroup", "vlan", "datacenter", "type"}

ASSUME NetworksFinite == IsFiniteSet(Networks)
ASSUME NetworkSpecType ==
    \A n \in Networks : DOMAIN NetworkSpec[n] = NetworkFields

\* A port group of a pod is represented by one Network object.
ASSUME OneNetworkPerPortGroup ==
    \A n, m \in Networks :
        NetworkSpec[n].pod = NetworkSpec[m].pod /\ NetworkSpec[n].portGroup = NetworkSpec[m].portGroup
            => n = m

getNetworksForPool(p, loaded) ==
    {n \in loaded : /\ NetworkSpec[n].pod = PoolSpec[p].pod
                    /\ NetworkSpec[n].portGroup \in PoolSpec[p].portGroups}

getAvailableNetworks(p, networkType, loaded, owned) ==
    {n \in getNetworksForPool(p, loaded) \ owned : NetworkSpec[n].type = networkType}

PortGroups(nets) == {NetworkSpec[n].portGroup : n \in nets}

\* The port groups with an available network in every one of the pools.
commonPortGroupNames(pools, networkType, loaded, owned) ==
    {g \in PortGroups(loaded) :
        \A p \in pools : g \in PortGroups(getAvailableNetworks(p, networkType, loaded, owned))}

\* Mutated form: only available networks match, which the sibling's own are not, and
\* without a match any of them will do.
resolveCommonNetworksForPool_Available(candidates, p, networkType, loaded, owned) ==
    LET avail == getAvailableNetworks(p, networkType, loaded, owned)
        match == {n \in avail : NetworkSpec[n].portGroup \in PortGroups(candidates)}
    IN  IF match # {} THEN match ELSE avail

\* The networks of pool p that match the sibling's networks: the same objects if
\* p offers them, else the available ones of the same port groups.
resolveCommonNetworksForPool(candidates, p, networkType, loaded, owned) ==
    LET same == candidates \cap getNetworksForPool(p, loaded)
    IN  IF same # {} THEN same
        ELSE {n \in getAvailableNetworks(p, networkType, loaded, owned) :
                NetworkSpec[n].portGroup \in PortGroups(candidates)}

SameVlan(n, m) == NetworkSpec[n].vlan = NetworkSpec[m].vlan
SamePortGroup(n, m) == SameVlan(n, m) /\ NetworkSpec[n].datacenter = NetworkSpec[m].datacenter

\* The lease's networks of this pool, held, already include the VLAN of n.
doesLeaseContainPortGroup(held, n) == \E m \in held : SamePortGroup(n, m)

\* What walking the shuffled list avail may add for a lease that still needs
\* `need` networks in the pool: networks that do not clash, until there are
\* enough or no other one can be added.  Two networks of one VLAN clash, in the
\* first pool if they are also of one datacenter.
Picks(held, avail, need, first) ==
    LET clash(n, m) == IF first THEN SamePortGroup(n, m) ELSE SameVlan(n, m)
        open == {n \in avail : ~doesLeaseContainPortGroup(held, n)}
    IN  {S \in SUBSET open :
            /\ Cardinality(S) <= need
            /\ \A n, m \in S : n # m => ~clash(n, m)
            /\ Cardinality(S) = need \/ \A n \in open \ S : \E m \in S : clash(n, m)}

\* Mutated form: every pool takes any network.
NetworkPicks_AnyVlan(first, p, nets, avail, perPool, loaded) ==
    LET held == nets \cap getNetworksForPool(p, loaded)
        need == perPool - Cardinality(held)
    IN  IF need <= 0 THEN {{}} ELSE Picks(held, avail, need, TRUE)

\* The first pool takes any network; a later one takes one network for each VLAN
\* the lease has already.
NetworkPicks(first, p, nets, avail, perPool, loaded) ==
    LET poolNets == getNetworksForPool(p, loaded)
        held     == nets \cap poolNets
        need     == perPool - Cardinality(held)
        matching == {n \in avail \cap poolNets : \E m \in nets \cap loaded : SameVlan(n, m)}
    IN  IF need <= 0 THEN {{}}
        ELSE Picks(held, IF first THEN avail ELSE matching, need, first)

\* Some pool has no network of the lease.
poolMissingNetworks(pools, nets, loaded) ==
    \E p \in pools : nets \cap getNetworksForPool(p, loaded) = {}

\* Every pool has the number of networks the lease asks for.
AllPoolsHaveNetworks(pools, nets, perPool, loaded) ==
    \A p \in pools : Cardinality(nets \cap getNetworksForPool(p, loaded)) >= perPool
============================================================================
