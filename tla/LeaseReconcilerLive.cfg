SPECIFICATION FairSpec
CONSTANTS
    pA = pA
    pB = pB
    pC = pC
    l1 = l1
    l2 = l2
    l3 = l3
    l4 = l4
    a1 = a1
    a2 = a2
    b1 = b1
    b2 = b2
    None = None
    Pools <- MCPools
    PoolSpec <- MCPoolSpec
    Networks <- OnePortGroup
    NetworkSpec <- MCNetworkSpec
    Leases <- MCLeases
    LeaseSpec <- LiveLeaseSpec
    Cordonable = {}
    Removable = {pA, b1}
    Faults = {}
PROPERTIES EveryLeaseIsServed NoRemovedPoolIsGiven
CHECK_DEADLOCK FALSE
