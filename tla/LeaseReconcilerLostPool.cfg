SPECIFICATION Spec
CONSTANTS
    pA = pA
    pB = pB
    pC = pC
    l1 = l1
    l2 = l2
    l3 = l3
    l4 = l4
    a1 = a1
    a2 = a2
    b1 = b1
    b2 = b2
    None = None
    Pools <- MCPools
    PoolSpec <- MCPoolSpec
    Networks <- MCNetworks
    NetworkSpec <- MCNetworkSpec
    Leases <- PlainLeases
    LeaseSpec <- PlainLeaseSpec
    Cordonable = {}
    Removable = {pA}
    Faults = {"lost"}
PROPERTIES NoRemovedPoolIsGiven
CHECK_DEADLOCK FALSE
