SPECIFICATION Spec
CONSTANTS
    pA = pA
    pB = pB
    pC = pC
    l1 = l1
    l2 = l2
    l3 = l3
    l4 = l4
    a1 = a1
    a2 = a2
    b1 = b1
    b2 = b2
    None = None
    Pools <- MCPools
    PoolSpec <- MCPoolSpec
    Networks <- MCNetworks
    NetworkSpec <- MCNetworkSpec
    Leases <- MCLeases
    LeaseSpec <- MCLeaseSpec
    Cordonable = {}
    Removable = {}
    Faults = {}
INVARIANTS NetworksMatchEveryPool
CHECK_DEADLOCK FALSE
