SPECIFICATION FairSpec
CONSTANTS
    a1 = a1
    a2 = a2
    b1 = b1
    b2 = b2
    c1 = c1
    None = None
    Pools <- MCPools
    PoolSpec <- SkewedPoolSpec
    LeaseSpecs <- CapAndMinimumLeases
    FreeStates <- AlwaysRoom
    ApiErrors = FALSE
    MaxCordoned = 0
PROPERTIES EventuallyAllPools
