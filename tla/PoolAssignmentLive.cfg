SPECIFICATION FairSpec
CONSTANTS
    a1 = a1
    a2 = a2
    b1 = b1
    b2 = b2
    c1 = c1
    None = None
    Pools <- MCPools
    PoolSpec <- MCPoolSpec
    LeaseSpecs <- OneBoundLeases
    FreeStates <- FreeOrFull
    ApiErrors = FALSE
    MaxCordoned = 0
PROPERTIES EventuallyAllPools
