SPECIFICATION Spec
CONSTANTS
    a1 = a1
    a2 = a2
    b1 = b1
    b2 = b2
    c1 = c1
    None = None
    Pools <- MCPools
    PoolSpec <- MCPoolSpec
    LeaseSpecs <- MCLeaseSpecs
    FreeStates <- FreeOrFull
    ApiErrors = TRUE
    MaxCordoned = 1
INVARIANTS TypeOK VCenterBounds AllOrNothing
PROPERTIES PicksKeepFeasible StopsOnlyWhenStuck
SYMMETRY PoolSymmetry
