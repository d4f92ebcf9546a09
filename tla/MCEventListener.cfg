\* One vault known at the start and one found later; one block before the
\* start and one after it; two failed connections before polling.
CONSTANTS
    v1 = v1
    v2 = v2
    Vaults <- BothVaults
    InitialVaults <- OneVault
    MaxBlock = 2
    StartBlock = 1
    BacktrackBlocks = 1
    Threshold = 2
SPECIFICATION FairSpec
CHECK_DEADLOCK FALSE
INVARIANTS
    ListenerTypeOK
    DeliveredInChainOrder
    CoverageComplete
PROPERTY PolledOrdersReachAccumulator
