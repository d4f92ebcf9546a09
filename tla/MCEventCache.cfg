SPECIFICATION FairSpec
CONSTANTS
    Contents <- MCContents
    StartBlock = 1
    MaxHeight = 2
    MaxCrashes = 1
INVARIANTS
    CacheTypeOK
    CachesComplete
PROPERTY EveryEventCached
CHECK_DEADLOCK FALSE
