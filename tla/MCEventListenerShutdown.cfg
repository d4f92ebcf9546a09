\* The smallest instance with an event: one vault, one block after the start.
CONSTANTS
    v1 = v1
    v2 = v2
    Vaults <- OneVault
    InitialVaults <- OneVault
    MaxBlock = 1
    StartBlock = 0
    BacktrackBlocks = 1
    Threshold = 1
SPECIFICATION ShutdownSpec
CHECK_DEADLOCK FALSE
PROPERTY GracefulShutdown
