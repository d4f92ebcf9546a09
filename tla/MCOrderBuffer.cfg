\* Two orders of one symbol, each below the minimum and together at it; the
\* process ends twice, anywhere, a checkpoint being in progress or not.
CONSTANTS
    s1 = s1
    s2 = s2
    Symbols <- OneSymbol
    Quantities = {1}
    MinSize = 2
    MaxSize = 2
    PopSize = 1
    MaxOrders = 2
    MaxCrashes = 2
SPECIFICATION FairSpec
CHECK_DEADLOCK FALSE
INVARIANTS
    BufferTypeOK
    EveryOrderSomewhere
    SymbolOrderKept
    CheckpointedNeverLost
    SentBeforeCheckpointNotResent
PROPERTY EveryOrderLeaves
