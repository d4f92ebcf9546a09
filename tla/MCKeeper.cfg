\* Three orders of two interchangeable indices and two blocks after the start:
\* every interleaving of the receiver, the KeeperLoop and the block tracker.  And
\* two orders of one index, so up to two batches in flight: every interleaving of
\* both flushers and their tasks, with one attempt per call.
CONSTANTS
    i1 = i1
    i2 = i2
    Indices <- MCIndices
    Amounts <- OneAmount
    MaxOrders = 3
    TaskOrders = 2
    MaxBlock = 2
    VendorRetries = 1
    TxRetries = 1
SPECIFICATION ScopedSpec
SYMMETRY IndexSymmetry
CHECK_DEADLOCK FALSE
INVARIANTS
    TypeOK
    OrdersAccounted
    BatchesInArrivalOrder
    NetChangeBounded
    ReceiverFlushesOnlyDueBatches
    SettlementOrder
    ResultsAccountForBatch
PROPERTY ImplementsLifecycle
