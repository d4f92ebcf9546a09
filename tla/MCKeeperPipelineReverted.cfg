CONSTANTS
    i1 = i1
    i2 = i2
    Indices <- MCIndices
    Amounts <- OneAmount
    MaxOrders = 2
    MaxBlock = 0
    VendorRetries = 1
    TxRetries = 1
SPECIFICATION PipelineSpec
CHECK_DEADLOCK FALSE
INVARIANT SucceededWasProcessed
