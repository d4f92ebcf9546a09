\* One order, two attempts per call: lost receipts, late transactions, retries.
CONSTANTS
    i1 = i1
    i2 = i2
    Indices <- OneIndex
    Amounts <- OneAmount
    MaxOrders = 1
    MaxBlock = 0
    VendorRetries = 2
    TxRetries = 2
SPECIFICATION FairPipelineSpec
CHECK_DEADLOCK FALSE
INVARIANT PipelineTypeOK
PROPERTIES
    NoSendAfterResult
    EveryOrderResolved
