\* Two batches, one after the other within a window of two operations, remembering
\* the operations of the first.
CONSTANTS
    Quantities = {2}
    Lot = 2
    MaxBatch = 2
    RetryAttempts = 1
    MaxFailures = 5
    MaxRefills = 0
    MinFill = 60
    NearlyFull = 99
    RateLimit = 2
    Window = 2
    Remembered = 2
SPECIFICATION Spec
INVARIANT RateRespected
