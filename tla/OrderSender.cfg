\* Retries and circuit breaker as the code configures them; batches of three
\* orders, one rounded up to one step of the exchange and one rounded down to
\* three; two refills, one less than the code's default; two operations per
\* window.  An unknown status counts as filled from 55 percent, because a fill is
\* a third of the larger order here, and not 99.
CONSTANTS
    Quantities = {2, 10}
    Lot = 3
    MaxBatch = 3
    RetryAttempts = 3
    MaxFailures = 5
    MaxRefills = 2
    MinFill = 60
    NearlyFull = 55
    RateLimit = 2
    Window = 3
    Remembered = 0
SPECIFICATION FairSpec
INVARIANTS
    SenderTypeOK
    ReportedFillsExecuted
    ExposureBounded
    BreakerTracksFailures
    RateRespectedInBatch
PROPERTY EveryCallReturns
