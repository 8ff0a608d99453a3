SPECIFICATION RelayFairSpec
CONSTANTS
    r1 = r1
    r2 = r2
    w1 = w1
    Shutdown = Shutdown
    Requests <- MCRequests
    MaxConcurrent = 2
    MaxBody = 0
    MaxCapture = 1
    ResponseBound <- MCResponseBound
    Workers <- MCWorkers
    MaxSize = 1
    BatchSize = 2
    Malformed <- MCMalformed
    Cacheable <- MCCacheable
    Uncaught <- MCUncaught
INVARIANTS
    CachedWasDelivered
    DeliveredIsSettled
PROPERTIES
    IndependentOfTelemetry
CHECK_DEADLOCK FALSE
