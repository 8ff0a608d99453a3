SPECIFICATION FairSpec
CONSTANTS
    plain = plain
    opted = opted
    broken = broken
    w1 = w1
    w2 = w2
    Shutdown = Shutdown
    Captures <- MCCaptures
    Workers <- MCWorkers
    MaxSize = 2
    BatchSize = 2
    Malformed <- MCMalformed
    Cacheable <- MCCacheable
    Uncaught <- MCUncaught
INVARIANTS
    TypeOK
    Conserved
    StoredAtMostOnce
    GracefulStopSettles
    HeldBounded
PROPERTIES
    RefinesLedger
    AcceptedIsSettled
    StopEnds
CHECK_DEADLOCK FALSE
