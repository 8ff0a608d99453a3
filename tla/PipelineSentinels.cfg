SPECIFICATION PatientSpec
CONSTANTS
    plain = plain
    opted = opted
    broken = broken
    w1 = w1
    w2 = w2
    Shutdown = Shutdown
    Captures <- MCCaptures
    Workers <- MCWorkers
    MaxSize = 2
    BatchSize = 2
    Malformed <- MCNothing
    Cacheable <- MCCacheable
    Uncaught <- MCNothing
PROPERTIES
    WorkersExitOnShutdown
CHECK_DEADLOCK FALSE
