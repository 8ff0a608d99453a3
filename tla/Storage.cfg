SPECIFICATION Spec
CONSTANTS
    g1 = g1
    g2 = g2
    keyless = keyless
    init = init
    Gateways <- MCGateways
    Inits <- MCInits
    Misconfigured <- MCMisconfigured
    MayBePlain <- MCMayBePlain
    Encryption = TRUE
    CacheEnabled = TRUE
    Searchable = TRUE
    MaxFailures = 1
    MaxRestarts = 1
INVARIANTS
    TypeOK
    PlaintextHasACause
    CompletedHasStorage
CHECK_DEADLOCK FALSE
