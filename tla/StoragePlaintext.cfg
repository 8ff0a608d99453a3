SPECIFICATION Spec
CONSTANTS
    g1 = g1
    g2 = g2
    keyless = keyless
    init = init
    Gateways <- MCGateways
    Inits <- MCInits
    Misconfigured <- MCMisconfigured
    MayBePlain <- NothingBefore
    Encryption = TRUE
    CacheEnabled = TRUE
    Searchable = TRUE
    MaxFailures = 1
    MaxRestarts = 1
INVARIANTS
    NeverPlaintext
CHECK_DEADLOCK FALSE
