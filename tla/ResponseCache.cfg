SPECIFICATION ReplaySpec
CONSTANTS
    r1 = r1
    r2 = r2
    r3 = r3
    p1 = p1
    p2 = p2
    chat = chat
    gemini = gemini
    content = content
    shared = shared
    NoAsk = NoAsk
    None = None
    Empty = Empty
    Requests <- MCRequests
    Asks <- MCAsks
    Providers <- MCProviders
    Paths <- MCPaths
    StreamPaths <- MCStreamPaths
    StreamsByDefault <- MCStreamsByDefault
    Contents <- MCContents
    GivenIds <- MCGivenIds
    DefaultOn = FALSE
    Ttl = 1
    LookupTimeout = 1
    MaxTime = 2
SYMMETRY Symmetry
INVARIANTS
    ReplayTypeOK
    ReplaysAreWhole
    FormatSafe
    StalenessBounded
    ReissueAsksTheSame
    ReissueIsFresh
CHECK_DEADLOCK FALSE
