SPECIFICATION SearchSpec
CONSTANTS
    worker = worker
    search = search
    silent = silent
    thought = thought
    spoken = spoken
    long = long
    short = short
    home = home
    away = away
    Blank = Blank
    None = None
    Workers <- MCWorkers
    Searchers <- MCSearchers
    Callers <- MCCallers
    Texts <- MCTexts
    Clipped <- MCClipped
    Docs <- MCDocs
    Doc <- MCDoc
    Fields <- MCFields
    Batches <- MCBatches
    Requests <- MCRequests
    Threshold = 2
    Cooldown = 2
    Window = 2
    K = 2
INVARIANTS
    HitsInScope
