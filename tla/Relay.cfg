SPECIFICATION Spec
CONSTANTS
    r1 = r1
    r2 = r2
    r3 = r3
    Requests <- MCRequests
    MaxConcurrent = 2
    MaxBody = 1
    MaxCapture = 1
    ResponseBound <- MCResponseBound
INVARIANTS
    TypeOK
    PermitsConserved
    MemoryBounded
    OneCapturePerResponse
    StatusTruthful
    UncutCaptureIsWhole
CHECK_DEADLOCK FALSE
