SPECIFICATION Spec
CONSTANTS
    k1 = k1
    k2 = k2
    Keys <- MCKeys
    MaxRequests = 2
    Window = 2
    MaxTime = 7
INVARIANTS
    WindowBound
    RetryAfterExact
PROPERTIES
    IdleKeysForgotten
    RefinesSlidingWindow
CHECK_DEADLOCK FALSE
