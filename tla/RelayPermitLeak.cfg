SPECIFICATION FairSpec
CONSTANTS
    r1 = r1
    r2 = r2
    r3 = r3
    Requests <- MCTwoRequests
    MaxConcurrent = 1
    MaxBody = 1
    MaxCapture = 1
    ResponseBound <- MCTwoResponseBound
PROPERTIES
    PermitReturned
CHECK_DEADLOCK FALSE
