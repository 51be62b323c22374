SPECIFICATION Spec
CONSTANTS
    Records = {1}
    Parts = 2
    MaxAttempts = 2
    MaxDay = 0
    MaxRequests = 0
    MaxFaults = 1
    FaultKinds = {"kill"}
    InOrder = TRUE
INVARIANTS
    NoResend
CHECK_DEADLOCK FALSE
