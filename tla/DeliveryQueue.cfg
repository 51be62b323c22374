SPECIFICATION Spec
CONSTANTS
    Records = {1, 2}
    Parts = 2
    MaxAttempts = 2
    MaxDay = 0
    MaxRequests = 1
    MaxFaults = 1
    FaultKinds = {"kill", "cancel", "write", "answer"}
    InOrder = FALSE
INVARIANTS
    RefreshNotLost
    SentWasDelivered
    DuplicatesNeedFaults
PROPERTIES
    CoverageGrows
CHECK_DEADLOCK FALSE
