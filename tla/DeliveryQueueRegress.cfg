SPECIFICATION Spec
CONSTANTS
    Records = {1, 2}
    Parts = 1
    MaxAttempts = 2
    MaxDay = 0
    MaxRequests = 0
    MaxFaults = 0
    FaultKinds = {}
    InOrder = FALSE
PROPERTIES
    SummariesDoNotRegress
CHECK_DEADLOCK FALSE
