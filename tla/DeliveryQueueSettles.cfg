SPECIFICATION Spec
CONSTANTS
    Records = {1, 2, 3}
    Parts = 1
    MaxAttempts = 2
    MaxDay = 1
    MaxRequests = 0
    MaxFaults = 0
    FaultKinds = {}
    InOrder = TRUE
PROPERTIES
    EventsSettle
    SummariesDoNotRegress
CHECK_DEADLOCK FALSE
