SPECIFICATION Spec
CONSTANTS
    i1 = i1
    i2 = i2
    p1 = p1
    Instances <- MCInstances
    Peers <- MCPeers
    Super = super
    Daily = daily
    Apple = TRUE
    BatchLimit = 2
    MaxAttempts = 2
    MaxReminders = 1
    MaxEvents = 3
INVARIANTS
    DailyOnce
    OneSender
    CopiesExplained
    NoReplay
PROPERTIES
    PushesEnd
CHECK_DEADLOCK FALSE
