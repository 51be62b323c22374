SPECIFICATION Spec
CONSTANTS
    g1 = g1
    g2 = g2
    t1 = t1
    a1 = a1
    a2 = a2
    Groups <- MCGroups
    Targets <- MCTargets
    Admins <- MCAdmins
    NoGroup = none
    Any = any
    Worker = worker
    Nobody = nobody
    MaxChanges = 2
INVARIANTS
    SendUnderCurrentBinding
    MutedUnbindsItsOwnBinding
    PublishedIsStored
PROPERTIES
    AssignCompletes
CHECK_DEADLOCK FALSE
