SPECIFICATION Spec
CONSTANTS
    Users = {u1, u2}
    Applicants = {u1}
    StudyAdmin = admin
    Nobody = nobody
    Jobs = {p1, p2}
    MaxRound = 2
    MaxChanges = 3
INVARIANTS
    RoundsRuledOnce
    RoundsAnnounced
    OnlyInsidersApply
    NoLockCycle
SYMMETRY Interchangeable
CHECK_DEADLOCK FALSE
