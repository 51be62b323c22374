SPECIFICATION Spec
CONSTANTS
    Groups = {g1}
    Readers = {r1}
    Writers = {w1}
    Maintainer = m
    Sizes = {1, 2}
    MaxEntries = 2
    MaxBytes = 2
    ChanCap = 1
    MaxDay = 1
    MaxEvents = 2
INVARIANTS
    FreshCache
    ReadsAcknowledgedWrites
    CacheAccounting
PROPERTIES
    RefreshIsServed
