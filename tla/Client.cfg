SPECIFICATION Spec
CONSTANTS
    u1 = u1
    u2 = u2
    g1 = g1
    g2 = g2
    None = None
    Off = Off
    Users = {u1, u2}
    Own = u1
    Groups = {g1, g2}
    GroupsOf <- MCGroupsOf
    SentIn <- MCSentIn
    Bible <- MCBible
    WeekOf <- MCWeekOf
    InitialTasks <- MCTasks
    Drafts <- MCDrafts
    Titles <- MCTitles
    Uploads <- MCUploads
    Reminded = {1, 2}
    MemoryItems = {1}
    Catalogued = {k1, k2}
    Chats = {c1, c2}
    Announced = {g1}
    MaxEndpoints = 2
    MaxChain = 4
    MaxActs <- MCActs
    MaxMishaps <- MCMishaps
    MaxCalls <- MCCalls
CHECK_DEADLOCK FALSE
INVARIANTS
    ShownInContext
    NothingHangs
    PagesAgree
    SavesCount
    TypeOK
    AlertsAreOwn
PROPERTIES
    OnlyAskedChanges
