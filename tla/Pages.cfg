SPECIFICATION Spec
CONSTANTS
    g1 = g1
    g2 = g2
    m1 = m1
    m2 = m2
    d1 = d1
    d2 = d2
    d3 = d3
    a = a
    b = b
    h1 = h1
    h2 = h2
    None = None
    Off = Off
    Groups = {g1, g2}
    Ministries = {m1, m2}
    HomeOf <- MCHomeOf
    Ids = {d1, d2, d3}
    Resources = {a, b}
    ResourceOf <- MCResourceOf
    Scopes = {p1, p2}
    Homes = {h1, h2, h3}
    AtStart <- MCAtStart
    Existing = {h1, h2}
    Users = {u1, u2}
    Months = {jan, feb}
    Readings = {x1, x2, x3}
    Endings = {x3}
    MinistryGroups = {g1}
    Filters = {all, weak}
    concurrentDownloads = 1
    persistedTaskLimit = 2
    Size = 2
    MaxActs <- MCActs
    MaxMishaps <- MCMishaps
    MaxCalls <- MCCalls
INVARIANTS
    PageOfContext
    OwnWorkStands
    PagesSettle
    ChangesStayInContext
    TypeOK
PROPERTIES
    Delivers
CHECK_DEADLOCK FALSE
