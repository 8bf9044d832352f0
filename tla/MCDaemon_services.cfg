SPECIFICATION DaemonSpec
CONSTANTS
    a = a
    i1 = i1
    i2 = i2
    task = task
    p1 = p1
    p2 = p2
    n1 = n1
    n2 = n2
    o1 = o1
    o2 = o2
    e1 = e1
    e2 = e2
    f1 = f1
    f2 = f2
    f3 = f3
    NoProfile = NoProfile
    MaxResident = 2
    MaxCaptures = 4
    Urls = {a}
    Seeds = {a}
    Scope = {a}
    NoTask = NoTask
    NoToken = NoToken
    MaxPages = 1
    MaxDepth = 1
    MaxFailures = 1
    MaxAttempts = 2
    MaxEvents = 30
    Redirects = TRUE
    Links <- MCLinks
    MaxFaults = 1
    MaxStarts = 2
    Connections = {p1, p2}
    LiveIds = {n1, n2}
    NoSession = NoSession
    MaxSessions = 1
    RingCapacity = 1
    MaxCursor = 2
    MaxConnections = 2
    Parts <- AllParts
INVARIANTS
    TypesOK
    ReceiptsAreBacked
    ServicesHold
    PagesFetchedOnce
    ReadersAreTold
PROPERTIES
    OutcomeIsFinal
    WorkEnds
CHECK_DEADLOCK FALSE
