SPECIFICATION SharingSpec
CONSTANTS
    a = a
    b = b
    c = c
    x = x
    w1 = w1
    w2 = w2
    c1 = c1
    c2 = c2
    c3 = c3
    NoToken = NoToken
    Nobody = Nobody
    Urls = {a, b, c, x}
    Seeds = {a}
    Scope = {a, b, c}
    MaxPages = 2
    MaxDepth = 1
    MaxFailures = 1
    MaxAttempts = 2
    MaxEvents = 20
    Workers = {w1, w2}
    Links <- MCLinks
    MaxTime = 2
    MaxFaults = 1
    Callers = {c1, c2, c3}
    Capacity = 1
    Room = 1
    o1 = o1
    o2 = o2
    Sharers = {o1, o2}
    PlainDrops = TRUE
    MaxPipes = 2
    MaxRequests = 3
    MaxWait = 4
    TaskInputs <- MCTasks
    Personas <- MCPersonas
    Stations <- MCStations
    Backlog = 1
    MaxGuarded = 4
    MaxTries = 2
    Limit = 2
    m1 = "m1"
    m2 = "m2"
    Replaces = FALSE
    ChannelRoom = 2
    CacheRoom = 1
    RingRoom = 2
    MostEvents = 2
    ExpectClicks = 2
    SocketRoom = 1
    MaxFrames = 2
INVARIANTS
    TypesOK
    PendingIsClaimable
    LeasesExclude
    AckedIsDurable
    ConnectionsHold
    TasksAgree
CHECK_DEADLOCK FALSE
