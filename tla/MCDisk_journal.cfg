SPECIFICATION DiskSpec
CONSTANTS
    s1 = s1
    s2 = s2
    i1 = i1
    i2 = i2
    p1 = p1
    p2 = p2
    p3 = p3
    payload = payload
    d1 = d1
    d2 = d2
    d3 = d3
    r1 = r1
    r2 = r2
    f1 = f1
    f2 = f2
    x1 = x1
    c1 = c1
    c2 = c2
    Daemons = {d1, d2, d3}
    Scopes = {r1, r2}
    ScopeOf <- MCScopeOf
    NoSnapshot = NoSnapshot
    NoMirror = NoMirror
    Snapshots = {s1, s2}
    MaxGeneration = 5
    Monitors = {i1, i2}
    Payloads = {payload}
    MaxFrames = 3
    MaxWriteFaults = 1
    MaxCrashes = 1
    Processes = {p1, p2, p3}
    MaxBuilds = 2
    RemovalInterrupted = FALSE
    Identities <- MCIdentities
    Plain <- MCPlain
    Unbound = Unbound
    Tears = TRUE
    MaxAppends = 2
    MaxInterrupts = 2
    Launches = {f1, f2, x1, c1, c2}
    Firefox = {f1, f2, x1}
    External = {x1}
    Nobody = Nobody
    Quarantine = Quarantine
    MaxCaptures = 2
    RowLimits = {1, 2}
    WideCell = 3
    CrawlRoom = 3
    RowRoom = 4
    MaxDepth = 1
    MaxAttempts = 2
    MaxEvents = 99
    NoToken = NoToken
    NoUrl = NoUrl
    NoJournal = NoJournal
    PageRoom = 6
    MaxStarts = 2
    MaxWriteErrors = 1
    Results <- MCResults
    MaxTroubles = 2
    MaxChanges = 2
    Parts <- MonitorPart
INVARIANTS
    JournalsStayConsistent
CHECK_DEADLOCK FALSE
