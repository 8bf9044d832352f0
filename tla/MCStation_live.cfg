SPECIFICATION FairSpec
CONSTANTS
    a1 = a1
    a2 = a2
    b = b
    p = p
    q = q
    c1 = c1
    c2 = c2
    Nobody = Nobody
    r1 = r1
    Callers = {c1, c2}
    Identities = {a1, b}
    ProfileOf <- MCProfileOf
    Runtimes = {r1}
    MaxResident = 1
    Offered <- AllCalls
    Cancellable = {}
    DevtoolsBounded = TRUE
    CloseBounded = FALSE
    MaxCalls = 3
PROPERTIES
    EveryCallReturns
CHECK_DEADLOCK FALSE
