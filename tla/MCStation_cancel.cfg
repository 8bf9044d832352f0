SPECIFICATION Spec
CONSTANTS
    a1 = a1
    a2 = a2
    b = b
    p = p
    q = q
    c1 = c1
    c2 = c2
    Nobody = Nobody
    r1 = r1
    r2 = r2
    Callers = {c1, c2}
    Identities = {a1, a2, b}
    ProfileOf <- MCProfileOf
    Runtimes = {r1}
    MaxResident = 2
    Offered <- AllCalls
    Cancellable = {c1, c2}
    DevtoolsBounded = TRUE
    CloseBounded = TRUE
    MaxCalls = 3
SYMMETRY Symmetry
INVARIANTS
    OneFormPerProfile
    RegistryIsShutdownSet
    ShutdownReleasesAll
CHECK_DEADLOCK FALSE
