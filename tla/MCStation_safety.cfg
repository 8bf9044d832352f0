SPECIFICATION Spec
CONSTANTS
    a1 = a1
    a2 = a2
    b = b
    p = p
    q = q
    c1 = c1
    c2 = c2
    Nobody = Nobody
    r1 = r1
    r2 = r2
    Callers = {c1, c2}
    Identities = {a1, b}
    ProfileOf <- MCProfileOf
    Runtimes = {r1, r2}
    MaxResident = 1
    Offered <- OrderlyCalls
    Cancellable = {}
    DevtoolsBounded = TRUE
    CloseBounded = FALSE
    MaxCalls = 4
SYMMETRY Symmetry
INVARIANTS
    TypeOK
    ReservationOwned
    BrowserBound
    ProfileIsFree
PROPERTIES
    LeaseKeepsBrowser
CHECK_DEADLOCK FALSE
