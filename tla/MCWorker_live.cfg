SPECIFICATION FairSpec
CONSTANTS
    c1 = c1
    c2 = c2
    Nobody = Nobody
    Clients = {c1, c2}
    Cancellable = {c1, c2}
    QueueCapacity = 1
    Granted <- AllRequests
    RestartAfter = 1
    MaxCalls = 2
INVARIANTS
    ReturnMeansReleased
PROPERTIES
    EveryCallReturns
    EmergencyReleases
    ImplementsContract
CHECK_DEADLOCK FALSE
