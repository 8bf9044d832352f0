SPECIFICATION Spec
CONSTANTS
    c1 = c1
    c2 = c2
    Nobody = Nobody
    Clients = {c1, c2}
    Cancellable = {}
    QueueCapacity = 1
    Granted <- AllRequests
    RestartAfter = 1
    MaxCalls = 4
SYMMETRY Symmetry
INVARIANTS
    TypeOK
    ElementActsOnItsDocument
    WorkOnSoundRuntime
    OrderlyExitClosesOnce
PROPERTIES
    ImplementsContractSteps
CHECK_DEADLOCK FALSE
