SPECIFICATION Spec
CONSTANTS
    c1 = c1
    c2 = c2
    c3 = c3
    w1 = w1
    w2 = w2
    Nobody = Nobody
    Callers = {c1, c2}
    Workers = {w1}
    Tasks <- WaitTasks
    MaxInFlight = 1
    Failures = FALSE
    Repairs = FALSE
    MaxRuns = 1
INVARIANTS
    WaitFindsElement
CHECK_DEADLOCK FALSE
