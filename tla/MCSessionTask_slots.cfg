SPECIFICATION FairSpec
CONSTANTS
    c1 = c1
    c2 = c2
    c3 = c3
    w1 = w1
    w2 = w2
    Nobody = Nobody
    Callers = {c1, c2}
    Workers = {w1, w2}
    Tasks <- MCTasks
    MaxInFlight = 1
    Failures = TRUE
    Repairs = TRUE
    MaxRuns = 2
INVARIANTS
    AdmissionIsCounted
    StepsTakeEffectOnce
    TasksKeepApart
PROPERTIES
    EveryTaskEnds
CHECK_DEADLOCK FALSE
