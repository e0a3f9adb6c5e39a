SPECIFICATION DigestSpec
CONSTANTS
    s1 = s1
    s2 = s2
    f1 = f1
    f2 = f2
    DRows = {1, 2}
    Moment <- MCMoment
    DSinks <- MCSinks
    Flushes <- MCFlushes
    Concurrency = 2
    FlushLimit = 3
    DMaxAttempts = 2
    Threshold = 2
    Cooldown = 1
    MaxHeard = 1
    Scenarios <- MCScenarios
INVARIANTS
    RowsStayApart
PROPERTIES
    OpeningIsAlerted
    FlushTerminates
