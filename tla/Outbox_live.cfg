SPECIFICATION FairSpec
CONSTANTS
    Rows = {r1}
    NoRow = NoRow
    Contents = {c1}
    NoContent = NoContent
    Indices = {0, 1}
    Targets = {0, 1}
    NoTarget = NoTarget
    Notifiers <- OneStays
    Flushers = {f1}
    Pollers = {p1}
    MaxAttempts = 2
    Races <- NoRaces
INVARIANT NobodySkipped
PROPERTY Settles
CHECK_DEADLOCK FALSE
