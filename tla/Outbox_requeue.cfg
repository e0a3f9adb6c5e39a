SPECIFICATION Spec
CONSTANTS
    Rows = {r1}
    NoRow = NoRow
    Contents = {c1, c2}
    NoContent = NoContent
    Indices = {0, 1}
    Targets = {0, 1}
    NoTarget = NoTarget
    Notifiers <- Drifting
    Flushers = {f1, f2}
    Pollers = {p1}
    MaxAttempts = 2
    Races <- RequeueRace
INVARIANT NoDoubleSend
CHECK_DEADLOCK FALSE
