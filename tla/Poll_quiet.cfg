SPECIFICATION Spec
CONSTANTS
    Releases = {1, 2, 3}
    Old = {1, 2}
    Accepted = {1, 3}
    Undated = {1}
    MaxVersion = 2
    Excluding = TRUE
    Loops = {loop}
    Checks = {check}
    Hooks = {}
    Keyed = {}
    Mortal = {loop, check}
    Retention = {"outbox"}
    None = None
INVARIANTS TypeOK HistoryIsSilent
CHECK_DEADLOCK FALSE
