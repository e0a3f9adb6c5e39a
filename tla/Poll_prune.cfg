SPECIFICATION Spec
CONSTANTS
    Releases = {1, 2}
    Old = {1}
    Accepted = {1, 2}
    Undated = {}
    MaxVersion = 1
    Excluding = TRUE
    Loops = {loop}
    Checks = {}
    Hooks = {}
    Keyed = {}
    Mortal = {}
    Retention = {"seen", "outbox"}
    None = None
INVARIANT HistoryIsSilent
CHECK_DEADLOCK FALSE
