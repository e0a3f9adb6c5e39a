SPECIFICATION Spec
CONSTANTS
    Releases = {1, 2}
    Old = {1}
    Accepted = {1, 2}
    Undated = {}
    MaxVersion = 2
    Excluding = FALSE
    Loops = {loop}
    Checks = {}
    Hooks = {}
    Keyed = {}
    Mortal = {}
    Retention = {}
    None = None
INVARIANT UpdatesAnnounced
CHECK_DEADLOCK FALSE
