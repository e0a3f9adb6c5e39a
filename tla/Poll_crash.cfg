SPECIFICATION Spec
CONSTANTS
    Releases = {1, 2}
    Old = {1}
    Accepted = {1, 2}
    Undated = {}
    MaxVersion = 1
    Excluding = TRUE
    Loops = {loop}
    Checks = {}
    Hooks = {}
    Keyed = {}
    Mortal = {loop}
    Retention = {}
    None = None
INVARIANT EtagHidesNothing
CHECK_DEADLOCK FALSE
