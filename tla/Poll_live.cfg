SPECIFICATION FairSpec
CONSTANTS
    Releases = {1, 2}
    Old = {}
    Accepted = {1, 2}
    Undated = {}
    MaxVersion = 1
    Excluding = FALSE
    Loops = {loop}
    Checks = {check}
    Hooks = {hook}
    Keyed = {hook}
    Mortal = {hook}
    Retention = {}
    None = None
INVARIANT EtagHidesNothing
PROPERTY EverythingIsAnnounced
CHECK_DEADLOCK FALSE
