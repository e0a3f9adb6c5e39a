SPECIFICATION Spec
CONSTANTS
    Releases = {1, 2}
    Old = {}
    Accepted = {1, 2}
    Undated = {1}
    MaxVersion = 1
    Excluding = FALSE
    Loops = {loop}
    Checks = {check}
    Hooks = {hook}
    Keyed = {hook}
    Mortal = {loop, check, hook}
    Retention = {"seen", "webhooks"}
    None = None
INVARIANT NoRepeat
CHECK_DEADLOCK FALSE
