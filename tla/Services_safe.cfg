SPECIFICATION Spec
CONSTANTS
    Processes = {p1, p2}
    NoOne = noone
    MaxGen = 2
    Mishaps = {"drop", "session"}
    Unlucky = {p1}
    Keys = {k1, k2}
    Versions = {1, 2}
    Vulns = {x, y}
    Answers = {{x}, {y}}
    Lookers = {"sweep", "delivery"}
    Batch = 1
    Threshold = 1
    CacheMax = 1
    MaxNews = 0
    MaxFailures = 1
INVARIANTS
    OnePoller
    LoopsAreOwned
    SwapIsWhole
PROPERTIES
    ShutdownEnds
    KeysConverge
    SweepCovers
