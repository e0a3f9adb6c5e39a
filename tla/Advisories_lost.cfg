SPECIFICATION AdvisoriesSpec
CONSTANTS
    Versions = {1, 2}
    Vulns = {x, y}
    Answers = {{x}, {y}}
    Lookers = {"sweep", "delivery"}
    Batch = 1
    Threshold = 1
    CacheMax = 1
    MaxNews = 1
    MaxFailures = 1
INVARIANT CheckedIsKnown
CHECK_DEADLOCK FALSE
