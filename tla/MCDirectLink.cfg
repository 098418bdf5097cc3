CONSTANTS
    l1 = l1
    l2 = l2
    p1 = p1
    p2 = p2
    Links = {l1, l2}
    NoLink = NoLink
    Requests = {p1, p2}
    Limits = {1, 2}
    DayLimit = 1
    ActiveLimit = 1
    MaxBatch = 2
    MaxRequests = 4
SYMMETRY Symmetric
SPECIFICATION SpecMC
INVARIANTS LinkWithinLimit DayWithinQuota ActiveWithinQuota BlockFollowsFile
CHECK_DEADLOCK FALSE
