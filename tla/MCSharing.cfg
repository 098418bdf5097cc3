CONSTANTS
    s1 = s1
    s2 = s2
    c1 = c1
    c2 = c2
    p1 = p1
    p2 = p2
    Shares = {s1, s2}
    NoOne = NoOne
    Codes = {c1, c2}
    NoCode = NoCode
    Requests = {p1, p2}
    ShareLimit = 1
    MaxBatch = 1
    MaxRequests = 3
SPECIFICATION SpecMC
INVARIANTS TypeOK QuotaHeld UsableIsLiveAlone
PROPERTIES CodeKept DeletedTakesNoCode DeadCodesReleased
CHECK_DEADLOCK FALSE
