CONSTANTS
    j1 = j1
    j2 = j2
    f1 = f1
    f2 = f2
    p1 = p1
    p2 = p2
    Jobs = {j1, j2}
    Files = {f1, f2}
    Requests = {p1, p2}
    NoJob = NoJob
    NoFile = NoFile
    Sizes = {1, 2}
    Limits = {1, 2}
    ByteLimits = {2, 4}
    MaxEdits = 1
SYMMETRY SymmetryMC
SPECIFICATION SpecMC
INVARIANTS TypeOK WithinLimit WithinTraffic CountedOnce RangesExact
PROPERTIES CountedWhole ImplementsTickets
CHECK_DEADLOCK FALSE
