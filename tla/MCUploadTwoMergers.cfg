SPECIFICATION Spec
CONSTANTS
    Sessions = {s1}
    Requests = {r1, r2}
    NumChunks = 1
    NoSession = NoSession
    MaxSaves = 2
INVARIANT
    OneMerger
CHECK_DEADLOCK FALSE
