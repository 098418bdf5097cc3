SPECIFICATION Spec
CONSTANTS
    Sessions = {s1, s2}
    Requests = {r1, r2}
    NumChunks = 2
    NoSession = NoSession
    MaxSaves = 2
INVARIANTS
    TypeOK
    WholeContent
    SavedOnce
    ReceivedOnDisk
PROPERTIES
    CompletedIsFinal
SYMMETRY Interchangeable
CONSTRAINT SecondSessionSerial
CHECK_DEADLOCK FALSE
