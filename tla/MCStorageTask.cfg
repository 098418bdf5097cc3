SPECIFICATION FairSpec
CONSTANTS
    x1 = x1
    x2 = x2
    x3 = x3
    x4 = x4
    plain = plain
    sealed = sealed
    Ids = {i1, i2}
    Refs = {x1, x2, x3}
    Forms = {plain, sealed}
    FormOf <- TwoForms
    NoId = NoId
    NoRef = NoRef
    MaxTask = 2
    LossyCommit = FALSE
INVARIANTS
    TypeOK
    ContentAvailable
    OneOwnerPerRef
    OldRefsTracked
PROPERTIES
    QueueAdvances
CHECK_DEADLOCK FALSE
