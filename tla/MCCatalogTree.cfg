SPECIFICATION Spec
CONSTANTS
    u1 = u1
    u2 = u2
    f1 = f1
    f2 = f2
    d1 = d1
    n1 = n1
    Files = {f1}
    Folders = {d1}
    Owners = {u1}
    OwnerOf <- OneOwner
    Names = {n1, n2}
    Blobs = {b1, b2}
    Requests = {r1, r2}
    Root = Root
    NoBlob = NoBlob
    CrossUser = TRUE
    LossyCommit = FALSE
SYMMETRY Interchangeable
INVARIANTS
    TypeOK
    ContentAvailable
    RefsCoverRows
PROPERTIES
    DroppedIsFinal
    ImplementsContentStore
CONSTRAINT
    SecondObjectAlone
CHECK_DEADLOCK FALSE
