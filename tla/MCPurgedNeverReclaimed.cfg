SPECIFICATION FairSpec
CONSTANTS
    u1 = u1
    u2 = u2
    f1 = f1
    f2 = f2
    d1 = d1
    n1 = n1
    Files = {f1}
    Folders = {}
    Owners = {u1}
    OwnerOf <- OneOwner
    Names = {n1}
    Blobs = {b1}
    Requests = {r1}
    Root = Root
    NoBlob = NoBlob
    CrossUser = TRUE
    LossyCommit = FALSE
PROPERTIES
    OrphansReclaimed
CHECK_DEADLOCK FALSE
