CONSTANTS
    p1 = p1
    p2 = p2
    h1 = h1
    h2 = h2
    k1 = k1
    k2 = k2
    Requests = {p1, p2}
    Challenges = {h1, h2}
    NoChallenge = NoChallenge
    Secrets = {k1, k2}
    NoSecret = NoSecret
    MaxAttempts = 2
    MaxRequests = 6
    MaxNow = 3
SYMMETRY Symmetric
SPECIFICATION Spec
INVARIANTS PassesUsedOnce TriesBounded SessionIsCurrent
CHECK_DEADLOCK FALSE
