SPECIFICATION Spec
CONSTANTS
    Sizes = {0, 1, 3, 4, 5}
    ChunkSize = 2
    TagSize = 2
    PartSizes = {0, 2, 3, 4}
    BufferSize = 3
INVARIANTS StreamExact CreditExact
CHECK_DEADLOCK FALSE
