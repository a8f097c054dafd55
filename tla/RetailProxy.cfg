SPECIFICATION Spec
CONSTANTS
    MaxChunks = 4
    MaxPayloads = 2
INVARIANTS
    WireOrder
    NoneForgotten
PROPERTY
    LocalFollows
CHECK_DEADLOCK FALSE
