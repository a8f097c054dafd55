SPECIFICATION Spec
CONSTANTS
    a = a
    b = b
    music = music
    none = none
    NoRequest = none
    Requests <- MCRequests
    Index <- MCIndex
    Blocks <- MCBlocks
    NumClients = 2
    Room = 1
    MaxHttpAttempts = 2
    MaxLosses = 1
INVARIANTS
    Accounted
    StoredIsRight
    NoFailureWithoutRetry
CHECK_DEADLOCK FALSE
