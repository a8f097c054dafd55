SPECIFICATION Spec
CONSTANTS
    a = a
    b = b
    music = music
    none = none
    NoRequest = none
    Requests <- MCPair
    Index <- MCPairIndex
    Blocks <- MCPairBlocks
    NumClients = 1
    Room = 1
    MaxHttpAttempts = 1
    MaxLosses = 0
INVARIANT
    HttpOutlivesPool
CHECK_DEADLOCK FALSE
