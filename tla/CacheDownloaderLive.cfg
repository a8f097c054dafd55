SPECIFICATION Spec
CONSTANTS
    a = a
    b = b
    music = music
    none = none
    NoRequest = none
    Requests <- MCPair
    Index <- MCPairIndex
    Blocks <- MCPairBlocks
    NumClients = 2
    Room = 1
    MaxHttpAttempts = 2
    MaxLosses = 1
PROPERTY
    Settles
CHECK_DEADLOCK FALSE
