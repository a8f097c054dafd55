SPECIFICATION Spec
CONSTANTS
    MaxChunks = 1
    MaxPayloads = 1
PROPERTY
    RemoteFollows
CHECK_DEADLOCK FALSE
