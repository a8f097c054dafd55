SPECIFICATION Spec
CONSTANTS
    Cases <- MCCases
    MaxReplies = 2
INVARIANTS
    StreamsIntact
    NothingCutShort
    WholeRequests
    RoutedRight
    NoSocketLeft
PROPERTIES
    ProxySettles
    GameEnds
CHECK_DEADLOCK FALSE
