SPECIFICATION Spec
CONSTANTS
    l1 = l1
    l2 = l2
    g1 = g1
    u1 = u1
    u2 = u2
    h1 = h1
    h2 = h2
    None = None
    Lobbies = {l1, l2}
    Games = {g1}
    UserOf <- UserOfChannel
    HostOf <- HostOfChannel
    Eager = {l2}
    p1 = p1
    Packets = {p1}
INVARIANTS
    PacketsArrive
    EncodedRight
    HandedOver
PROPERTIES
    LoginsSettle
CHECK_DEADLOCK FALSE
