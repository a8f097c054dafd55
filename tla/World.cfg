SPECIFICATION Spec
CONSTANTS
    lobbyA = lobbyA
    gameA = gameA
    gameB = gameB
    lobbyC = lobbyC
    none = none
    chan1 = chan1
    chan2 = chan2
    chan3 = chan3
    NoPlayer = none
    Players <- MCPlayers
    Name <- MCName
    Channel <- MCChannel
    Full = {gameA, gameB}
    Capacity = 2
INVARIANTS
    SlotsMatchPlayers
    OneEntryPerName
    NobodyLeftHanging
PROPERTIES
    RosterSpec
    LoginSettled
    GhostsSwept
