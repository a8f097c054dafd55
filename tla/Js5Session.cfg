SPECIFICATION Spec
CONSTANTS
    master = master
    ref = ref
    arch = arch
    gone = gone
    Keys <- MCKeys
    Master = master
    RefTables <- MCRefTables
    Local = {ref, arch}
    Malformed = {ref}
    Length <- MCLength
    Header = 1
    MaxPayload = 2
    Limit = 9
    LoggedOutPrefetch = TRUE
    MaxRequests = 2
INVARIANTS
    NoStuckKey
    OneResponsePerKey
    NoGarbledArchive
    ThreadDiesOnlyOnClose
    NoZombieSession
PROPERTIES
    ServiceSpec
    AnsweredOrSpinning
CHECK_DEADLOCK FALSE
