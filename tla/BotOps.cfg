SPECIFICATION Spec
CONSTANTS
    j1 = j1  j2 = j2  look = look  p1 = p1  p2 = p2  None = None
    Jobs = {j1, j2}
    Looks = {look}
    Pids = {p1, p2}
    MaxCrashes = 2
INVARIANTS OneAtATime NoOrphan LockAndRows
PROPERTIES StopStops JobsEnd
CHECK_DEADLOCK FALSE
