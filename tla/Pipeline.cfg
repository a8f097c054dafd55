SPECIFICATION Spec
CONSTANTS
    Selections <- MCSelections
    MaxRuns = 5
    MaxEdits = 1
    MaxTools = 1
INVARIANTS TypeOK CacheIsCurrent QuietMeansCached OutputsAreRight
CHECK_DEADLOCK FALSE
