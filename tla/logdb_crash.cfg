CONSTANTS
    Names = {"t", "u"}
    Keys = {"k"}
    Values = {"v", "w"}
    Slots = 2
    GrowStep = 8
    MaxOps = 4
    MaxCrashes = 2
    InsertIntoEmpty = FALSE
    PowerFails = FALSE
SPECIFICATION MCSpec
INVARIANTS ValidHasBlock MemoryMatchesFile
PROPERTIES IsDurable
CHECK_DEADLOCK FALSE
