SPECIFICATION Spec
CONSTANTS
    Day = 2
    ChunkDays = 3
    MaxRequests = 2
    Horizon = 9
INVARIANTS
    NoDayTwice
    NoGap
    NrtNeverTooOld
    MergedIsCsv
CHECK_DEADLOCK FALSE
