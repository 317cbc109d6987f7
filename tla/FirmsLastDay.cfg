SPECIFICATION Spec
CONSTANTS
    Day = 2
    ChunkDays = 2
    MaxRequests = 2
    Horizon = 5
INVARIANT LastDayKept
CHECK_DEADLOCK FALSE
