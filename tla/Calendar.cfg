SPECIFICATION WalkSpec
CONSTANTS
    Hours = 3
    Minutes = 2
    Seconds = 2
    Base = 2
    Years <- CenturiesAroundEpoch
    Instants <- Edges
    Zones <- Offsets
INVARIANTS
    CivilIsCalendar
    TextKeepsInstant
PROPERTY TextOrderIsTime
CHECK_DEADLOCK FALSE
