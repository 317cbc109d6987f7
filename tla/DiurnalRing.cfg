SPECIFICATION Spec
CONSTANTS
    Hours = 4
    Tick = 2
    window_hours = 2
    min_events = 2
    min_empty_hours = 2
    daylight_start = 1
    daylight_end = 3
    Percent = 60
    Cells = {1, 2}
    Offsets = {0, 1}
    MaxObs = 4
    None = None
INVARIANTS
    WindowIsBusiest
    IndustryIsRegular
CHECK_DEADLOCK FALSE
