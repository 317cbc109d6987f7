SPECIFICATION Spec
CONSTANTS
    Universe <- UniverseDef
    MaxLen = 3
    None = None
INVARIANTS
    DefiniteVerdictKept
    SurfaceIsEarned
    DoubtIsReflected
    LocationBandIsPublished
    PositionIsInstrumental
CHECK_DEADLOCK FALSE
