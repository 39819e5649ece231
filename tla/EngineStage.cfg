SPECIFICATION EngineSpec
CONSTANTS
    r1 = r1
    r2 = r2
    u1 = u1
    Rife <- MCRife
    Upscale <- MCUpscale
    Output <- MCOutput
    PipeCap = 2
INVARIANTS
    OneRifeEngine
PROPERTIES
    StopEndsJob
    FittingJobEnds
CHECK_DEADLOCK FALSE
