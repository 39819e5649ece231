SPECIFICATION Spec
CONSTANTS
    clip1 = clip1
    clip2 = clip2
    still1 = still1
    still2 = still2
    nothing = nothing
    Videos = {clip1, clip2}
    Images = {still1, still2}
    NoPath = nothing
    Frames <- MCFrames
    InitialFrames = 4
    Journeys <- MCJourneys
    Bar <- MCBar
    Desks <- MCDesks
    Sliding = {"cut"}
    MaxActs = 4
    MaxPend = 2
INVARIANTS
    TypingKept
    SentClipRuns
    RangeInClip
PROPERTIES
    RankKeepsSelection
CHECK_DEADLOCK FALSE
