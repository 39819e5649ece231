SPECIFICATION Spec
CONSTANTS
    o1 = o1
    o2 = o2
    t1 = t1
    v1 = v1
    v2 = v2
    Nobody = Nobody
    Opens <- MCOpens
    Thumbs <- MCOneThumb
    Variants <- MCVariants
    MaxEvents = 2
    MaxTracks = 2
    MaxFaults = 2
    MaxLives = 2
INVARIANTS
    ShownIsOnDisk
PROPERTIES
    HistoryNotErased
    FlushKeepsVariants
    LockKeepsVariants
CHECK_DEADLOCK FALSE
