SPECIFICATION FairSpec
CONSTANTS
    i1 = i1
    i2 = i2
    i3 = i3
    d1 = d1
    d2 = d2
    NoToken = NoToken
    Items <- MCItems
    Directs <- MCDirects
    Tokens <- MCTokens
    BadBody <- MCBadBody
    HISTORY_CAP = 2
INVARIANTS
    SingleFlight
    CancelReachesItsJob
PROPERTIES
    EveryItemLeaves
    ImplementsSerialExecutor
CHECK_DEADLOCK FALSE
