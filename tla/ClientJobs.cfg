SPECIFICATION Spec
CONSTANTS
    c1 = c1
    c2 = c2
    Batch = 3
    Cancels <- MCCancels
    MaxDrops = 1
    Polls = 1
INVARIANTS
    OkIsDone
    SoftIsNeverRefused
PROPERTIES
    ServerIsSerialExecutor
    BatchEnds
CHECK_DEADLOCK FALSE
