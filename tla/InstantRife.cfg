SPECIFICATION Spec
CONSTANTS
    Clips <- MCClips
    Restored <- MCRestored
    Source <- MCSource
    MaxM = 2
    MaxTasks = 2
    MaxEdits = 2
INVARIANTS
    RunIsEncoding
PROPERTIES
    NeverThinner
    QueueEnds
    StopEndsBatch
CHECK_DEADLOCK FALSE
