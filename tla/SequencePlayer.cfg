CONSTANTS
  Paths = {a, b}
  NoPath = none
  MaxClips = 3
  MaxTasks = 2
SPECIFICATION Spec
INVARIANTS
    EditsHitSelection
    RunningIsPlaying
PROPERTIES
    OthersKeepOrder
    ShowEnds
CHECK_DEADLOCK FALSE
