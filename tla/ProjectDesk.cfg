CONSTANTS
  Files = {a, b}
  Old = a
  NoFile = none
  MaxActs = 3
  MaxPuts = 2
SPECIFICATION Spec
INVARIANTS
    CleanIsSaved
PROPERTIES
    NoSilentEmptyOverwrite
    EditsReachSession
CHECK_DEADLOCK FALSE
