CONSTANTS
  Files = {a, b}
  Old = a
  NoFile = none
  MaxActs = 3
  MaxPuts = 2
SPECIFICATION Spec
PROPERTY
  CancelledSaveKeepsSession
CHECK_DEADLOCK FALSE
