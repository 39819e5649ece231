CONSTANTS
  Paths = {a, b}
  Sizes = {"H", "M"}
  DefaultSize = "H"
  Cap <- MCCap
  MaxAsks = 1
SPECIFICATION RepairSpec
INVARIANTS
    BusyIsHeld
    OneHashRequest
PROPERTIES
    FailedWaitsForUser
    RepairsEnd
CHECK_DEADLOCK FALSE
