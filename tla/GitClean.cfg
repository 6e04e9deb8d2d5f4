SPECIFICATION GitSpec
CONSTANTS
  Jobs = {j1, j2}
  Names = {a, b}
  Secret = {b}
  MaxClean = 1
  MaxEdits = 0
  None = None
INVARIANTS
  CleanIsBounded
CHECK_DEADLOCK FALSE
