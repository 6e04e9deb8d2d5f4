SPECIFICATION LoggingSpec
CONSTANTS
  Writers = {w1, w2}
  Nobody = nobody
  Serialized = TRUE
  Maintains = TRUE
  MaxRotations = 1
  RotateLen = 2
  MaxAge = 0
  MaxAppends = 2
  MaxClock = 1
  MaxTicks = 2
  MaxFaults = 1
  None = None
  w1 = w1
  w2 = w2
  w3 = w3
  c1 = c1
  d1 = d1
INVARIANTS
  LoggingTypeOK
  OneArchiveInOrder
  NumbersDistinct
  LossIsExplained
  AdmissibleMeansHonest
  
  CompletedIsAccounted
  
PROPERTIES
  LogKept
CHECK_DEADLOCK FALSE
