SPECIFICATION Spec
CONSTANTS
    Writers = {w1}
    Nobody = nobody
    Serialized = TRUE
    Maintains = TRUE
    MaxRotations = 2
    RotateLen = 2
    MaxAge = 5
    MaxAppends = 4
    MaxClock = 3
    MaxTicks = 2
    MaxFaults = 0
INVARIANT ChronologicalLoad
CHECK_DEADLOCK FALSE
