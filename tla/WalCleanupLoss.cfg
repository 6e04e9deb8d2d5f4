SPECIFICATION Spec
CONSTANTS
    Writers = {w1}
    Nobody = nobody
    Serialized = TRUE
    Maintains = TRUE
    MaxRotations = 1
    RotateLen = 9
    MaxAge = 0
    MaxAppends = 2
    MaxClock = 1
    MaxTicks = 1
    MaxFaults = 0
INVARIANT UnexpiredReadable
CHECK_DEADLOCK FALSE
