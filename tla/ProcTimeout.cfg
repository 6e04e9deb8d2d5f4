SPECIFICATION ProcFairSpec
CONSTANTS
  p1 = p1
  p2 = p2
  p3 = p3
  h1 = h1
  k1 = k1
  None = None
  Pids = {p1, p2, p3}
  Shells = {h1}
  Kills = {}
  MaxBorn = 2
PROPERTY
  TimeoutBounds
CHECK_DEADLOCK FALSE
