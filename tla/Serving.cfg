SPECIFICATION ServingSpec
CONSTANTS
  Reqs = {r1, r2, r3}
  Kinds = {"run", "dispatch", "observe"}
  MaxConcurrentJobs = 2
  NumWorkers = 2
  Free = Free
  None = None
  j1 = j1
  j2 = j2
  p1 = p1
  p2 = p2
  p3 = p3
  h1 = h1
INVARIANTS
  TypeOK
  SlotAccounting
PROPERTIES
  FinalStatus
  
  
  TrailsClose
  TimeoutAnswers
CHECK_DEADLOCK FALSE
