SPECIFICATION SessSpec
CONSTANTS
  r1 = r1
  r2 = r2
  None = None
  Runs = {r1, r2}
  Steps <- PromptLengths
  Name = n
  MaxKilled = 1
INVARIANT
  JobsKept
CHECK_DEADLOCK FALSE
