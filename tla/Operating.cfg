SPECIFICATION OperatingSpec
CONSTANTS
  Jobs = {q1, q2}
  Names = {a, b}
  Secret = {b}
  MaxClean = 1
  MaxEdits = 1
  None = None
  Makers = {q1, q2}
  Askers = {a1}
  Servers = {d1, d2}
  MaxKills = 1
  Runs = {q1, q2}
  Name = s
  MaxKilled = 1
  Users = {u1}
  AlertMinutes = 2
  MaxAlerts = 3
  MaxRam = 2
  Fraction = 2
  MaxChecks = 4
  Starts = {q1, q2}
  Ids = {i1}
  Bundles = {b1}
  MaxSlots = 1
  MaxTicks = 1
  MaxDeaths = 1
  Providers = {"jfr"}
  Binaries = {"absent", "other"}
  Words = {"exception"}
  Callers = {q1, q2}
  Pids = {p1}
  MaxStart = 2
  MaxClock = 2
  MaxRefs = 2
  Twins = {q1, q2}
SYMMETRY Symmetry
INVARIANTS
  OperatingTypeOK
  RemovedIsKept
  ChangeIsMeant
  
  ToldTrue
  
  AlertsAreDue
  
  EvidenceAddsUp
CHECK_DEADLOCK FALSE
