SPECIFICATION ExecutingSpec
CONSTANTS
  Jobs = {d1, c1}
  CliJobs = {c1}
  MaxFaults = 2
  MaxCrashes = 1
  Free = Free
  None = None
  FileJobs = {f1, f2, g1}
  FileCliJobs = {g1}
  FileFaults = 1
  Pids = {f1, f2, f3}
  Shells = {h1}
  Kills = {k1}
  MaxBorn = 2
  ReadInodes = {i1}
  ReadOutside = o1
  MaxLen = 3
  MaxBytes = {0, 1, 2, 3}
  MaxFileSize = 2
  ReadChanges = 3
  Execs = {x}
  Levels = {"B", "D", "?"}
  ConfChanges = 1
  Editors = {f1, f2}
  Viewers = {v1}
  Locations = {p1}
  MaxEdits = 2
  Executors = {e1}
  Monitors = {m1}
  Callers = {t1}
  TTL = 1
  MaxClock = 1
  MaxCaptures = 3
  Twins = {f1, f2}
SYMMETRY Symmetry
INVARIANTS
  ExecutingTypeOK
  GovernedEffect
  CompletedIsUndoable
  SingleTerminal
  
  FileChangesAtOnce
  AnswersAreTrue
  TimeoutKillsGroup
  ReadIsTrue
  DoneWasAssessed
  
PROPERTIES
  CompletedForGood
  UndoBringsBack
  SnapshotsDistinct
  OneEditAtATime
CHECK_DEADLOCK FALSE
