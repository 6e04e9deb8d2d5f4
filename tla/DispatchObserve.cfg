SPECIFICATION FairSpec
CONSTANTS
    Reqs = {r1, r2}
    Kinds = {"dispatch", "observe"}
    MaxConcurrentJobs = 2
    NumWorkers = 2
    Free = Free
PROPERTY ObserveWindowEnds
CHECK_DEADLOCK FALSE
