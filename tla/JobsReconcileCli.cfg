SPECIFICATION Spec
CONSTANTS
    Jobs = {d1, c1}
    CliJobs = {c1}
    MaxFaults = 0
    MaxCrashes = 0
    Free = Free
PROPERTY ReconcilesOnlyDead
CHECK_DEADLOCK FALSE
