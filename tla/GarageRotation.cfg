CONSTANTS
    MaxKeys = 3
    MaxBuckets = 1
    MaxObjects = 1
    Rules = {0}
    MaxJobs = 1
    MaxStops = 0
    MaxRounds = 3
    Scenarios <- Making
SPECIFICATION Spec
INVARIANTS RollbackKeepsOldKey
CHECK_DEADLOCK FALSE
