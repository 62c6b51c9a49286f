CONSTANTS
    MaxKeys = 4
    MaxBuckets = 2
    MaxObjects = 1
    Rules = {0, 1}
    MaxJobs = 2
    MaxStops = 1
    MaxRounds = 3
    Scenarios <- AllScenarios
SPECIFICATION FairSpec
INVARIANTS KeysAccounted ReportsTrue NeverStrands
PROPERTIES JobsEnd
CHECK_DEADLOCK FALSE
