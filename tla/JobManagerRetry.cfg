CONSTANTS
    r1 = r1 r2 = r2
    quota = quota other = other None = None
    MaxTasks = 2
    Rids = {r1, r2}
    Permits = 1
    Commands = {other}
    Quota = quota
    RetryWindow = 1
    Window <- MCWindow
    Delays = {1}
SPECIFICATION FairSpec
INVARIANTS AttemptsBounded
PROPERTIES KeepsContract JobsFinish StopCompletes
CHECK_DEADLOCK FALSE
