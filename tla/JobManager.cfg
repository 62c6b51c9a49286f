CONSTANTS
    r1 = r1 r2 = r2
    quota = quota other = other None = None
    MaxTasks = 3
    Rids = {r1, r2}
    Permits = 1
    Commands <- BothCommands
    Quota = quota
    RetryWindow = 0
    Window <- MCWindow
    Delays = {}
SPECIFICATION Spec
INVARIANTS OneTerminal NoOrphan QuotaCeiling CancelledIsLast
SYMMETRY Symmetric
CHECK_DEADLOCK FALSE
