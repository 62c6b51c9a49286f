CONSTANTS
    w1 = w1 w2 = w2 b1 = b1 b2 = b2
    Workers = {w1, w2}
    Batches = {b1, b2}
    Cap = 1
    TornReads = FALSE
    MaxLines = 2
    MaxIncs = 2
    MaxSessions = 2
    MaxRestarts = 1
    Pollers = {w1, w2}
    PollCap = 2 MaxRecords = 3 MaxPolls = 2 MaxLinks = 1
SPECIFICATION MCSpec
INVARIANTS ShippingSound PolledNoSkip
SYMMETRY Symmetric
CHECK_DEADLOCK FALSE
