CONSTANTS
    w1 = w1 w2 = w2 b1 = b1 b2 = b2
    Workers = {w1}
    Batches = {b1}
    Cap = 1
    TornReads = FALSE
    MaxLines = 2
    MaxIncs = 2
    MaxSessions = 2
    MaxRestarts = 1
SPECIFICATION FairSpec
PROPERTIES LinesDelivered
CHECK_DEADLOCK FALSE
