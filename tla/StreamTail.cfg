CONSTANTS
    r1 = r1 r2 = r2 b1 = b1 b2 = b2 b3 = b3
    Readers = {r1}
    Batches = {b1, b2, b3}
    Cap = 1
    Ties = FALSE
    MaxLines = 2
    MaxFailures = 1
    MaxSessions = 2
SPECIFICATION FairSpec
INVARIANTS StreamSound
PROPERTIES StreamDelivers
CHECK_DEADLOCK FALSE
