CONSTANTS
    MaxEvents = 2
    MaxBatch = 2
    MaxInFlight = 2
    MaxSegment = 2
    MaxSeq = 4
    MaxRefused = 1
    MaxSessions = 2
    Feeders = 1
    t1 = t1 t2 = t2
    Names <- OneName
    Kinds <- AllKinds
    Ticks = {t1}
    Room = 1
    MaxFiles = 3
    MaxReads = 3
    MaxFaults = 1
    MaxRestarts = 1
    MinDelay = 2 MaxDelay = 4 MaxFlips = 3 MaxDrops = 4
SPECIFICATION MCSpec
INVARIANTS Conservation ReleasedWereReceived QueueSound LossAccounted ShippedOnce
PROPERTIES EventuallyReleased NoUnsettledLoss SpoolDrains SealLearned ReconnectSound
CHECK_DEADLOCK FALSE
