CONSTANTS
    b1 = b1 b2 = b2
    BucketIds = {b1, b2}
    HintBatch = 1 SweepTicks = 2 RereadTicks = 3
    MaxChanges = 2 MaxFaults = 1 MaxRefreshes = 1 MaxHooks = 1
SPECIFICATION ReaderSpec
PROPERTIES NothingVanishes Converges
