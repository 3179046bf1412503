SPECIFICATION Spec
CONSTANTS
    Threads = 2
    Factor <- MCFactor
    BucketSize = 4
    ShortInterval = 1
    LongInterval = 2
    StatMask = 1
    HighestMask = 3
    Garbage = {99}
    Unit = 60
    MaxClock = 6
    ReadyBy = 2
    MaxDelays = 1
    MaxBatches = 1
INVARIANTS
    WindowRate
CHECK_DEADLOCK FALSE
