SPECIFICATION Spec
CONSTANTS
    MaxHashBlocks = 5
    IntMax = 131071
    LongMax = 262143
    NoHost = NoHost
    NoPort = NoPort
    Strings <- MCStrings
    CtxSize = 1
    MaskBits = 19
    NiceMax = 65535
    FirstBytes = 2
    MaxArgs = 2
    Args <- MCArgs
    Files <- MCFiles
    Machines <- MCMachines
INVARIANTS
    TypeOK
    FitsCache
    OwnUser
    ThreadsDisjoint
CHECK_DEADLOCK FALSE
