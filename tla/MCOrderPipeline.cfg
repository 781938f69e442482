SPECIFICATION FairSpec
CONSTANTS
    MaxBatch = 2
    MaxPending = 3
    MaxLen = 3
    MaxMessages = 4
    MaxCrashes = 2
    MaxFaults = 1
INVARIANTS
    TypeOK
    NothingLost
    ToldIsStored
    BacklogDrained
PROPERTIES
    ToldOnce
    DeliversAsPromised
    EveryOrderSettles
CHECK_DEADLOCK FALSE
