SPECIFICATION FairSpec
CONSTANTS
    Callers = {c1, c2, c3, c4}
    Connections = {m1, m2}
    PoolSize = 2
    Nobody = Nobody
    MaxCalls = 4
    MaxPingFaults = 1
    Clients = {u1, u2}
    Descriptors = {d1, d2}
    Nothing = Nothing
    Foreign = Foreign
    MaxConnects = 2
    MaxForeign = 1
    MaxBroadcasts = 2
    WorkerId = 1
    WorkerRange = 2
    SeqRange = 2
    TimeRange = 8
    Epoch = 3
    Tolerance = 2
    MaxClock = 7
    MaxRestarts = 2
INVARIANTS
    OneOwner
    NothingLeaks
    NoLostWakeup
    OwnConnectionsOnly
    NoDescriptorLeaks
    BroadcastsInOrder
    UniqueIds
PROPERTIES
    EveryCallReturns
    ServesAndStops
    AscendingIds
CHECK_DEADLOCK FALSE
