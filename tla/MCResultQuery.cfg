SPECIFICATION QuerySpec
CONSTANTS
    p1 = p1
    p2 = p2
    Products <- MCProducts
    QueryLimit = 2
    MaxBatch = 2
    MaxPending = 3
    MaxLen = 3
    MaxMessages = 3
    MaxCrashes = 1
    MaxFaults = 1
SYMMETRY MCSymmetry
INVARIANTS
    HitIsNewest
PROPERTIES
    NeverUnsaid
CHECK_DEADLOCK FALSE
