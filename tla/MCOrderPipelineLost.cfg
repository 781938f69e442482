SPECIFICATION Spec
CONSTANTS
    MaxBatch = 2
    MaxPending = 3
    MaxLen = 9
    MaxMessages = 3
    MaxCrashes = 2
    MaxFaults = 1
INVARIANTS
    FailedBatchStaysPending
CHECK_DEADLOCK FALSE
