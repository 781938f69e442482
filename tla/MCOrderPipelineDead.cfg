SPECIFICATION Spec
CONSTANTS
    MaxBatch = 2
    MaxPending = 3
    MaxLen = 9
    MaxMessages = 3
    MaxCrashes = 2
    MaxFaults = 0
INVARIANTS
    RejectedIsOnRecord
CHECK_DEADLOCK FALSE
