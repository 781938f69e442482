SPECIFICATION Spec
CONSTANTS
    h1 = h1
    h2 = h2
    u1 = u1
    Timer = Timer
    Absent = Absent
    Orders <- MCOrders
    Users <- MCUsers
    UserOf <- MCUserOf
    Handlers <- MCHandlers
    Quantities = {1}
    Cooldown = FALSE
    ScanLimit = 2
    Timeout = 1
    Interval = 1
    StartTime = 10
    MaxStock = 2
    MaxScans = 0
    MaxFaults = 0
    MaxCrashes = 0
PROPERTIES
    OnlyPendingIsCancelled
CHECK_DEADLOCK FALSE
