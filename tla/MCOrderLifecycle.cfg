SPECIFICATION Spec
CONSTANTS
    h1 = h1
    h2 = h2
    u1 = u1
    Timer = Timer
    Absent = Absent
    Orders <- MCOrders
    Users <- MCUsers
    UserOf <- MCUserOf
    Handlers <- MCHandlers
    Quantities = {1, 2}
    Cooldown = FALSE
    ScanLimit = 2
    Timeout = 1
    Interval = 1
    StartTime = 10
    MaxStock = 1
    MaxScans = 1
    MaxFaults = 1
    MaxCrashes = 1
SYMMETRY MCSymmetry
INVARIANTS
    ReturnedOnce
    NoLiveOversell
    OneLiveOrder
    PaidStaysPaid
    NoUnitForgotten
PROPERTIES
    CancelsAsPromised
CHECK_DEADLOCK FALSE
