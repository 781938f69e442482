SPECIFICATION FairSpec
CONSTANTS
    r1 = r1
    r2 = r2
    u1 = u1
    u2 = u2
    Absent = Absent
    Requests <- MCRequests
    Users <- MCUsers
    UserOf <- MCUserOf
    Cooldown = TRUE
    MaxStock = 1
    MaxStarts = 1
    MaxCrashes = 1
PROPERTIES
    EveryRequestAnswered
CHECK_DEADLOCK FALSE
