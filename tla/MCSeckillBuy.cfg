SPECIFICATION Spec
CONSTANTS
    r1 = r1
    r2 = r2
    r3 = r3
    u1 = u1
    u2 = u2
    Absent = Absent
    Requests <- MCRequests
    Users <- MCUsers
    UserOf <- MCUserOf
    Cooldown = FALSE
    MaxStock = 2
    MaxStarts = 1
    MaxCrashes = 1
SYMMETRY MCSymmetry
INVARIANTS
    TypeOK
    NoOversell
    OneOrderPerUser
    AnswersAreTrue
    CounterCoversStock
    CounterSettles
PROPERTIES
    SellsAsPromised
CHECK_DEADLOCK FALSE
