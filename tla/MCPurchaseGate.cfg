SPECIFICATION Spec
CONSTANTS
    r1 = r1
    r2 = r2
    u1 = u1
    i1 = i1
    Main = Main
    Free = Free
    Requests <- MCRequests
    Ips = {i1}
    Users = {u1}
    IpOf <- MCIpOf
    UserOf <- MCUserOf
    Targets <- MCTargets
    Settings <- MCSettings
    Default <- MCDefault
    Times = {2003}
    MaxSignals = 2
    MaxTokens = 1
SYMMETRY MCSymmetry
INVARIANTS
    TypeOK
    BucketBound
    EmptyMeansBusy
    WindowBound
    SettingsSettle
    NoDeadlock
PROPERTIES
    UsedTokenIsRefused
CHECK_DEADLOCK FALSE
