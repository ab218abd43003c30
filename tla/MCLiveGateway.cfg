SPECIFICATION Spec
CONSTANTS
    e1 = e1
    e2 = e2
    o1 = o1
    o2 = o2
    None = None
    Execs <- TwoExecs
    Orders <- TwoOrders
    MaxAttempts = 3
    MaxFaults = 3
    TTL = 10
    Refresh = 2
    Delay = 1
    Wait = 4
    LeaseMax = 1
    PingMax = 3
    SaveMax = 1
    OrderMax = 1
INVARIANTS
    OneMonitor
    LossIsToldOnce
    WindowInsideLease
PROPERTIES
    CatchUpIsExact
    OutageEnds
    ReleasedWhenQuiet
    FailsToALoss
    EveryOrderEnds
    LeaseEnds
CHECK_DEADLOCK FALSE
