SPECIFICATION FairSpec
CONSTANTS
    c1 = c1
    t1 = t1
    t2 = t2
    None = None
    ObservationOnly = ObservationOnly
    Coordinators <- OneLaunch
    Callers <- TwoCallers
    Limits <- OneLimit
    Costs <- OneCost
    MaxEpoch = 1
    MaxAttempts = 2
PROPERTY
    BeginReturns
CHECK_DEADLOCK FALSE
