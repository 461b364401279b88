SPECIFICATION MCSpec
CONSTANTS
    c1 = c1  c2 = c2
    t1 = t1  t2 = t2
    None = None
    ObservationOnly = ObservationOnly
    Coordinators <- TwoLaunches
    Callers <- TwoCallers
    Limits <- TwoLimits
    Costs <- OneCost
    MaxEpoch = 2
    MaxAttempts = 2
    ScreenRecords = {1, 2, 3}
    ScreenItems = {"i1", "i2"}
    ScreenTexts = {"t1", "t2"}
    ScreenProtected = {"t2"}
    ScreenEdits = 1
SYMMETRY Symmetry
INVARIANT
    RequestsAreAdmitted
PROPERTIES
    ReleaseIsSeparated
    SealedNeverAdmits
CHECK_DEADLOCK FALSE
