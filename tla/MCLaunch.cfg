SPECIFICATION MCFairSpec
CONSTANTS
    s1 = s1
    s2 = s2
    l1 = l1
    l2 = l2
    r1 = r1
    None = None
    Shards <- MCShards
    Items = 2
    MaxInFlight = 1
    Threshold = 2
    Export = TRUE
    MaxLaunches = 3
    Shown = {r1}
    Capacity = 2
    MaxRevision = 2
    SandboxRows = 2
    SandboxCases = 1
INVARIANTS
    LaunchIsSound
    StartIsFaithful
    ScreenCatchesUp
    SupervisorLeavesNothing
PROPERTIES
    LaunchMovesForward
    EveryProcessEnds
CHECK_DEADLOCK FALSE
