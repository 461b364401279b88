SPECIFICATION FairSpec
CONSTANTS
    K = 2
    Scores <- MCScores
    MaxLaunches = 3
    None = None
INVARIANTS
    OneWinner
    NeverRespend
    GroupIsDecided
PROPERTIES
    NoClobber
    EventuallyCommitted
CHECK_DEADLOCK FALSE
