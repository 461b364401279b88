SPECIFICATION MCSpec
CONSTANTS
    None = None
    Unknown = Unknown
INVARIANTS
    ExamplesTeachTheTarget
    InputIsItsSource
    CheckpointIsWhatItSays
    RewardsAreEarned
    EligibleMeansReviewed
CHECK_DEADLOCK FALSE
