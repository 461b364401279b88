\* One record, a channel of two events, two revisions of the ledger.
SPECIFICATION FairSpec
CONSTANTS
    Shown = {r1}
    Capacity = 2
    MaxRevision = 2
PROPERTY
    ReturnsWithTheEngine
CHECK_DEADLOCK FALSE
