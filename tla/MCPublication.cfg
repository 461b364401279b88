SPECIFICATION Spec
CONSTANTS
    r1 = r1
    r2 = r2
    v1 = v1
    d1 = d1
    d2 = d2
    None = None
    Ineligible = Ineligible
    RecordIds <- MCRecordIds
    Projections <- MCProjections
    Destinations <- MCDestinations
    MaxEdits = 1
    MaxFaults = 1
SYMMETRY Symmetry
INVARIANT
    PublishedIsDurable
PROPERTY
    NeverAcknowledgeChanged
CHECK_DEADLOCK FALSE
