SPECIFICATION MCSpec
CONSTANTS
    None = None
    NaN = NaN
    Absent = Absent
    r1 = r1
    r2 = r2
    w1 = w1  w2 = w2
    plain = plain
    admit = admit
    art1 = art1  art2 = art2
    RecordIds <- MCRecordIds
    Writers <- MCWriters
    Bodies <- MCRecordBodies
    AdmitBodies <- MCAdmitBodies
    Artifacts <- MCArtifacts
    MaxAttempts = 5
    PairRecords <- MCPairRecords
    PairInitial <- MCInitial
    PairBodies <- MCBodies
    PairGrades <- MCGrades
    PairChanges = 2
    PairPolicies <- MCPolicies
    GradeTests <- MCTests
    GradeJudges = 3
    GradeScores <- MCScores
    GradeRhos <- MCRhos
    VotePanels <- MCConfigurations
    VotePrompts <- MCPrompts
    VoteDeltas <- MCDeltas
    VoteParts = 3
    VoteAttempts = 2
    VoteLaunches = 2
SYMMETRY Symmetry
INVARIANTS
    OneStory
    NothingIsLost
    GradesAreEarned
    GatesAreHonest
    PairsAreSound
CHECK_DEADLOCK FALSE
