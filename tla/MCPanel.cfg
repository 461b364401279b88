SPECIFICATION MCFairSpec
CONSTANTS
    p1 = p1  p2 = p2
    j1 = j1  j2 = j2  j3 = j3
    r1 = r1  r2 = r2  r3 = r3
    None = None
    Panels <- MCPanels
    Judges <- MCJudges
    MaxGrades = 4
    MaxLaunches = 2
    SharedPanels <- MCSharedPanels
    SharedJudges <- MCSharedJudges
    SharedGrades = 2
    SharedLaunches = 1
    Records <- MCRecords
    ItemOf <- SeedOf
    TopicOf <- OneTopic
    Size = 2
    Families = {"f1", "f2"}
    Components = {"c1", "c2"}
    Importers = {"p", "q"}
INVARIANTS
    PanelKeepsTheGravest
    CorpusIsExact
    ImportIsWhole
PROPERTIES
    NothingIsSentInVain
    SettledStays
    EveryoneReturns
CHECK_DEADLOCK FALSE
