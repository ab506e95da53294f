CONSTANTS
    Key = {k1, k2}
    NoKey = NoKey
    EnvKey = NoKey
    Closed = Closed
    Idle = Idle
    MaxMessages = 4
    NoPackage = NoPackage
    AnyPackage = AnyPackage
    MaxCandidates = 6
    MaxShown = 20
    MaxProtected = 8
    MaxSpared = 12
    MaxApps = 25
SPECIFICATION CopilotSpec
CHECK_DEADLOCK FALSE
INVARIANTS
    PanesTellTheTruth
PROPERTIES
    QuestionsSettle
