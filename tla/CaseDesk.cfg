CONSTANTS
    None = None
    NoUid = NoUid
    NoPid = NoPid
    Plain <- BothPorts
    MinPersistent = 3
    TrackerWindow = 3
    Serial = p1
    DeskReads <- SomeReads
    Audits <- OneAudit
    MaxAudits = 1
    MaxReads = 4
    MaxExports = 2
SPECIFICATION DeskSpec
CHECK_DEADLOCK FALSE
INVARIANTS
    EveryChangeReportedOnce
    ReportOfThisBaseline
    ExportIsAnswered
