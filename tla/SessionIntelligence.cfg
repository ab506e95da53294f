CONSTANTS
    None = None
    Never = Never
    Unset = Unset
    Serial = {p1, p2}
    NoSerial = NoSerial
    MaxEvents = 2
    Snapshots <- SomeReadings
    StorageReadings <- FullDisk
    Rules <- CpuRule
    Retention <- CpuKeepsThree
    Packages <- NoPackages
    MaxLag = 1
    MaxTime = 1
SYMMETRY Phones
SPECIFICATION IntelligenceSpec
INVARIANTS
    TimelineOfThisPhone
    HistoryOfOnePhone
    NothingShownAfterLoss
    SustainedRuleSawNoDip
