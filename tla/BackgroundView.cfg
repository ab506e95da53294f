\* Two phones exchanged at any time, ticks in which a collector is late.
SPECIFICATION BackgroundSpec
CONSTANTS
    NoUid = NoUid
    NoName = NoName
    NoMetric = NoMetric
    Malformed = Malformed
    KernelNames = {"kworker"}
    AidApp = 10
    MaxPercent = 1000
    NoPackage = NoPackage
    NoLabel = NoLabel
    ServiceOf <- Services
    Place <- Alphabet
    Phone = {"a", "b"}
    NoPhone = "none"
    Label = {"Chat", "Mail"}
    OutputsOf <- Outputs
    InventoryOf <- Inventories
    ForegroundsOf <- Foregrounds
    ApkOf <- Apks
    NoPath = "no path"
    Capacity = 1000
    MaxChanges = 2
    MaxTicks = 2
    MaxLag = 1
CHECK_DEADLOCK FALSE
INVARIANTS
    EntriesAreProven
    NothingOfALostPhone
PROPERTIES
    LabelsSettle
