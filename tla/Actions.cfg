\* Two phones; the user selects, clicks, refreshes and answers.
SPECIFICATION ActionSpec
CONSTANTS
    a = a
    b = b
    app = app
    Serial = {a, b}
    NoSerial = none
    Package = {app}
    NoPackage = nopackage
    SystemApps <- SystemOnOne
    Wanted <- Commands
    Health = "ok"
    Dumps <- AnyDump
    MaxEvents = 1
    MaxClicks = 2
INVARIANTS
    LockHasAction
    DestructionConfirmed
    SystemAppsSparedByOwnData
    SettledListsAreTrue
CHECK_DEADLOCK FALSE
