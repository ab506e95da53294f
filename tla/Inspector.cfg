CONSTANTS
    PermissionName = {"sms", "accessibility", "admin", "overlay", "camera"}
    Sms = {"sms"}
    Accessibility = "accessibility"
    DeviceAdmin = "admin"
    Overlay = "overlay"
    p1 = p1
    p2 = p2
    a = a
    b = b
    Started <- AppAndNative
    Pid = {p1, p2}
    NoPid = NoPid
    Package = {a, b}
    NoPackage = NoPackage
    Dead = Dead
    Comm <- CutNames
    MaxAsked = 3
    MaxChanges = 1
SPECIFICATION InspectorSpec
CHECK_DEADLOCK FALSE
INVARIANTS
    LastSelectionWins
    ActionsFollowPanel
    AuditUnderItsProcess
PROPERTIES
    AuditsSettle
