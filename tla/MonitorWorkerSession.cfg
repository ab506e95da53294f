\* Two phones plugged and unplugged, adb in any health, a click, stop, in any
\* order, between any two ADB commands; a tick of three collectors.
SPECIFICATION Spec
CONSTANTS
    Serial = {a, b}
    NoSerial = none
    CollectorOrder <- ThreeCollectors
    InitialBinding <- AnyBinding
    Healths <- AllButBroken
    States <- AllButOffline
    MaxChanges = 2
    MaxClicks = 1
SYMMETRY Phones
INVARIANTS
    NothingHeldOffline
PROPERTIES
    LossIsReported
    ImplementsSession
CHECK_DEADLOCK FALSE
