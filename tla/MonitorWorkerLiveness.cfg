\* Two phones plugged and unplugged, adb flaky or hung for a while, a click, stop.
SPECIFICATION FairSpec
CONSTANTS
    Serial = {a, b}
    NoSerial = none
    CollectorOrder <- CpuOnly
    InitialBinding <- AnyBinding
    Healths <- OkFlakyHung
    States <- PluggedOrNot
    MaxChanges = 2
    MaxClicks = 1
PROPERTIES Recovers StopQuiesces
CHECK_DEADLOCK FALSE
