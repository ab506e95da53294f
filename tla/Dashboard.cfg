\* The monitor's full protocol, late picks included, and the window's mirrors
\* behind a queue.
SPECIFICATION DashboardSpec
CONSTANTS
    Serial = {a, b}
    NoSerial = none
    CollectorOrder <- Mirrored
    InitialBinding <- Unbound
    Healths <- OkOrHung
    States <- PluggedOrNot
    MaxChanges = 3
    MaxClicks = 2
    MaxLag = 3
    MaxRefreshes = 1
    None = None
SYMMETRY Phones
INVARIANTS PagesShowOnePhone WindowCatchesUp
CHECK_DEADLOCK FALSE
