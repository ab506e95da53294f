CONSTANTS
    Serial = {p1, p2}
    NoSerial = NoSerial
    Sampled <- CpuOnly
    Reading <- Levels
    NoReading = NoReading
    Warn <- Warnings
    Crit <- Criticals
    Package = {app}
    NoApps = NoApps
    MinSamples = 1
    WindowSize = 2
    Retention = 1
    MaxEpisodes = 3
    Absent = Absent
    RecentEvents = 3
    RecoveringWindow = 1
    MaxDelay = 1
    MaxTime = 4
SYMMETRY Phones
SPECIFICATION ViewSpec
CHECK_DEADLOCK FALSE
INVARIANTS
    EpisodeHoldsConditions
    SeverityIsWorstSeen
    EpisodesAccountedFor
    WindowsOfOnePhone
    PageTellsOneStory
PROPERTIES
    EscalationKeepsEpisode
