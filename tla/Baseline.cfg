\* Two phones whose serials share a store file; a process that comes and goes.
SPECIFICATION BaselineSpec
CONSTANTS
    p1 = p1
    p2 = p2
    file = file
    Serial = {p1, p2}
    NoSerial = NoSerial
    None = None
    NoUid = NoUid
    File = {file}
    FileOf <- SharedFile
    Reads <- WithOrWithout
    MinPersistent = 2
    TrackerWindow = 2
    MaxReads = 3
    MaxSignals = 1
SYMMETRY Phones
INVARIANTS
    DriftOfThisBaseline
PROPERTY LoadedIsOwn
CHECK_DEADLOCK FALSE
