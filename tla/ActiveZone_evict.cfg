SPECIFICATION Spec
CONSTANTS
    NumZones = 4
    TrackGroups = 1
    TopSize = 1
    BottomSize = 1
    Keys <- MCHighKeys
    ReadTreeLimit = 1
    MinInvalidRatio = 250
    LowWatermark = 3
    MaxWrites = 5
    MaxReads = 1
    MaxFaults = 0
    MaxAdmin = 0
INVARIANTS
    ReadsLatest
CHECK_DEADLOCK FALSE
