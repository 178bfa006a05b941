SPECIFICATION Spec
CONSTANTS
    NumZones = 3
    TrackGroups = 1
    TopSize = 1
    BottomSize = 1
    Keys <- MCHighKeys
    ReadTreeLimit = 2
    MinInvalidRatio = 250
    LowWatermark = 3
    MaxWrites = 4
    MaxReads = 0
    MaxFaults = 1
    MaxAdmin = 1
INVARIANTS
    TypeOK
    MapsAgree
    LiveCountExact
    GCReserve
    OneOpenZone
    
    CollectionsFit
PROPERTIES
    PendingServed
    CopyEnds
CHECK_DEADLOCK FALSE
