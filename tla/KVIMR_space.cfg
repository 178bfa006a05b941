SPECIFICATION Spec
CONSTANTS
    Ids = {1, 2}
    ZoneCounts = {1}
    Levels = {0, 1}
    MaxBytes = 0
    RestoreInputs = {}
    kGroupsPerZone = 1
    kZoneSectors = 2
    kGroupSectors = 2
    kTopSectors = 1
    kBottomSectors = 1
    kSectorSize = 1
    NZones = 1
    LargestLevel = 1
    MemoryOnly = FALSE
    Quiescent = FALSE
    Modes = {"NAIVE"}
    MaxLen = 2
    MaxAppend = 1
    MaxFaults = 1
    MaxBegins = 3
    MaxCrashes = 0
    Tables <- MCTables
INVARIANTS SegmentsOwned NoTrackLeak S2TMapAgrees
PROPERTIES WritesOwnTracks MethodReturns
