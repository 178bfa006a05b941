SPECIFICATION Spec
CONSTANTS
    Ids = {1, 2}
    ZoneCounts = {1}
    Levels = {0, 1}
    MaxBytes = 0
    RestoreInputs = {}
    kGroupsPerZone = 2
    kZoneSectors = 4
    kGroupSectors = 2
    kTopSectors = 1
    kBottomSectors = 1
    kSectorSize = 2
    NZones = 1
    LargestLevel = 1
    MemoryOnly = FALSE
    Quiescent = TRUE
    Modes = {"MERGED"}
    MaxLen = 3
    MaxAppend = 2
    MaxFaults = 1
    MaxBegins = 2
    MaxCrashes = 1
    Tables <- MCTables
INVARIANTS KTypeOK AckedSurvives SnapshotLoads
