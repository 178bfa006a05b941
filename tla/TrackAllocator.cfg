SPECIFICATION AllocSpec
CONSTANTS
    Ids = {1, 2}
    ZoneCounts = {0, 2}
    Levels = {0, 1}
    MaxBytes = 8
    RestoreInputs <- MCRestoreInputs
    kGroupsPerZone = 2
    kZoneSectors = 10
    kGroupSectors = 5
    kTopSectors = 2
    kBottomSectors = 3
    kSectorSize = 1
INVARIANTS AllocTypeOK SegmentsOwned SectorsDisjoint RollbackUnreachable
    AllocationExact PlacementRule
PROPERTY AllocateReturns
