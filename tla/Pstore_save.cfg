SPECIFICATION Spec
CONSTANTS
    NumZones = 2
    PageSize = 4
    PgOff = 3
    StatBytes = 1
    StatusBytes = 4
    Align = 2
    MagicBytes = 1
    QDepth = 1
    TotalItems = 2
    UsedZones = {0}
    MaxChanges = 2
    MaxPartial = 1
    MaxModify = 1
    MaxErrors = 1
    MaxCrashes = 1
INVARIANTS
    TypeOK
    RemovalSavesAll
    RefusedOnlyIfTorn
    DirtyIsMarked
PROPERTIES
    HandlersMark
    
CHECK_DEADLOCK FALSE
