SPECIFICATION Spec
CONSTANTS
    NumZones = 2
    PageSize = 4
    PgOff = 3
    StatBytes = 1
    StatusBytes = 4
    Align = 2
    MagicBytes = 1
    QDepth = 2
    TotalItems = 2
    UsedZones = {0}
    MaxChanges = 2
    MaxPartial = 1
    MaxModify = 0
    MaxErrors = 0
    MaxCrashes = 0
PROPERTY
    HeaderIsLast
CHECK_DEADLOCK FALSE
