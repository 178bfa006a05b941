\* Two blocks and three levels.  L0 is over its limit with two records; four
\* appends and one event, or three and two, fill all levels at once.
SPECIFICATION Spec
CONSTANTS
    NumKeys = 2
    Preloaded <- MCPreloaded
    Levels = 3
    Threshold = 2
    BaseBytes = 4
    OtherBases <- MCOtherBases
    Multiplier = 2
    RecordBytes = 4
    MaxCallers = 1
    MaxOps = 4
    MaxEvents = 2
    MaxWork = 5
INVARIANTS TypeOK IndexExact PlanStaysValid AccountingSound NeededIsScheduled
PROPERTIES LookupsAreLastWrites RoundsMakeProgress
CHECK_DEADLOCK FALSE
