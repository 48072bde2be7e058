SPECIFICATION FairSpec
CONSTANTS
    processNumber = 3
    MaxLoops = 2
    MaxSignals = 2
INVARIANTS
    TypeOK
    ParentLast
    ReportsNameChild
    EveryChildReports
PROPERTIES
    BenchmarkEnds
CHECK_DEADLOCK FALSE
