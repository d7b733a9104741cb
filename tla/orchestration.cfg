SPECIFICATION Spec
CONSTANTS
    Instants <- BothPeriods
    Openings <- BothPeriodsOpen
    CycleAt <- BothPeriodsCycles
    Month <- MCMonth
    EXECUTION_MODE = "LIVE"
    Requests <- MCRequests
    Batches <- MCBatches
    Students <- MCStudents
    MaxVersion = 1
    MaxRestarts = 1
    MaxRequests = 3
CHECK_DEADLOCK FALSE
INVARIANTS
    TypeOK
    RefusedOnlyAsDuplicate
    RepeatedOnlyAcrossRestarts
    RunForTheirMonth
    KeyEvaluatedOnce
    BatchContained
