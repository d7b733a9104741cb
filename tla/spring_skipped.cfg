SPECIFICATION Spec
CONSTANTS
    Instants <- SpringChange
    Openings <- SpringOpens
    CycleAt <- SpringCycles
    Month <- MCMonth
    EXECUTION_MODE = "LIVE"
    Requests <- MCRequests
    Batches <- MCBatches
    Students <- MCStudents
    MaxVersion = 1
    MaxRestarts = 1
    MaxRequests = 3
CHECK_DEADLOCK FALSE
INVARIANTS
    DailyExecution
