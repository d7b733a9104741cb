SPECIFICATION FairSpec
CONSTANTS
    s1 = s1  s2 = s2  p1 = p1
    JRP = {s1, s2}
    IPBC = {p1}
    Workers = {"scheduler", "client"}
    Scheduler = "scheduler"
    Jobs <- MCJobs
    MaxVersion <- MCVersions
    MaxStarts <- MCStarts
    MaxFaults = 1
INVARIANTS
    TypeOK
    OneFetch
    PaymentsPatched
    SuccessMeansStored
PROPERTIES
    EveryJobEnds
    Converges
    CopiesSpec
