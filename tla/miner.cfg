SPECIFICATION FairDeviceSpec
CONSTANTS
    MaxNonce = 4
    NumWorkers = 3
    DefaultBatch = 9
    MaxBound = 5
    Jobs <- SafeJobs
    HashFailures = {FALSE}
    Failing <- Replaceable
CHECK_DEADLOCK FALSE
INVARIANTS
    TypeOK
    ResultSolves
    SearchIsExact
    BatchAgrees
    NoNonceTwice
PROPERTIES
    ImplementsMiner
    MineReturns
    WorkersEnd
