SPECIFICATION DeviceSpec
CONSTANTS
    MaxNonce = 4
    NumWorkers = 1
    DefaultBatch = 9
    MaxBound = 5
    Jobs <- StrictJobs
    HashFailures = {TRUE, FALSE}
    Failing <- Stages
CHECK_DEADLOCK FALSE
INVARIANT ResultSolves
