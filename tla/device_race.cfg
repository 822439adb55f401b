SPECIFICATION DeviceSpec
CONSTANTS
    MaxNonce = 4
    NumWorkers = 2
    DefaultBatch = 9
    MaxBound = 5
    Jobs <- SharedKernelJobs
    HashFailures = {FALSE}
    Failing = {}
CHECK_DEADLOCK FALSE
INVARIANT ResultSolves
