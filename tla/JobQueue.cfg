SPECIFICATION Spec
CONSTANTS
    MaxJobs = 2
    Node = {n1}
    Concurrency = 2
    PoolSize = 2
    MaxAttempts = 1
    RetryMaxes = {0}
    DefaultRetryMax = 2
    MaxFaults = 1
    NoNode = NoNode
INVARIANTS OneWorkerPerJob AttemptsBounded FailureBlockIsLast FailedWasCleanedUp DoneOnce NoSilentOrphan
PROPERTIES Promised
CHECK_DEADLOCK FALSE
