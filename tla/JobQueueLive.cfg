SPECIFICATION FairSpec
CONSTANTS
    MaxJobs = 2
    Node = {n1}
    Concurrency = 1
    PoolSize = 1
    MaxAttempts = 1
    RetryMaxes = {1}
    DefaultRetryMax = 2
    MaxFaults = 1
    NoNode = NoNode
PROPERTIES EveryJobFinishes StopDrains
CHECK_DEADLOCK FALSE
