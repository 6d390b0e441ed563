SPECIFICATION JobsSpec
CONSTANTS
    c1 = c1
    c2 = c2
    Contracts <- MCContracts
    NWindows = 2
    MaxConcurrency = 1
    Burst = 1
    MaxRetries = 1
    MaxRuns = 2
INVARIANTS BucketAndCheckpointsSound CandlesAccounted
PROPERTIES CheckpointOnlyGrows TasksEnd
CHECK_DEADLOCK FALSE
