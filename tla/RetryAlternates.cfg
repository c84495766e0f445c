SPECIFICATION Spec
CONSTANTS
    Requests <- BuiltInReads
    RetryCount = 1
    RetryInterval = 2
    MinRetryInterval = 1
    MaxRetryInterval = 3
    ExecutionTime = 4
    Latencies <- Soon
    Lateness <- OnTime
    MaxChunks = 0
INVARIANTS LocationsAlternate
