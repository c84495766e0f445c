SPECIFICATION Spec
CONSTANTS
    Requests <- CollectedWrites
    RetryCount = 1
    RetryInterval = 2
    MinRetryInterval = 1
    MaxRetryInterval = 3
    ExecutionTime = 4
    Latencies <- Soon
    Lateness <- OnTime
    MaxChunks = 2
INVARIANTS AnsweredOnce
