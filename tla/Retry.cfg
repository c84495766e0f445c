SPECIFICATION FairSpec
CONSTANTS
    Requests <- ReadsAndWrites
    RetryCount = 1
    RetryInterval = 2
    MinRetryInterval = 1
    MaxRetryInterval = 3
    ExecutionTime = 4
    Latencies <- Soon
    Lateness <- OrLate
    MaxChunks = 1
INVARIANTS TypeOK AllowedLocations NoLateThrow Spaced LeavesSecondary
    AttemptsBounded NotAfterExpiry SuccessMeansStored
PROPERTIES Answered
