CONSTANTS
    Uploads <- Typical
    ParallelOperationThreadCount = 2
    SharedRequest = 1
    MaxOperations = 8
SPECIFICATION Spec
INVARIANT CalledBackOnce
