CONSTANTS
    Uploads <- LargePieces
    ParallelOperationThreadCount = 2
    SharedRequest = 1
    MaxOperations = 4
SPECIFICATION Spec
INVARIANT SuccessIsWhole
