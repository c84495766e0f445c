CONSTANTS
    Uploads <- Typical
    ParallelOperationThreadCount = 2
    SharedRequest = 2
    MaxOperations = 8
SPECIFICATION FairSpec
INVARIANTS TypeOK SuccessIsWhole BuffersIntact OneRead AppendsInOrder FiredOnce CountersAgree CommitsLast
PROPERTIES Answered
