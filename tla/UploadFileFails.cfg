CONSTANTS
    Uploads <- FailingFiles
    ParallelOperationThreadCount = 2
    SharedRequest = 1
    MaxOperations = 4
SPECIFICATION FairSpec
PROPERTY AnsweredAnyway
