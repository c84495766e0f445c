SPECIFICATION Spec
CONSTANTS
    Calls <- AllCalls
    Origins <- Stores
    EntityOperations <- Entities
    Segments = 3
    BatchLimit = 3
    ClearsRetrieval = FALSE
    MaxLost = 1
    MaxMeddling = 2
    MaxEdits = 5
INVARIANTS
    TypeOK
    SuccessTrue
    FailuresExcused
    ListingComplete
    SentWhereAllowed
    NoLostUpdate
    ValidBatch
