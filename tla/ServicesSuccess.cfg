SPECIFICATION Spec
CONSTANTS
    Calls <- TextCalls
    Origins <- Stores
    EntityOperations <- Entities
    Segments = 3
    BatchLimit = 3
    ClearsRetrieval = FALSE
    MaxLost = 1
    MaxMeddling = 0
    MaxEdits = 5
INVARIANT
    SuccessTrue
