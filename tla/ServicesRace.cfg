SPECIFICATION Spec
CONSTANTS
    Calls <- RaceCalls
    Origins <- Stores
    EntityOperations <- Entities
    Segments = 3
    BatchLimit = 3
    ClearsRetrieval = FALSE
    MaxLost = 1
    MaxMeddling = 2
    MaxEdits = 5
INVARIANT
    RacesAbsorbed
