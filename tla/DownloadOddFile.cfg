CONSTANTS
    Blobs <- OddFiles
    MinRangeSize = 4
    MaxRangeSize = 8
    ListSize = 16
    Concurrency = 2
    SharedRequest = 1
    MaxOperations = 8
SPECIFICATION Spec
INVARIANT LastRangeKept
