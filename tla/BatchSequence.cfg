CONSTANTS
    CallbackInOrder = TRUE
    Concurrency = 2
    SharedRequest = 1
    MaxOperations = 4
SPECIFICATION FairSpec
INVARIANTS TypeOK SequenceInv FiredInOrder FiredOneByOne NoDebugError EndMeansDone NoLostCallback
PROPERTIES ProducerReleased DeliversInOrderOnce
