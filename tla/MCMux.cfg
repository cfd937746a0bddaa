SPECIFICATION MuxSpec
CONSTANTS
    w1 = w1
    w2 = w2
    Workers <- MCWorkers
    Transports <- MCTransports
    MaxBuffers = 2
    NumChunks = 4
    Capacity = 1
    Window = 2
    MaxCopies = 1
    MaxHeld = 1
    Unlocked = Unlocked
    DataLen = 7
    Requested = 2
    SizeMod = 3
    MaxBroken = 1
INVARIANTS TypeOK InOrder SingleSender EndedIsClosed NoLostWakeup EndMeansWhole
PROPERTIES NoSendOnClosed ImplementsDelivery WrittenIsRead RetryExits
CHECK_DEADLOCK FALSE
