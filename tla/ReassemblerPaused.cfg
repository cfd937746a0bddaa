SPECIFICATION SystemSpec
CONSTANTS
    Workers = {w1, w2}
    MaxBuffers = 1
    NumChunks = 3
    Capacity = 1
    Window = 1
    MaxCopies = 1
    MaxHeld = 2
    Unlocked = Unlocked
PROPERTIES ConsumerFinishes
CHECK_DEADLOCK FALSE
