CONSTANTS
    NumTrades = 3
    Slots = {s1, s2, s3, s4}
    NoSlot = NoSlot
    QueueCapacity = 1
    BatchSize = 2
    DBRun = "copy"
    MaxCopies <- OneCopy
    ConnectAttempts = 2
    Faults = {}
SPECIFICATION Spec
SYMMETRY SlotSymmetry
INVARIANT TableGapFree
