CONSTANTS
    NumTrades = 3
    Slots = {s1, s2, s3}
    NoSlot = NoSlot
    QueueCapacity = 3
    BatchSize = 2
    DBRun = "copy"
    MaxCopies <- OneCopy
    ConnectAttempts = 2
    Faults = {"eof"}
SPECIFICATION Spec
SYMMETRY SlotSymmetry
INVARIANT SequenceKept
