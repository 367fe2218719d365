CONSTANTS
    NumTrades = 2
    Slots = {s1, s2, s3}
    NoSlot = NoSlot
    QueueCapacity = 3
    BatchSize = 2
    DBRun = "batch"
    MaxCopies <- OneCopy
    ConnectAttempts = 2
    Faults = {}
SPECIFICATION FairSpec
INVARIANT RecoveredInOrder
PROPERTIES
    RecoveryTerminates
    GapsFilled
    StopTerminates
