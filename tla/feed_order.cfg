CONSTANTS
    NumTrades = 3
    Slots = {s1, s2, s3}
    NoSlot = NoSlot
    QueueCapacity = 2
    BatchSize = 2
    DBRun = "single"
    MaxCopies <- DuplicateB
    ConnectAttempts = 2
    Faults = {"eintr"}
SPECIFICATION Spec
CONSTRAINT ClientAlive
SYMMETRY SlotSymmetry
INVARIANTS
    HandedInOrder
    TableInOrder
