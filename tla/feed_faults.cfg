CONSTANTS
    NumTrades = 2
    Slots = {s1, s2, s3}
    NoSlot = NoSlot
    QueueCapacity = 3
    BatchSize = 2
    DBRun = "copy"
    MaxCopies <- OneCopy
    ConnectAttempts = 2
    Faults <- AllFaults
SPECIFICATION Spec
CONSTRAINT ClientAlive
SYMMETRY SlotSymmetry
INVARIANTS
    TypeOK
    OneOwner
    NoBufferLost
    HandedInOrder
    HandedGenuine
    TableInOrder
    NothingLostDownstream
PROPERTY InFlightUntouched
