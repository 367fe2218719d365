CONSTANTS
    Threads = {"main", "run"}
    LogBuffers = 3
    LogCapacity = 2
    NumTrades = 3
    TimeOf <- Times
    SymbolOf <- Pairs
    QueueCapacity = 2
SPECIFICATION FairSpec
INVARIANTS
    OnePlace
    WholeSlices
    LinesInOrder
    LogBuffersKept
PROPERTY StopEnds
