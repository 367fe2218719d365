CONSTANTS
    Producers = {p1, p2}
    Consumers = {c1, c2}
    Slots = {s1, s2, s3}
    NoSlot = NoSlot
    Capacity = 2
    MaxEnqueues = 5
SPECIFICATION QSpec
SYMMETRY QSymmetry
INVARIANTS
    QTypeOK
    CellsExclusive
    ReadsItsPosition
    RefusedOnlyBehindStalled
PROPERTY MPMCImplementsFifo
