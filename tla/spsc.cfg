CONSTANTS
    Slots = {s1, s2}
    NoSlot = NoSlot
    Capacity = 2
    MaxEnqueues = 6
SPECIFICATION QFairSpec
INVARIANTS
    DequeuedInOrder
    NeverRefused
PROPERTIES
    ImplementsFifo
    AllDelivered
