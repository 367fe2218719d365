CONSTANTS
    Threads = {t1, t2, t3}
    PoolMsgCount = 3
    TagMod = 4
SPECIFICATION Spec
SYMMETRY ThreadSymmetry
INVARIANTS
    PoolTypeOK
    ListExact
PROPERTIES
    ImplementsPool
CHECK_DEADLOCK FALSE
