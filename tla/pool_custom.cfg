CONSTANTS
    Threads = {t1, t2}
    PoolMsgCount = 2
SPECIFICATION Spec
INVARIANT ThreadSafeAlways
CHECK_DEADLOCK FALSE
