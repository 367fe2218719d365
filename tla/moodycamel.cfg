CONSTANTS
    t1 = t1
    t2 = t2
    t3 = t3
    Threads = {t1, t2, t3}
    Blocks = {1, 2, 3}
    BlockSize = 2
    IndexSize = 2
    MaxProducers = 2
    Workloads <- SmallWorkloads
SPECIFICATION QSpec
INVARIANTS
    CountsAgree
    ReadsItsElement
    BlocksOwned
