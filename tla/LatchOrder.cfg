SPECIFICATION LatchSpec
CONSTANTS
    l1 = l1
    l2 = l2
    l3 = l3
    l4 = l4
    ThreadIds = {t1, t2}
    Latches <- MCLatches
    RwLatches = {l3}
    LevelMaps <- MCLevelMaps
    OS_THREAD_MAX_N = 2
    SYNC_THREAD_N_LEVELS = 5
    MaxRecursion = 2
    NoThread = NoThread
    NoLatch = NoLatch
INVARIANTS
    LatchTypeOK
    ArraysExact
    FreeListExact
    ArrayFits
    NoDeadlock
SYMMETRY MCSymmetry
CHECK_DEADLOCK FALSE
