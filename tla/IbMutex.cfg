SPECIFICATION FairSpec
CONSTANTS
    Threads = {t1, t2, t3}
    SYNC_SPIN_ROUNDS = 1
    RESERVE_TRIES = 2
    MaxEnter = 2
    HleThreads = {t1, t2}
    Builds = {"original", "all"}
    Monitored = {"all"}
INVARIANTS
    TypeOK
    MutualExclusion
    NoLostWakeup
    FreeAsserts
PROPERTIES
    EnterReturns
