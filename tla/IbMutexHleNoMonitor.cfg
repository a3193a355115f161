SPECIFICATION FairSpec
CONSTANTS
    Threads = {t1, t2}
    SYNC_SPIN_ROUNDS = 1
    RESERVE_TRIES = 2
    MaxEnter = 2
    HleThreads = {t1, t2}
    Builds = {"all"}
    Monitored = {}
PROPERTIES
    EnterReturns
CHECK_DEADLOCK FALSE
