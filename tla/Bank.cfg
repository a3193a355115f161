SPECIFICATION FairSpec
CONSTANTS
    Threads = {t1, t2}
    Accounts = {a, b}
    Mutex = Mutex
    Loc = {a, b, Mutex}
    LockFuncs = {"atomic_exch_lock_busy", "hle_exch_lock_spec_checked", "rtm_lock_smart", "rtm_lock_syslock"}
    MaxRetries = 1
    Money = {1}
    Initial = 2
    MaxOps = 1
INVARIANTS
    TypeOK
    LockExcludesTransactions
    ReadsCommitted
PROPERTIES
    AtomicTransfers
    OperationsEnd
CHECK_DEADLOCK FALSE
