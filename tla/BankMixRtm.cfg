SPECIFICATION Spec
CONSTANTS
    Threads = {t1, t2}
    Accounts = {a, b}
    Mutex = Mutex
    Loc = {a, b, Mutex}
    LockFuncs = {"atomic_exch_lock_spec", "rtm_lock"}
    MaxRetries = 0
    Money = {1}
    Initial = 2
    MaxOps = 1
SYMMETRY Symmetric
INVARIANTS
    checkResult
CHECK_DEADLOCK FALSE
