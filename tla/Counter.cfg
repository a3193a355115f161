SPECIFICATION FairSpec
CONSTANTS
    Workers = {0, 1, 2}
    Main = 3
    Threads = {0, 1, 2, 3}
    Loc <- CounterLoc
    CORES = 2
    Kinds = {"own", "global", "rtm", "unaligned", "unaligned_rtm"}
    Modes = {"SINGLE_COUNTER", "COUNTER_PER_CORE"}
    RTM_MAX_RETRIES = 1
    MaxOps = 1
INVARIANTS
    TypeOK
    NothingLostSilently
PROPERTY
    MainEnds
CHECK_DEADLOCK FALSE
