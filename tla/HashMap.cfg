SPECIFICATION Spec
CONSTANTS
    Threads = {t1, t2}
    Loc <- HashMapLoc
    Kinds = {"bucket", "global", "rtm"}
    Size = 1
    Values = {0, 1}
    NCells = 3
    MAX_RETRIES = 2
    MaxOps = 4
INVARIANTS
    TypeOK
    CellsAccounted
    NoUseAfterDelete
PROPERTY
    AtomicOperations
CHECK_DEADLOCK FALSE
SYMMETRY MCSymmetry
