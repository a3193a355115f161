SPECIFICATION FairSpec
CONSTANTS
    Threads = {t1, t2, t3}
    Outer = Outer
    Inner = Inner
    Mutexes = {Outer, Inner}
    Word = Word
    Loc = {Outer, Inner, Word}
    Paths <- NestedPaths
    SmartAll = FALSE
    MaxOps = 1
INVARIANTS
    TypeOK
    HolderExcludes
    HeldIsMarked
    UpdatesCount
PROPERTIES
    PathsEnd
CHECK_DEADLOCK FALSE
