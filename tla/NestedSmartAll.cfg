SPECIFICATION Spec
CONSTANTS
    Threads = {t1, t2}
    Outer = Outer
    Inner = Inner
    Mutexes = {Outer, Inner}
    Word = Word
    Loc = {Outer, Inner, Word}
    Paths <- NestedPaths
    SmartAll = TRUE
    MaxOps = 1
SYMMETRY Symmetric
INVARIANTS
    HolderExcludes
CHECK_DEADLOCK FALSE
