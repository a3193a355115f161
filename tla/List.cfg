SPECIFICATION Spec
CONSTANTS
    Workers = {t1, t2, t3}
    Cells = {c1, c2, c3}
    NULL = NULL
    Values = {v, w}
    MaxOps = 4
SYMMETRY Symmetric
INVARIANTS
    TypeOK
    OneChain
    CellsAccounted
    ValuesAccounted
CHECK_DEADLOCK FALSE
