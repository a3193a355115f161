SPECIFICATION Spec
CONSTANTS
    TRX_SYS_TRX_ID_WRITE_MARGIN = 2
    TRX_SYS_N_RSEGS = 3
    NRsegs = 2
    FormatMaxs = {0, 1}
    FILE_FORMAT_NAME_N = 3
    TAG_MAGIC_N = 5
    TagSize = 16
    Names = {"bin.1", "a name that does not fit"}
    LongNames = {"a name that does not fit"}
    WordSize = 2
    Offsets = {1, 2}
    MaxStarts = 3
    MaxOps = 6
INVARIANTS
    TypeOK
    IdsFresh
    trx_sys_validate_trx_list
    UndoHasTrx
    BinlogPosRecovered
    
    FormatGate
    RsegsContiguous
CHECK_DEADLOCK FALSE
