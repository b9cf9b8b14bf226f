SPECIFICATION IndexSpec
CONSTANTS
    MaxPages = 1
    num_records_per_page = 3
    Val <- MCVal
    Free = Free
    MaxWrites = 3
    Index <- MCIndex
    Cond <- MCCond
    DdlInTxn = TRUE
INVARIANT AbortRestores
CHECK_DEADLOCK FALSE
