SPECIFICATION IndexSpec
CONSTANTS
    MaxPages = 2
    num_records_per_page = 2
    Val <- MCVal
    Free = Free
    MaxWrites = 3
    Index <- MCIndex
    Cond <- MCCond
    DdlInTxn = FALSE
INVARIANTS IndexExact IndexScanExact AbortRestores InsertNeverFails HeadersConsistent UndoApplies ScanExact
