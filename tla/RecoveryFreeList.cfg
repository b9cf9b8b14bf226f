SPECIFICATION Spec
CONSTANTS
    MaxPages = 2
    num_records_per_page = 2
    Val = {1}
    Free = Free
    MaxTxns = 2
    MaxLog = 8
    MaxRestarts = 2
    Aborts = FALSE
    WriteBackAt = {"idle", "running", "applying", "undoing"}
    NoTxn = NoTxn
INVARIANT FreeListRecovered
CHECK_DEADLOCK FALSE
