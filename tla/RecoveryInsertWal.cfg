SPECIFICATION Spec
CONSTANTS
    MaxPages = 2
    num_records_per_page = 2
    Val = {1, 2}
    Free = Free
    MaxTxns = 2
    MaxLog = 6
    MaxRestarts = 2
    Aborts = FALSE
    WriteBackAt = {"idle", "running", "logging", "applying", "undoing"}
    NoTxn = NoTxn
INVARIANT UncommittedUndone
CHECK_DEADLOCK FALSE
