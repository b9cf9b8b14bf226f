SPECIFICATION Spec
CONSTANTS
    MaxPages = 2
    num_records_per_page = 2
    Val = {1, 2}
    Free = Free
    MaxTxns = 2
    MaxLog = 8
    MaxRestarts = 1
    Aborts = TRUE
    WriteBackAt = {"idle", "running", "applying", "undoing"}
    NoTxn = NoTxn
INVARIANT CommittedSurvives
CHECK_DEADLOCK FALSE
