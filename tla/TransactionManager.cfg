SPECIFICATION TxnFairSpec
CONSTANTS
    Txn = {t1, t2}
    DataId = {a, b}
    Request = {"SHARED", "EXLUCSIVE"}
    NONE = NONE
    Rows = {0, 1}
    InitRows = 0
    MaxWrites = 2
INVARIANTS TxnTypeOK GrantsKept Serializable Repeatable CleanUnlessWritten
PROPERTY EndsAndReleases
