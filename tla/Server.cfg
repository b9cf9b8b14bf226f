SPECIFICATION ServerSpec
CONSTANTS
    Txn = {c1, c2}
    DataId = {a}
    Request = {"SHARED", "EXLUCSIVE"}
    NONE = NONE
INVARIANTS ServerTypeOK HeldCompatible LockSetExact OwnWork NoStrayLocks FailedNeverCommits
PROPERTIES ParserFreed Accepted
