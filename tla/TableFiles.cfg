SPECIFICATION FilesSpec
CONSTANTS
    PoolSize = 2
    Fd = {1}
    MaxPageNo = 3
    InitPages = 1
    Thread = {t1}
    Data = {0, 1}
    Zero = 0
    Absent = Absent
    NoPage = NoPage
    NoFrame = NoFrame
INVARIANT ReadsBack
