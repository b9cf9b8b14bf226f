SPECIFICATION Spec
CONSTANTS
    PoolSize = 2
    Fd = {1}
    MaxPageNo = 3
    InitPages = 2
    Thread = {t1, t2}
    Data = {0, 1}
    Zero = 0
    Absent = Absent
    NoPage = NoPage
    NoFrame = NoFrame
INVARIANTS TypeOK MappingConsistent PinsExact FramesAccounted CleanMatchesDisk
PROPERTY ImplementsPageStore
