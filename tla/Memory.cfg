CONSTANTS
    Threads = {t1, t2}
    NoThread = NoThread
    Null = Null
    BITMAP_ERROR = BITMAP_ERROR
    Off = Off
SPECIFICATION Spec
SYMMETRY Symmetry
INVARIANTS
    PagesHaveOneOwner
    BlocksAreSound
    PoolsMatchMap
    TablesAreSound
CHECK_DEADLOCK FALSE
