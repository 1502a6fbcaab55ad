SPECIFICATION Spec
CONSTANTS
    NPages = 4
    TIME_SLICE = 1
    Durations = {}
    ListTail = 100
    INT64_MAX = 127
    MaxTicks = 4
    MaxTid = 6
INVARIANTS
    PageAccounting
    LockExclusion
    TidsUnique
    NoLostWakeup
CHECK_DEADLOCK FALSE
