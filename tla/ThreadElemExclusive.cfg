SPECIFICATION Spec
CONSTANTS
    NPages = 3
    TIME_SLICE = 2
    Durations = {}
    ListTail = 100
    INT64_MAX = 127
    MaxTicks = 4
    MaxTid = 4
INVARIANT ElemExclusive
CHECK_DEADLOCK FALSE
