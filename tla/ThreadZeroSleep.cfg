SPECIFICATION Spec
CONSTANTS
    NPages = 3
    TIME_SLICE = 2
    Durations = {0}
    ListTail = 100
    INT64_MAX = 127
    MaxTicks = 4
    MaxTid = 2
INVARIANT ZeroSleepReturns
CHECK_DEADLOCK FALSE
