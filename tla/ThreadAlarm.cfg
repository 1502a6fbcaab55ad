SPECIFICATION Spec
CONSTANTS
    NPages = 3
    TIME_SLICE = 2
    Durations <- MCDurations
    ListTail = 100
    INT64_MAX = 127
    MaxTicks = 4
    MaxTid = 4
INVARIANTS
    ThreadsInPlace
    SleepListOrdered
PROPERTIES
    ImplementsAlarmClock
CHECK_DEADLOCK FALSE
