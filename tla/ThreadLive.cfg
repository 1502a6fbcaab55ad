SPECIFICATION FairSpec
CONSTANTS
    NPages = 2
    TIME_SLICE = 1
    Durations <- MCDurations
    ListTail = 100
    INT64_MAX = 127
    MaxTicks = 6
    MaxTid = 3
PROPERTIES
    SleeperWakes
    BootFinishes
CHECK_DEADLOCK FALSE
