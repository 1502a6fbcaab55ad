CONSTANTS
    Threads = {t1, t2}
    NoThread = NoThread
    Sectors = {0}
    Values = {0, 1}
    Nothing = Nothing
    Hardware = {"ata", "faulty", "atapi", "none"}
    MaxSpurious = 1
SPECIFICATION FairSpec
CHECK_DEADLOCK FALSE
INVARIANTS
    OneInterruptPerCommand
    DetectsDisks
PROPERTIES
    ImplementsAtomicDisk
    
