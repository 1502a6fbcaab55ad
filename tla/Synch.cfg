SPECIFICATION FairSpec
CONSTANTS
    t1 = t1 t2 = t2 t3 = t3 s1 = s1 l1 = l1 c1 = c1
    Idle = Idle
    None = None
    Threads = {t1, t2, t3}
    Semas = {s1}
    Locks = {l1}
    Conds = {c1}
    LockOf <- MCOneLock
    InitValue <- MCEmpty
    MaxValue = 2
INVARIANTS
    LockExclusion
    NoLostThread
    WakeupsKept
PROPERTIES
    ImplementsMonitor
    RoundRobin
    WakeupsArrive
