SPECIFICATION FairSpec
CONSTANTS
    Threads = {t1, t2, t3}
    Timeouts = {0, 1, 2}
INVARIANTS MutualExclusion NoLostWakeup
PROPERTIES ImplementsMutex WaitersMakeProgress
