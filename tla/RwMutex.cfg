SPECIFICATION FairSpec
CONSTANTS
    Threads = {t1, t2, t3}
    MutBit = 4
INVARIANTS WordIsHolders MutualExclusion NoLostWakeup
PROPERTIES ImplementsReadersWriters ClaimerEnters WaitersMakeProgress
