CONSTANTS
    Threads = {t1, t2, t3, t4}
    NULL = NULL
SPECIFICATION FairSpec
INVARIANTS
    MutualExclusion
    VerifiesHold
PROPERTIES
    ImplementsFairLock
    QueuedThreadGetsMutex
