CONSTANTS
    t1 = t1  t2 = t2  t3 = t3
    Threads = {t1, t2, t3}
    NULL = NULL
    Locks = {1, 2}
    Hash <- OneList
    Payloads <- TwoPayloads
    Ops <- Roles
SPECIFICATION FairSpec
INVARIANTS BitsExact AssertionsHold
PROPERTIES ImplementsMonitor QueuedGetsLock
CHECK_DEADLOCK FALSE
