CONSTANTS
    t1 = t1  t2 = t2  t3 = t3  t4 = t4
    Threads = {t1, t2, t3, t4}
    NULL = NULL
    Clients <- Disciplined
SPECIFICATION Spec
INVARIANTS
    HoldsMutex
    SignalExpected
PROPERTIES
    ImplementsCondVar
    WaitsReturn
CHECK_DEADLOCK FALSE
