CONSTANTS
    t1 = t1  t2 = t2  j1 = j1  j2 = j2
    Threads = {t1, t2}
    UserJobs = {j1, j2}
    NULL = NULL
    Clients <- AllClients
    Units = 2
    Needs = {1, 2}
SPECIFICATION Spec
CONSTRAINT Intact
INVARIANTS
    JobsAccounted
    NoneLeftBehind
    CancelExact
PROPERTIES
    StrictlyFair
    JobsFinish
