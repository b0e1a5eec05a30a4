CONSTANTS
    t1 = t1  t2 = t2  t3 = t3  e1 = e1  e2 = e2  e3 = e3
    Threads = {t1, t2, t3}
    Elems = {e1, e2, e3}
    NULL = NULL
    HEAD = HEAD  TAIL = TAIL
    Done = Done
    Scenarios <- All
SPECIFICATION Spec
INVARIANTS
    ListSound
    NoDangling
    IterComplete
    AssertionsHold
PROPERTIES
    CallsReturn
