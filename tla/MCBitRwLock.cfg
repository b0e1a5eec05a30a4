CONSTANTS
    t1 = t1  t2 = t2  t3 = t3  t4 = t4  t5 = t5  a = a  b = b  c = c
    Threads = {t1, t2, t3, t4, t5}
    Locks = {a, b, c}
    NULL = NULL
    MaxReaders = 3
    Bits <- BitRanges
    Programs <- Plain
SPECIFICATION Spec
CONSTRAINT Unharmed
INVARIANTS
    WordExact
    AssertionsHold
PROPERTIES
    CallsReturn
