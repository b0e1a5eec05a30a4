CONSTANTS
    Threads = {t1, t2, t3}
    NumElems = 2
    TagMod = 16
    MaxCalls = 5
SPECIFICATION FairSpec
INVARIANTS
    EachElementOnce
PROPERTIES
    ImplementsStack
    CallsReturn
CHECK_DEADLOCK FALSE
