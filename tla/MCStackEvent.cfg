CONSTANTS
    MaxRounds = 3
    MaxTimeouts = 3
    Uninitialized = {"0", "ETIMEDOUT", "garbage"}
SPECIFICATION Spec
INVARIANTS
    WokenFrameAlive
    TagIsRendezvous
PROPERTY OwnerReceives
CHECK_DEADLOCK FALSE
