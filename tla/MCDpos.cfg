CONSTANTS
    b1 = b1
    b2 = b2
    b3 = b3
    g = g
    l1 = l1
    r1 = r1
    None = None
SPECIFICATION Spec
INVARIANTS
    TypeOK
    NoLostWakeup
    VotesPreserved
    LoopNeverBlocks
PROPERTIES
    WaiterEventuallyRechecked
    ExpiredEventuallyPurged
