SPECIFICATION FairSpec
CONSTANTS
    Tasks = {a, b, c}
    Idle = Idle
    MAX_TIME_SLICE = 2
    CAPACITY = 4
INVARIANTS
    IInv
    QueuedHaveTicks
    FairShare
    
PROPERTIES
    NoStarvation
