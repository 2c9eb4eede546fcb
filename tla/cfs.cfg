SPECIFICATION Spec
CONSTANTS
    Callers = {h, r}
    Home = h
    Tasks = {a, b}
    Idle = Idle
    None = None
    Nices = {0, 5}
    CAPACITY = 2
    MaxId = 4
    MaxVruntime = 3
INVARIANTS
    TaskInOnePlace
    QueuedKeysCurrent
    UnwrapSucceeds
PROPERTIES
    VruntimeKept
    
CHECK_DEADLOCK FALSE
