SPECIFICATION FairSpec
CONSTANTS
    None = None
    cpu0 = cpu0
    cpu1 = cpu1
    Procs = {cpu0, cpu1}
    Items = {i1, i2, i3}
    CAPACITY = 4
    WeakCAS = TRUE
    Allowed <- ReadyQueue
INVARIANTS
    SlotClaims
    WindowExact
    EveryItemOnce
PROPERTIES
    NoneMeansEmpty
    ImplementsDeque
    OwnerCallsEnd
