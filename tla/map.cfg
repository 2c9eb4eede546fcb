SPECIFICATION Spec
CONSTANTS
    None = None
    cpu0 = cpu0
    cpu1 = cpu1
    Procs = {cpu0, cpu1}
    Keys = {1, 2, 3}
    Shared = {2}
    CAPACITY = 2
    MAX_RETRIES = 2
    MaxVersion = 5
    Allowed <- ManyConsumers
INVARIANTS
    EveryEntryOnce
    OneHolder
    LenAccounts
    ScanFindsLeast
PROPERTIES
    InsertFindsKey
    RoundLostToOther
    ImplementsMap
SYMMETRY Symmetry
