SPECIFICATION FairSpec
CONSTANTS
    None = None
    Main = main
    idle0 = idle0
    idle1 = idle1
    BootCpu = 0
    CPUs = {0, 1}
    Tasks = {main, idle0, idle1, a, b}
    Coroutines = {}
    WaitQueues = {q}
    WakerQueues = {}
    RqCap = 3
    Calls = {"spawn", "yield", "wait", "exit", "join", "requeue"}
    ReschedFlags = {FALSE}
    idle_task <- TwoIdle
INVARIANTS
    NoBlockedTaskLost
    ThreadJoinWoken
PROPERTIES
    SpinEnds
    JoinEnds
    IdleCpuPicksUp
    ExitedForever
    ImplementsLifecycle
