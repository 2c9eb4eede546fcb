SPECIFICATION Spec
CONSTANTS
    None = None
    Main = main
    idle0 = idle0
    idle1 = idle1
    BootCpu = 0
    CPUs = {0, 1}
    Tasks = {main, idle0, idle1, a, b}
    Coroutines = {a, b}
    WaitQueues = {q, r}
    WakerQueues = {k}
    RqCap = 3
    Calls = {"spawn", "yield", "wait_until", "notify_all", "exit", "waker_wait", "waker_until", "requeue", "notify_task"}
    ReschedFlags = {FALSE}
    idle_task <- TwoIdle
INVARIANTS
    NoReadyTaskLost
    OnCpuJustified
    IInv
    RunningIsCurrent
    OnePlace
    AssertionsHold
    OneStackPerCpu
    InWaitQueueExact
    NoBlockedThreadLost
    LockHolderGetsOn
SYMMETRY Symmetry
VIEW Behaviour
