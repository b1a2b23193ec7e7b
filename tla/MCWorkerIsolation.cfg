SPECIFICATION Spec
CONSTANTS
    Submits = 2
    Spawns = 2
    Crashes = 1
    Gpu = {"0"}
    DefaultGpu = "default"
    None = None
INVARIANTS
    ResultIsItsOwn
    OneKnownChild
PROPERTIES
    WatchdogSparesBusy
    EveryJobEnds
    IdleFreesVram
CHECK_DEADLOCK FALSE
