SPECIFICATION Spec
CONSTANTS
    Submits = 2
    Spawns = 1
    Crashes = 0
    Gpu = {}
    DefaultGpu = "default"
    None = None
INVARIANTS
    CancelledWasAskedFor
CHECK_DEADLOCK FALSE
