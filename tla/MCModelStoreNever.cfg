SPECIFICATION Spec
CONSTANTS
    Policy = "NEVER"
    ModelKey <- SmallKeys
    Handle = {h1, h2, h3}
    Addr = {a1, a2, a3}
    CpuPath = {"p"}
    NULL = NULL
INVARIANTS
    RefcountCountsHolders
CHECK_DEADLOCK FALSE
