SPECIFICATION Spec
CONSTANTS
    Policy = "STRICT"
    ModelKey <- SmallKeys
    Handle = {h1, h2, h3}
    Addr = {a1, a2, a3}
    CpuPath = {"p"}
    NULL = NULL
INVARIANTS
    HeldHandlesLive
    StrictOneResident
PROPERTIES
    ImplementsCache
CHECK_DEADLOCK FALSE
