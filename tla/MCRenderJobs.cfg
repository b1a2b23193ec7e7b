SPECIFICATION Spec
CONSTANTS
    Forms <- MCForms
    Spawns = 2
    Requests = {1, 2}
    Gpus = {"b"}
    NoGpu = "none"
    Cancels = 1
INVARIANTS
    OneRenderAlive
    OutputIsHandedOver
PROPERTIES
    EveryRequestEnds
CHECK_DEADLOCK FALSE
