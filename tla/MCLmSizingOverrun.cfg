SPECIFICATION SizingSpec
CONSTANTS
    MaxSeqFlag = 8192
    MaxBatchFlag = 2
    Budgets = {16384}
    Durations = {0, 60, 600}
    PickedDurations = {120, 600}
    PromptLens = {200, 700}
    TextLens = {0, 400, 1200, 2048}
INVARIANTS
    NeverOverruns
CHECK_DEADLOCK FALSE
