SPECIFICATION ProgressSpec
CONSTANTS
    MAX_JOBS = 2
    Kind = {"LM", "ENCODE"}
    Polls = 1
    Submits = 2
    NoJob = NoJob
    MaxBatch = 1
    MaxSeq = 4
    FillTokens = 2
    CodeTokens = 3
    TextTokens = 4
    CondLen = {1, 3, 5}
    UncondLen = 2
    RingSize = 2
    Lines = 5
    Clients = {"c1", "c2"}
INVARIANTS
    StreamInOrder
PROPERTIES
    CancelInQueueWins
    EveryJobEnds
    ShutdownCompletes
    EveryCallReturns
    StreamCatchesUp
CHECK_DEADLOCK FALSE
