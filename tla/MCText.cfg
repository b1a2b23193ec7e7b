SPECIFICATION TextSpec
CONSTANTS
    MaxBatch = 2
    MaxSeq = 4
    FillTokens = 2
    CodeTokens = 3
    TextTokens = 4
    CondLen = {1, 3, 5}
    UncondLen = 2
    MaxSeqFlag = 8192
    MaxBatchFlag = 2
    Budgets = {0, 2048, 8192, 16384}
    Durations = {0, 60, 600, 3000}
    PickedDurations = {30, 120, 600}
    PromptLens = {200, 700}
    TextLens = {0, 400, 1200, 2048}
    Values <- MCValues
    Unknown <- MCUnknown
    LongDurations <- MCLong
    Asks <- MCAsks
    CaptionTokens = 3
    Cards <- MCCards
    SeedMod = 16
    LmBatchCap = 3
    MaxTracks = 4
    Dirs <- MCDirs
    AdapterDir <- MCAdapterDir
    Sent <- MCSent
    Posts = 3
    DefaultDit = 6
INVARIANTS
    SequencesStayApart
    CachesWithinBudget
    BlockIsWellFormed
    GivenIsKept
    CardsReplayInFull
    JobsRunAsAsked
CHECK_DEADLOCK FALSE
