SPECIFICATION SoundSpec
CONSTANTS
    Policy = "STRICT"
    ModelKey <- OneOfEach
    Handle = {outer, inner}
    outer = outer
    inner = inner
    Addr = {a1, a2}
    CpuPath = {"p"}
    NULL = NULL
    Groups = {1, 2, 3}
    FrameLen = 4
    PatchSize = 2
    MaxT = 8
    CodeFrames = 3
    SrcLen <- SmallSrcLen
    Start <- SmallStart
    End <- SmallEnd
    Codes <- SmallCodes
    Tracks = 2
    Asked = {1, 2, 6}
    Substeps <- TriedSubsteps
    Quarters = {0, 1, 2, 4}
    DescLen = 1
    AudioLen = 4
    TypeLen = 1
    MaxDelay = 2
    ModelMax = 6
    CodeSize = 50
    Bucket = 11
    Block = 3
    Asks <- TokenAsks
    Up = 4
    MinSeg = 4
    ClipFrom = 32
    ClipLen = 16
    ClipNeed = 48
    SepSeg = 8
    Errands <- WindowErrands
    FrameSamples = 4
    Second = 6
    Warmup = 1
    Songs <- Mp3Songs
    Contents <- Mp3Contents
    Width <- BandWidths
    Granules <- QuantGranules
    Rounds = 25
INVARIANTS
    NeverAborts
    NothingLeftBehind
    RegionHeardAsAsked
    OnlyRegionChanges
    EveryPassIsFed
    SolverKeepsItsPlace
    ContextIsOwnHistory
    FramesArePaired
    WindowsJoinUp
    PromptStreamsInStep
    DecoderFindsMainData
    EverySampleOnce
    WrittenAsAnnounced
