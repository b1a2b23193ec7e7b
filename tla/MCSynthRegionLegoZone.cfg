SPECIFICATION RegionSpec
CONSTANTS
    FrameLen = 4
    PatchSize = 2
    MaxT = 8
    CodeFrames = 3
    SrcLen <- SmallSrcLen
    Start <- SmallStart
    End <- SmallEnd
    Codes <- SmallCodes
INVARIANTS
    LegoZoneIsMasked
