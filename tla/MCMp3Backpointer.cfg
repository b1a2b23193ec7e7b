SPECIFICATION Mp3Spec
CONSTANTS
    FrameSamples = 4
    Second = 6
    Warmup = 1
    Songs <- Mp3Songs
    Contents <- Mp3Contents
INVARIANTS
    BackpointerWorks
CHECK_DEADLOCK FALSE
