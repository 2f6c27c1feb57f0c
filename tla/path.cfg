SPECIFICATION PathFairSpec
CONSTANTS
    Channels = {1, 2}
    Keys = {"a"}
    Traffic <- OneEach
    QueueCapacity = 2
    Rate1Min <- OneAMinute
    Rate5Min <- TwoInFive
    KissOnly = {}
    FullDup = {}
    MaxFrames = 2
    Slicers = {1}
    DcdBuffer = 2
    MaxTurns = 3
    MayRestart = TRUE
INVARIANTS
    CarrierNeverMissed
PROPERTIES
    QuietDrains
CHECK_DEADLOCK FALSE
