SPECIFICATION Spec
CONSTANTS
    Channels = {1, 2}
    Keys = {"a", "b"}
    Traffic <- MixedTraffic
    QueueCapacity = 2
    Rate1Min <- FirstRowOne
    Rate5Min <- FirstRowTwo
    KissOnly = {}
    FullDup = {2}
    MaxFrames = 3
INVARIANTS
    RateCap
    Conserved
    NotPoisoned
PROPERTIES
    LeavesLikeScheduler
CHECK_DEADLOCK FALSE
