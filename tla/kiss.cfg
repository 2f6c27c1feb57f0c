SPECIFICATION FairSpec
CONSTANTS
    Kinds = {"tcp-client", "serial"}
    Handlers = {h1}
    QueueDepth = 1
    MaxSaves = 3
    MaxFrames = 2
    MaxFaults = 1
INVARIANTS OneSupervisor SnapshotFresh
PROPERTIES StopReturns AcceptedSettles Reopens
CHECK_DEADLOCK FALSE
