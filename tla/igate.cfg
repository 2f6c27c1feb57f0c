SPECIFICATION FairSpec
CONSTANTS
    Filters = {f1, f2}
    MaxSaves = 3
    MaxFaults = 3
INVARIANTS ConnectedHonest FilterApplied
PROPERTIES StopEndsUnlessMute Reconnects
CHECK_DEADLOCK FALSE
