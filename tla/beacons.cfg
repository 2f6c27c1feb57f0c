SPECIFICATION BeaconFairSpec
CONSTANTS
    Beacons = {1, 2}
    Rows <- ModelRows
    Slots = {1}
    Fixes <- ModelFixes
    LongestRate = 5
    TurnTime = 2
    Workloads <- ModelWorkloads
INVARIANTS Fresh Punctual
PROPERTIES KeepsFiring
CHECK_DEADLOCK FALSE
