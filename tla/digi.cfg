SPECIFICATION Spec
CONSTANTS
    Nodes = {"A", "B"}
    Channels = {1, 2, 3}
    PacketChannels = {3}
    Traffic <- ModelTraffic
    Hears <- ModelHears
    Switches <- ModelSwitches
    Rulesets <- ModelRules
    Blocklists = {{}, {"bad"}}
    NoCall = "N0CALL"
    MaxRepeaters = 3
    FirstStore <- ModelStore
    MaxSends = 2
    MaxLapses = 1
    MaxSaves = 1
    MaxFailures = 1
INVARIANTS HopBudget BlockedSilent
CHECK_DEADLOCK FALSE
