SPECIFICATION Spec
CONSTANTS
    Mod8 = 4
    Mod128 = 8
    DefWin8 = 2
    DefWin128 = 6
    CfgMod128 = TRUE
    CfgWindow = 6
    N2 = 2
    Paclen = 1
    MaxBytes = 6
    PeerKinds = {"RR", "UA"}
    FiringTimers = {"T1"}
    SinkMayFail = FALSE
INVARIANTS
    AllEncodable
CHECK_DEADLOCK FALSE
