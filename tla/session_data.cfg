SPECIFICATION Spec
CONSTANTS
    Mod8 = 2
    Mod128 = 4
    DefWin8 = 1
    DefWin128 = 2
    CfgMod128 = TRUE
    CfgWindow = 2
    N2 = 1
    Paclen = 2
    MaxBytes = 4
    PeerKinds = {"I", "DISC", "RR", "REJ", "SABM", "SABME", "DM", "UA"}
    FiringTimers = {"T1", "T2", "HB"}
    SinkMayFail = FALSE
VIEW Identity
CONSTRAINT EarlyHeartbeat
INVARIANTS
    WindowRespected
    StreamConserved
PROPERTIES
    TornOnlyByWrap
CHECK_DEADLOCK FALSE
