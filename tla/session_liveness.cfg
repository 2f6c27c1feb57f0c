SPECIFICATION FairSpec
CONSTANTS
    Mod8 = 4
    Mod128 = 5
    DefWin8 = 2
    DefWin128 = 2
    CfgMod128 = TRUE
    CfgWindow = 2
    N2 = 2
    Paclen = 1
    MaxBytes = 1
    PeerKinds = {"RR", "RNR", "REJ", "SABM", "DISC", "DM", "UA", "FRMR"}
    FiringTimers = {"T1", "T3", "STATS"}
    SinkMayFail = TRUE
INVARIANTS
    NeverDeaf
    ClosedOnce
PROPERTIES
    ReleaseEnds
    SetupEnds
    SilenceNoticed
CHECK_DEADLOCK FALSE
