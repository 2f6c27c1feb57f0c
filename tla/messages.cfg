SPECIFICATION FairSpec
CONSTANTS
    Kinds = {"dm", "tactical", "no_ack"}
    Paths = {"rf_only", "is_only", "both", "is_fallback"}
    RfOutcomes = {"accepted", "full", "stopped", "down"}
    IsOutcomes = {"accepted", "failed"}
    Verdicts = {"acked"}
    MaxAttempts = 2
    MaxRequests = 1
    MaxRestarts = 1
INVARIANTS
    OneSender
    Budget
PROPERTIES
    GivesUpLate
    ClosedStays
    EnrolledSettles
CHECK_DEADLOCK FALSE
