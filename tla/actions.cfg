SPECIFICATION FairSpec
CONSTANTS
    Receivers = {"rf", "is"}
    Messages = {m1, m2}
    Rows <- ModelRows
    MaxCopies = 3
    MaxLapses = 1
    MaxEdits = 1
INVARIANTS RunsOnce RateHonest
PROPERTIES AnsweredOnce
CHECK_DEADLOCK FALSE
