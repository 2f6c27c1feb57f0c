SPECIFICATION FairSpec
CONSTANTS
    Callers = {r1, r2}
    Clients = {c1}
    Workloads <- ModelWorkloads
INVARIANTS NoClosedSend TxUncut
PROPERTIES StopEnds NotStuck
CHECK_DEADLOCK FALSE
