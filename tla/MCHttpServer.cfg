SPECIFICATION FairSpec
CONSTANTS
    r1 = r1
    r2 = r2
    w1 = w1
    Requests <- MCRequests
    Sockets <- MCSockets
    MaxBudget = 1
\* The server stops.
CHECK_DEADLOCK FALSE
INVARIANTS
    NothingIsOpenByAccident
PROPERTIES
    OnlyAuthorizedSpend
    SignalEndsIt
