SPECIFICATION FairSpec
CONSTANTS
    c1 = c1
    c2 = c2
    Clients <- MCClients
    Capacity = 1
    MaxOutput = 2
CHECK_DEADLOCK FALSE
INVARIANTS
    ExitAfterFinalOutput
    FirstLossIsTold
PROPERTIES
    ImplementsStream
    ExitIsAnnounced
