SPECIFICATION Spec
CONSTANTS
    r1 = r1
    r2 = r2
    r3 = r3
    r4 = r4
    r5 = r5
    k1 = k1
    k2 = k2
    Requests <- MCRequests
    Clients <- MCClients
    MaxRequests = 2
    Window = 2
    LockDelay = 1
    Horizon = 6
SYMMETRY Symmetry
INVARIANTS
    TwoWindowsAtMost
PROPERTIES
    BlockIsServed
    RefusalIsDeserved
