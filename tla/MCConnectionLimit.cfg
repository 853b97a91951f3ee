SPECIFICATION LimitSpec
CONSTANTS
    c1 = c1
    c2 = c2
    c3 = c3
    c4 = c4
    Conns <- MCConns
    MaxConnections = 2
SYMMETRY Symmetry
INVARIANTS
    CounterCountsHolders
    LimitHolds
PROPERTY ImplementsSlots
