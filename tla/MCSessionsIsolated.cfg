\* Safety of isolated sessions.
SPECIFICATION Spec
CONSTANTS
    c1 = c1
    c2 = c2
    c3 = c3
    s1 = s1
    s2 = s2
    NoSession = NoSession
    Conns <- TwoConns
    Sessions <- TwoSessions
    DefaultMode = "isolated"
    ReconnectWindow = 1
    SessionTimeout = 2
SYMMETRY Symmetry
INVARIANTS
    IsolatedIsExclusive
    IsolatedIsReclaimed
\* Every connection is used once: when all are closed and nothing is left to
\* clean up the system stops.
CHECK_DEADLOCK FALSE
