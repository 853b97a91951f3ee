\* A handler that revives a session that was shut down.
SPECIFICATION FairSpec
CONSTANTS
    c1 = c1
    c2 = c2
    c3 = c3
    s1 = s1
    s2 = s2
    NoSession = NoSession
    Conns <- TwoConns
    Sessions <- OneSession
    DefaultMode = "shared_readwrite"
    ReconnectWindow = 1
    SessionTimeout = 2
PROPERTY ForcedRemovalReleasesPty
\* Every connection is used once: when all are closed and nothing is left to
\* clean up the system stops.
CHECK_DEADLOCK FALSE
