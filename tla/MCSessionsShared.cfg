\* Safety of a shared session.
SPECIFICATION Spec
CONSTANTS
    c1 = c1
    c2 = c2
    c3 = c3
    s1 = s1
    s2 = s2
    NoSession = NoSession
    Conns <- ThreeConns
    Sessions <- OneSession
    DefaultMode = "shared_readwrite"
    ReconnectWindow = 1
    SessionTimeout = 2
INVARIANTS
    FindableIsUsable
    RegisteredIsServed
    ServedIsRegistered
    OneReaderUntilShutDown
PROPERTIES
    OnlyForceEvicts
    ImplementsRegistry
\* Every connection is used once: when all are closed and nothing is left to
\* clean up the system stops.
CHECK_DEADLOCK FALSE
