SPECIFICATION FairSpec
CONSTANTS
    Configs <- MCConfigs
    MaxSent = 4
\* A closed connection stays closed.
CHECK_DEADLOCK FALSE
INVARIANTS
    NothingWithoutLogin
    AuditTellsTheStory
    HandshakeTakesItsOwn
    ReadyIsHonest
PROPERTY EndIsReached
