SPECIFICATION FairSpec
CONSTANTS
    s1 = s1
    s2 = s2
    p1 = p1
    p2 = p2
    Shells <- MCShells
    Pids <- MCPids
\* A shell may run, or stay a failure, for ever.
CHECK_DEADLOCK FALSE
INVARIANT ShellsAreApart
PROPERTIES
    ZombiesAreReaped
    EndIsSeen
