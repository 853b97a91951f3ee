SPECIFICATION Spec
CONSTANTS
    u1 = u1
    u2 = u2
    d1 = d1
    a = a
    b = b
    Requests <- MCRequests
    Readers <- MCReaders
    Names <- MCNames
    Configured = FALSE
    MaxFiles = 2
    MaxCrashes = 1
SYMMETRY Symmetry
\* Every request ends.
CHECK_DEADLOCK FALSE
INVARIANTS
    WholeFilesOnly
    TempsAreTransient
    AnswersAreTrue
PROPERTIES
    OnlyOverwriteReplaces
    ImplementsStore
