SPECIFICATION FairSpec
CONSTANTS
    Interval = 2
    Timeout = 6
    BufferSize = 1
    InboxSize = 1
\* A closed connection stays closed.
CHECK_DEADLOCK FALSE
INVARIANTS
    PromptClientIsKept
PROPERTIES
    SilenceIsNoticed
    DeadConnectionEnds
