SPECIFICATION FairSpec
CONSTANTS
    MaxConns = 3
    MaxImages = 4
    Size <- MCSize
    Overlap = FALSE
INVARIANTS
    ScreenIsCurrent
    NeverBackwards
    ResentWhole
PROPERTIES
    WriterReleased
CHECK_DEADLOCK FALSE
