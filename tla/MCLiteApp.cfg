SPECIFICATION FairSpec
CONSTANTS
    n1 = n1
    Natives = {n1}
    Delays = {0, 1}
    MaxWorks = 2
    TaskInterval = 1
    DeviceInterval = 2
    JsInterval = 2
INVARIANTS
    CalmExitIsClean
    NoExtraCallback
    WorkInOrder
PROPERTIES
    WorkRuns
    TimerRuns
    ExitEnds
CHECK_DEADLOCK FALSE
