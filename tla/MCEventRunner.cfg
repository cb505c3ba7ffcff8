SPECIFICATION FairSpec
CONSTANTS
    cmd = cmd
    main = main
    Idle = Idle
    Posters <- MCPosters
    Main = main
    Delays <- MCDelays
    MaxTasks = 3
    MaxTime = 2
INVARIANTS
    NoOvertaking
PROPERTIES
    EveryTaskRuns
    KeepsPromise
CHECK_DEADLOCK FALSE
