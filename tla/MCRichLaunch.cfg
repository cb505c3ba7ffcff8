SPECIFICATION FairSpec
CONSTANTS
    light = light
    dark = dark
    Modes <- MCModes
    StartMode = dark
    DefaultMode = light
    CreationFails = TRUE
INVARIANTS
    NoCrashInService
    SignalOnce
    LateStopMeansStopped
    LateColorModesAgree
PROPERTIES
    SignalIsSent
    ExitEndsProcess
