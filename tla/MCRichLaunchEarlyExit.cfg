SPECIFICATION FairSpec
CONSTANTS
    light = light
    dark = dark
    Modes <- MCModes
    StartMode = dark
    DefaultMode = light
    CreationFails = FALSE
INVARIANTS
    StoppedMeansStopped
