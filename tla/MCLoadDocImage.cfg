SPECIFICATION FairSpec
CONSTANTS
    MaxDocs = 2
    MaxFrames = 4
INVARIANTS
    OneWaitingTimer
    
PROPERTIES
    StoredFrameIsSent
    SpacedImageIsSent
CHECK_DEADLOCK FALSE
