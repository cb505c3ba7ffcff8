SPECIFICATION FairSpec
CONSTANTS
    Setups <- MCSetups
    Messages <- MCMessages
    Configs <- MCConfigs
    MaxMessages = 2
    MaxNotices = 1
    Width = 50
    Height = 50
INVARIANTS
    DataInRange
    AnsweredInOrder
    StoredAsSent
PROPERTIES
    RefusalChangesNothing
    ExitIsObeyed
CHECK_DEADLOCK FALSE
