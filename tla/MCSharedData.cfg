SPECIFICATION FairSpec
CONSTANTS
    Types <- MCTypes
    Groups <- MCGroups
    GroupOf <- MCGroupOf
    Threads <- MCThreads
    Consumer <- MCConsumer
    Period <- MCPeriod
    Wrap = 2
    MaxSets = 2
INVARIANTS
    NoLostChange
PROPERTIES
    ChangeIsDelivered
    KeepsWatchersInformed
    Paced
