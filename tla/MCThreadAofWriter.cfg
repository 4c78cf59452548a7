SPECIFICATION FairSpec
CONSTANTS
    kQueueCapacity = 2
    kMaxBatch = 2
    MaxFrames = 6
INVARIANTS
    TypeOK
    NoFrameLost
    PendingExact
    FlushHonest
PROPERTIES
    ReactorNeverStuck
    EverysecSyncs
CHECK_DEADLOCK FALSE
