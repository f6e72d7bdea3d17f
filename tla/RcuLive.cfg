\* Every advancement ends although readers keep arriving and stores are delayed.
CONSTANTS
    t1 = t1
    t2 = t2
    a = a
    Threads = {t1, t2}
    Objects = {a}
    NoThread = NoThread
    NoObject = NoObject
    EpochBatch = 1
    BatchPublish = 1
    MaxEpoch = 2
    MaxDepth = 1
    StoreBuffering = TRUE
    Calls = {"never", "try"}
SPECIFICATION FairSpec
PROPERTIES
    AdvancementEnds
\* Threads may all have ended, and no epoch above MaxEpoch is explored.
CHECK_DEADLOCK FALSE
