CONSTANTS
    c1 = c1
    c2 = c2
    b = b
    m1 = m1
    m2 = m2
    Call = {c1, c2}
    Reqs <- Singles
    Batch = {}
    Enabled = {TRUE, FALSE}
    QueueSize = 1
    MaxBatch = 2
    Ticker = TRUE
    Adaptive = FALSE
    MinBatch = 1
    SyncReplay = TRUE
    ReplayBatch = 1
    ReadyMaxWALDepth = 1
    ReadyMaxPublishQueueDepth = 0
    MaxCopies = 1
SPECIFICATION RecoverySpec
INVARIANTS TypeOK Honest NoNeedlessCopy CloseDrains
PROPERTIES Answered QueuedReachesRedis ReadyAgain
CHECK_DEADLOCK FALSE
