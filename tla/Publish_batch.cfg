CONSTANTS
    c1 = c1
    c2 = c2
    b = b
    m1 = m1
    m2 = m2
    Call = {b}
    Reqs <- Batches
    Batch = {b}
    Enabled = {TRUE, FALSE}
    QueueSize = 1
    MaxBatch = 2
    Ticker = TRUE
    Adaptive = TRUE
    MinBatch = 2
    SyncReplay = TRUE
    ReplayBatch = 2
    ReadyMaxWALDepth = 1
    ReadyMaxPublishQueueDepth = 0
    MaxCopies = 0
SPECIFICATION Spec
INVARIANT Honest
CHECK_DEADLOCK FALSE
