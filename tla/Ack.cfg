CONSTANTS
    c1 = c1
    c2 = c2
    c3 = c3
    Call = {c1, c2, c3}
    Reqs <- AckReqs
    Id = {1, 2, 3, 4, 5}
    Parts <- AckParts
    SeqModulus = 2
    Refused = {4, 5}
    Blank = {5}
    QueueSize = 1
    BatchSize = 2
    FlushConcurrency = 1
SPECIFICATION RecoverySpec
INVARIANTS TypeOK AcceptedKept StopFlushes FlushCovers CountSound DuplicatesExact SpansExact
PROPERTY Acknowledged
CHECK_DEADLOCK FALSE
