CONSTANTS
    m1 = m1
    m2 = m2
    m3 = m3
    m4 = m4
    Corrupt = Corrupt
    Msg <- Four
    Size <- SmallSizes
    MaxEntries = 3
    MaxBytes = 0
    ReplayBatch = 2
    CountLimit = 6
    ReplayLimit = 8
    TornWrites = FALSE
    ReadErrors = TRUE
    MaxCrashes = 1
SPECIFICATION FairSpec
INVARIANTS TypeOK AtLeastOnce DepthExact EntriesBounded
PROPERTIES IsDurableQueue Drained
