CONSTANTS
    m1 = m1
    m2 = m2
    m3 = m3
    m4 = m4
    Corrupt = Corrupt
    Msg <- Three
    Size <- SmallSizes
    MaxEntries = 0
    MaxBytes = 0
    ReplayBatch = 2
    CountLimit = 6
    ReplayLimit = 8
    TornWrites = TRUE
    ReadErrors = FALSE
    MaxCrashes = 0
SPECIFICATION Spec
INVARIANT AtLeastOnce
