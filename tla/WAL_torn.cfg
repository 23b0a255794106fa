CONSTANTS
    m1 = m1
    m2 = m2
    m3 = m3
    m4 = m4
    Corrupt = Corrupt
    Msg <- Three
    Size <- SmallSizes
    MaxEntries = 0
    MaxBytes = 6
    ReplayBatch = 2
    CountLimit = 4
    ReplayLimit = 8
    TornWrites = TRUE
    ReadErrors = TRUE
    MaxCrashes = 2
SPECIFICATION Spec
INVARIANTS Retained BytesBounded
