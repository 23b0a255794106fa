CONSTANTS
    r = r
    d = d
    Reader = {r, d}
    Loops = {d}
    ReadCount = 1
    MaxAdded = 2
    MaxLosses = 2
    MaxFaults = 1
SPECIFICATION RecoverySpec
INVARIANTS TypeOK NoSkip RetryHeals
PROPERTY Delivered
CHECK_DEADLOCK FALSE
