CONSTANTS
    s1 = s1
    s2 = s2
    Sub = {s1, s2}
    MaxDisp = 2
    MaxEvents = 3
    ReadCount = 3
    Buffer = 1
    MaxDrops = 1
SPECIFICATION ReadingSpec
INVARIANTS TypeOK NoPanic CurrentRuns NoLeak
PROPERTIES Shutdown Served
CHECK_DEADLOCK FALSE
