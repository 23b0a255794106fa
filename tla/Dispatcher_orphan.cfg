CONSTANTS
    s1 = s1
    s2 = s2
    Sub = {s1, s2}
    MaxDisp = 2
    MaxEvents = 1
    ReadCount = 1
    Buffer = 1
    MaxDrops = 1
SPECIFICATION ReadingSpec
PROPERTY Told
CHECK_DEADLOCK FALSE
