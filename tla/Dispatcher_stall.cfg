CONSTANTS
    s1 = s1
    s2 = s2
    Sub = {s1, s2}
    MaxDisp = 1
    MaxEvents = 2
    ReadCount = 2
    Buffer = 1
    MaxDrops = 1
SPECIFICATION OneReadsSpec
PROPERTY FastServed
CHECK_DEADLOCK FALSE
