CONSTANTS
    s1 = s1
    s2 = s2
    p1 = p1
    Scanner = {s1, s2}
    Replayer = {p1}
    Stream = "events"
    PublishStreams = {"events"}
    ConsumeStreams = {}
    Targets = {"", "other"}
    Policies <- OwnPolicy
    Default <- Global
    ScanBatch = 1
    ReplayCount = 2
    Entries = 1
    MaxClaims = 2
    MaxStreamLen = 1
    MaxLog = 3
    MaxTrouble = 2
SPECIFICATION RecoverySpec
INVARIANTS TypeOK NotLost CopiesBounded OnlyOverRetried Lineage
PROPERTY StuckLeaves
CHECK_DEADLOCK FALSE
