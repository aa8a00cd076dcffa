SPECIFICATION Spec
CONSTANTS
    MaxLen = 2
    MaxClock = 2
    MaxVersions = 3
    RangeTexts = {}
    Resumes = {"If-Range"}
    MaxLost = 2
    WriteDuring = {"copy"}
INVARIANTS
    ResumedCopyWhole
CHECK_DEADLOCK FALSE
