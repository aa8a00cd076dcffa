SPECIFICATION FairSpec
CONSTANTS
    MaxLen = 3
    MaxClock = 2
    MaxVersions = 3
    RangeTexts <- AllRanges
    Resumes <- Checked
    MaxLost = 2
    WriteDuring = {"copy"}
INVARIANTS
    NotModifiedMeansCurrent
    ResumedCopyWhole
    RangesAsAsked
PROPERTIES
    StaysFresh
CHECK_DEADLOCK FALSE
