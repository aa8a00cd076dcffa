SPECIFICATION FairSpec
CONSTANTS
    Threads = {t1, t2}
    Conns = {c1, c2}
    Requests <- MixedRequests
    MaxHead = 1
    PipeCap = 1
    OutLen = 1
    MaxFd = 5
    NoConn = NoConn
    Leavers = {c1}
    MayFail = TRUE
    LfUnits = 1
INVARIANTS
    AnswerWhole
    BodyWhole
    OneAnswer
PROPERTIES
    ClosedInTheEnd
CHECK_DEADLOCK FALSE
