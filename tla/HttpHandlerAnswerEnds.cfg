SPECIFICATION FairSpec
CONSTANTS
    Threads = {t1, t2}
    Conns = {c1, c2}
    Requests <- Uploads
    MaxHead = 1
    PipeCap = 1
    OutLen = 1
    MaxFd = 8
    NoConn = NoConn
    Leavers = {c1}
    MayFail = FALSE
    LfUnits = 1
PROPERTIES
    AnswerEnds
CHECK_DEADLOCK FALSE
