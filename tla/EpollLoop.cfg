SPECIFICATION FairSpec
CONSTANTS
    MaxEvents = 2
    ScanLen = 1
    Timeout = 1
    BufLen = 2
    MaxFd = 3
    FcntlFails = {2}
    MaxConns = 3
    MaxSend = 2
INVARIANTS
    StatusIsEpoll
    ConnsInSlots
    NoStaleEvent
    EchoedAsSent
PROPERTIES
    ClosedForCause
    SilentIsClosed
CHECK_DEADLOCK FALSE
