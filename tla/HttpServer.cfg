SPECIFICATION FairSpec
CONSTANTS
    Threads = {w1, w2}
    Conns = {c1, c2, c3, c4}
    NoConn = NoConn
    MaxFd = 2
    InitMayFail = TRUE
    CreateMayFail = TRUE
INVARIANTS
    SocketsAccounted
PROPERTIES
    ServesInOrder
    EveryConnectionServed
CHECK_DEADLOCK FALSE
