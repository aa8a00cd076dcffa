\* The third connection finds the slots of select and poll taken.
SPECIFICATION FairSpec
CONSTANTS
    Conns = {1, 2, 3}
    Fds = {1, 2, 3}
    NoConn = 0
    MayReset = TRUE
    Kinds = {"select", "poll", "epoll", "process", "thread"}
    Room = 2
    DirtyStack = {1, 2}
    MessageBytes = {1, 3}
    TsSize = 3
INVARIANTS
    ReadsReady
    Tables
PROPERTIES
    KeepsService
    EveryClientServed
    ChildrenReaped
CHECK_DEADLOCK FALSE
