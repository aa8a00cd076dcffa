SPECIFICATION FairSpec
CONSTANTS
    MinThr = 1
    MaxThr = 2
    QueueMax = 2
    MinWaitTask = 2
    Vary = 1
    Tasks = {t1, t2, t3}
    Adders = {a1}
    NoTask = NoTask
    Garbage = Garbage
    GarbageInts = {0}
    DirtyHeap = FALSE
    CreateMayFail = FALSE
    KillSeesExit = TRUE
    Overlap = FALSE
PROPERTIES
    TasksFinish
CHECK_DEADLOCK FALSE
