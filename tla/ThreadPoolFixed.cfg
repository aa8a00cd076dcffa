SPECIFICATION FairSpec
CONSTANTS
    MinThr = 2
    MaxThr = 2
    QueueMax = 2
    MinWaitTask = 1
    Vary = 1
    Tasks = {t1, t2, t3}
    Adders = {a1, a2}
    NoTask = NoTask
    Garbage = Garbage
    GarbageInts = {0}
    DirtyHeap = FALSE
    CreateMayFail = FALSE
    KillSeesExit = TRUE
    Overlap = FALSE
INVARIANTS
    NoStrandedTask
    NoUseAfterFree
    BlockedOnlyWhenFull
PROPERTIES
    KeepsPromise
    PoolSettles
CHECK_DEADLOCK FALSE
