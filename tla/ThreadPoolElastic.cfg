SPECIFICATION FairSpec
CONSTANTS
    MinThr = 1
    MaxThr = 3
    QueueMax = 1
    MinWaitTask = 1
    Vary = 2
    Tasks = {t1}
    Adders = {a1}
    NoTask = NoTask
    Garbage = Garbage
    GarbageInts <- AnyInts
    DirtyHeap = TRUE
    CreateMayFail = FALSE
    KillSeesExit = TRUE
    Overlap = TRUE
INVARIANTS
    LiveCountExact
    LiveWithinBounds
    RoomToGrow
PROPERTIES
    IdlePoolShrinks
CHECK_DEADLOCK FALSE
