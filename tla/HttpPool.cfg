SPECIFICATION FairSpec
CONSTANTS
    Threads = {w1, w2, w3}
    Tasks = {t1, t2, t3, t4}
    NoTask = NoTask
    CreateMayFail = TRUE
INVARIANTS
    EnoughAwake
    NothingLeftBehind
PROPERTIES
    KeepsPromise
    PushedIsRun
CHECK_DEADLOCK FALSE
