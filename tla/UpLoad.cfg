SPECIFICATION Spec
CONSTANTS
    MAX_BUFF = 10
    Units <- AllUnits
    Bodies <- SmallBodies
    OldFile <- NoFile
    MaxLost = 1
INVARIANTS
    TypeOK
    FileInOrder
    SuccessMeansWhole
    FailsOnlyForCause
PROPERTIES
    ComesToAnEnd
CHECK_DEADLOCK FALSE
