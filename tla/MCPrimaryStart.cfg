CONSTANTS
    NoSession = NoSession
    Tasks = {t1, t2}
    Others = {u}
    QueueCap = 8
    MaxRegisters = 2
    MaxLinks = 1
SPECIFICATION Spec
SYMMETRY TaskSymmetry
INVARIANTS
    TypeOK
    PromptedOnce
    SoleStartIsTold
    OneTaskStarted
CHECK_DEADLOCK FALSE
