CONSTANTS
    Nobody = Nobody
    Tasks = {t1}
    Faults = {"crash", "raise", "restart", "wipe", "trim", "drop", "unseen"}
    MaxAttempts = 2
    MaxRuns = 2
    MaxLinks = 1
    MaxFaults = 1
SPECIFICATION FairSpec
INVARIANTS
    TypeOK
    HandledInOrder
    LossExplained
    ToldOnce
PROPERTIES
    TaskCompletes
    SettledIsTold
CHECK_DEADLOCK FALSE
