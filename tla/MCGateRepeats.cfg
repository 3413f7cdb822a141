CONSTANTS
    t1 = t1
    h1 = h1
    Nobody = Nobody
    Tasks = {t1}
    Sessions = {h1}
    Words <- Answers
    Faults = {"timeout"}
    MaxTurns = 3
    MaxFaults = 1
SPECIFICATION Spec
INVARIANT StartedOnce
