CONSTANTS
    t1 = t1
    t2 = t2
    h1 = h1
    h2 = h2
    Nobody = Nobody
    Tasks = {t1, t2}
    Sessions = {h1, h2}
    Words <- Answers
    Faults = {"timeout", "crash"}
    MaxTurns = 3
    MaxFaults = 1
SYMMETRY Interchangeable
SPECIFICATION Spec
INVARIANTS
    TypeOK
    UndisturbedStartedOnce
    FailedIsNotStarted
    ConsentBeforeEffect
    RecordedIsStarted
    QuestionIsOpen
