CONSTANTS
    Policies = {"queue"}
    Width = 2
    StampCap = 2
    Strangers = {tui, spare}
    Terminals = {tui}
    MaxFires = 1
    MaxManual = 0
    MaxRestarts = 1
    tui = tui
    spare = spare
SPECIFICATION FairSpec
INVARIANTS
    TypeOK
    ParentFollowsChildren
    BooksBalance
    StopKills
PROPERTIES
    FireEnds
CHECK_DEADLOCK FALSE
