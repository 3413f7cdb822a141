CONSTANTS
    Policies = {"skip"}
    Width = 2
    StampCap = 2
    Strangers = {}
    Terminals = {}
    MaxFires = 1
    MaxManual = 0
    MaxRestarts = 0
    tui = tui
    spare = spare
SPECIFICATION Spec
PROPERTIES
    SiblingsSpared
CHECK_DEADLOCK FALSE
