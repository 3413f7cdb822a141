CONSTANTS
    Policies = {"skip"}
    Width = 1
    StampCap = 1
    Strangers = {}
    Terminals = {}
    MaxFires = 1
    MaxManual = 0
    MaxRestarts = 0
    tui = tui
    spare = spare
SPECIFICATION Spec
PROPERTIES
    StopIsRecorded
CHECK_DEADLOCK FALSE
