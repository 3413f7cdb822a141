CONSTANTS
    Policies = {"skip", "queue"}
    Width = 1
    StampCap = 1
    Strangers = {}
    Terminals = {}
    MaxFires = 2
    MaxManual = 1
    MaxRestarts = 0
    tui = tui
    spare = spare
SPECIFICATION Spec
INVARIANTS
    SlotHeld
PROPERTIES
    ImplementsLedger
CHECK_DEADLOCK FALSE
