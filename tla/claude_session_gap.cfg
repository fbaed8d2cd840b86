SPECIFICATION Spec
CONSTANTS
    Requests = {r1}
    Modes = {default}
    DefaultMode = default
    MaxPrompts = 1
    MaxDisturbances = 0
CHECK_DEADLOCK FALSE
PROPERTIES
    NeverKillsAnsweredTurn
