SPECIFICATION PttSpec
CONSTANTS
    Sessions = 2
    Pieces = 2
    Turns = 1
    Mishaps = 1
INVARIANTS TurnInv
PROPERTIES IdleIsReleased
CHECK_DEADLOCK FALSE
