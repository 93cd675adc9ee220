SPECIFICATION Spec
CONSTANTS
    Silence = Silence
    Blocks = 6
    Start = 13
    Mod = 16
    Jump = 3
    MaxFill = 2
    MaxTries = 1
    MaxNack = 2
    MaxAhead = 5
INVARIANTS TypeOK
PROPERTIES PlayoutKept HeldIsPlayed Drains
CHECK_DEADLOCK FALSE
