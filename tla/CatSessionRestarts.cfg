SPECIFICATION FairSpec
CONSTANTS
    Dials = {1, 2}
    Tolerated = 2
    Bursts = 1
    Requests = 1
    Connects = 2
    Misses = 2
    Turns = 0
    Reports = 2
    MaxRetries = 1
    Inherits = TRUE
INVARIANTS LinkInv
PROPERTIES OneAfterTheOther DisconnectEnds
CHECK_DEADLOCK FALSE
