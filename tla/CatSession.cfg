SPECIFICATION FairSpec
CONSTANTS
    Dials = {1, 2}
    Tolerated = 2
    Bursts = 0
    Requests = 2
    Connects = 1
    Misses = 0
    Turns = 2
    Reports = 2
    MaxRetries = 1
    Inherits = FALSE
INVARIANTS RequestInv
PROPERTIES KeysOnlyWhenAsked PollsTell Settles
CHECK_DEADLOCK FALSE
