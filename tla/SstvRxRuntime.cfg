SPECIFICATION FairSpec
CONSTANTS
    Sizes = {1, 2}
    MaximumChunks = 2
    MaximumSamples = 3
    Calls = 3
    Blocks = 2
    Codes = 1
    Failures = TRUE
INVARIANTS RuntimeInv
PROPERTIES StreamKept VisOfTheCurrent NoWakeUpLost OldImageGoes
CHECK_DEADLOCK FALSE
