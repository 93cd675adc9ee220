SPECIFICATION FairSpec
CONSTANTS
    a = a
    b = b
    Stations = {a, b}
    NoStation = NoStation
    Greets = {b}
    FirstId <- SameIds
    MaxId = 1
    MaxAttempts = 2
    MaxTexts = 1
INVARIANTS HandshakeInv DisagreementNeedsEdit
PROPERTIES CallsEnd
