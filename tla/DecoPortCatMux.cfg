SPECIFICATION Spec
CONSTANTS
    a = a
    s = s
    NoTap = NoTap
    Nothing = Nothing
    Tcp <- OneTcp
    Serial <- OneSerial
    Trusted <- OneTcp
    Dialects = {"text", "civ", "silence"}
    Asked = {"FA"}
    Spontaneous = {"IF"}
    BusEcho = TRUE
    RefusesBusy = FALSE
    Punctual = TRUE
    Unhurried = TRUE
    MaxOpens = 1
    MaxWrites = 2
    MaxHeard = 1
INVARIANTS MuxInv
PROPERTIES ForbiddenDies ClosedReleases Released Served
CHECK_DEADLOCK FALSE
