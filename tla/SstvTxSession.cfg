SPECIFICATION Spec
CONSTANTS
  Timeout <- MCTimeout
  MaxAge = 2
  MaxDelay = 2
  MaxSessions = 2
  LeadDelay = 1
  HangDelay = 1
  Retry = 1
  HeaderEnd = 1
  ImageEnd = 2
  ProtocolEnd = 3
  Total = 3
INVARIANTS SessionInv
PROPERTIES PcmAfterApproval PromiseKept
CHECK_DEADLOCK FALSE
