SPECIFICATION BridgeSpec
CONSTANTS
  Timeout <- MCTimeout
  MaxAge = 2
  MaxGap = 2
  MaxStarts = 2
  MaxQueue = 3
  Vox = FALSE
  LeadDelay = 1
  HangDelay = 1
  Retry = 1
  HeaderEnd = 1
  ImageEnd = 2
  ProtocolEnd = 3
  Total = 3
INVARIANTS BridgeInv
PROPERTIES RadioIsReleased OwnershipReturned
CHECK_DEADLOCK FALSE
