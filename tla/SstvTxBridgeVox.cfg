SPECIFICATION WorkingSpec
CONSTANTS
  Timeout <- MCTimeout
  MaxAge = 2
  MaxGap = 2
  MaxStarts = 2
  MaxQueue = 3
  Vox = TRUE
  LeadDelay = 1
  HangDelay = 1
  Retry = 1
  HeaderEnd = 1
  ImageEnd = 2
  ProtocolEnd = 3
  Total = 3
PROPERTIES OwnershipReturned
CHECK_DEADLOCK FALSE
