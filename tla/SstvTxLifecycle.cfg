SPECIFICATION Spec
CONSTANTS
  Timeout <- MCTimeout
  MaxAge = 2
  MaxDelay = 2
  MaxSessions = 2
INVARIANTS LifecycleInv
PROPERTIES ReleaseOnlyAcknowledged OutcomeOnlyWorsens
CHECK_DEADLOCK FALSE
