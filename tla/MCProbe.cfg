SPECIFICATION IntakeSpec
CONSTANTS
  b1 = b1
  b2 = b2
  b3 = b3
  Callers <- Batches
  FailureThreshold = 2
  RecoveryTimeout = 2
  MaxAlerts = 2
  MaxCalls = 6
INVARIANT SingleProbe
