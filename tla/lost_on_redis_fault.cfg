SPECIFICATION Spec
CONSTANTS
  Jobs <- MCJobs
  Kind <- MCKind
  WellFormed = {wellFormed1}
  NoWebhook = {}
  Invalid = {}
  InvalidWithWebhook = {}
  NonObject = {}
  Undecodable = {}
  Workers = {w1}
  MaxAttempts = 2
  InitialAttempts = {0}
  SlowRestarts = FALSE
  ClaimCount = 1
  ScanCount = 2
  MaxCrashes = 0
  MaxRedisFaults = 1
INVARIANT NoJobLost
CHECK_DEADLOCK FALSE
