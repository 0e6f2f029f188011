SPECIFICATION FairSpec
CONSTANTS
  Jobs <- MCJobs
  Kind <- MCKind
  WellFormed = {wellFormed1}
  NoWebhook = {}
  Invalid = {}
  InvalidWithWebhook = {}
  NonObject = {}
  Undecodable = {}
  Workers = {w1}
  MaxAttempts = 2
  InitialAttempts = {0}
  SlowRestarts = FALSE
  ClaimCount = 1
  ScanCount = 2
  MaxCrashes = 1
  MaxRedisFaults = 0
PROPERTY PendingIsRecovered
CHECK_DEADLOCK FALSE
