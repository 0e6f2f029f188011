SPECIFICATION FairSpec
CONSTANTS
  Jobs <- MCJobs
  Kind <- MCKind
  WellFormed = {wellFormed1}
  NoWebhook = {noWebhook1}
  Invalid = {invalid1}
  InvalidWithWebhook = {}
  NonObject = {}
  Undecodable = {}
  Workers = {w1}
  MaxAttempts = 3
  InitialAttempts = {0}
  SlowRestarts = TRUE
  ClaimCount = 1
  ScanCount = 2
  MaxCrashes = 1
  MaxRedisFaults = 0
PROPERTY EveryJobSettles
PROPERTY PendingIsRecovered
CHECK_DEADLOCK FALSE
