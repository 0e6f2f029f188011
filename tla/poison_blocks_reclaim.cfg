SPECIFICATION FairSpec
CONSTANTS
  Jobs <- MCJobs
  Kind <- MCKind
  WellFormed = {wellFormed1}
  NoWebhook = {}
  Invalid = {}
  InvalidWithWebhook = {}
  NonObject = {}
  Undecodable = {undecodable1}
  Workers = {w1}
  MaxAttempts = 3
  InitialAttempts = {0}
  SlowRestarts = TRUE
  ClaimCount = 1
  ScanCount = 2
  MaxCrashes = 1
  MaxRedisFaults = 0
PROPERTY EveryJobSettles
CHECK_DEADLOCK FALSE
