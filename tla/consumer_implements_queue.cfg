SPECIFICATION Spec
CONSTANTS
  Jobs <- MCJobs
  Kind <- MCKind
  WellFormed = {wellFormed1}
  NoWebhook = {}
  Invalid = {}
  InvalidWithWebhook = {invalidWithWebhook1}
  NonObject = {}
  Undecodable = {undecodable1}
  Workers = {w1}
  MaxAttempts = 2
  InitialAttempts = {0}
  SlowRestarts = FALSE
  ClaimCount = 1
  ScanCount = 2
  MaxCrashes = 1
  MaxRedisFaults = 0
INVARIANT NoJobLost
PROPERTY ImplementsJobQueue
CHECK_DEADLOCK FALSE
