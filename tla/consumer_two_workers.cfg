SPECIFICATION Spec
CONSTANTS
  Jobs <- MCJobs
  Kind <- MCKind
  WellFormed = {wellFormed1}
  NoWebhook = {}
  Invalid = {}
  InvalidWithWebhook = {}
  NonObject = {}
  Undecodable = {}
  Workers = {w1, w2}
  MaxAttempts = 2
  InitialAttempts = {0}
  SlowRestarts = FALSE
  ClaimCount = 2
  ScanCount = 2
  MaxCrashes = 1
  MaxRedisFaults = 0
SYMMETRY Symmetry
INVARIANT InHandIsPending
INVARIANT ExclusiveUnlessClaimed
INVARIANT OneLineOfAttempts
INVARIANT SeenSuccessIsFinal
PROPERTY ImplementsJobQueue
CHECK_DEADLOCK FALSE
