SPECIFICATION Spec
CONSTANTS
  Jobs <- MCJobs
  Kind <- MCKind
  WellFormed = {wellFormed1, wellFormed2}
  NoWebhook = {}
  Invalid = {}
  InvalidWithWebhook = {}
  NonObject = {}
  Undecodable = {}
  Workers = {w1}
  MaxAttempts = 2
  InitialAttempts = {0, 2}
  SlowRestarts = FALSE
  ClaimCount = 2
  ScanCount = 2
  MaxCrashes = 1
  MaxRedisFaults = 1
SYMMETRY Symmetry
INVARIANT TypeOK
INVARIANT LostOnlyKnownWays
INVARIANT AccountedBeforeAck
INVARIANT OneLineOfAttempts
INVARIANT SeenSuccessIsFinal
INVARIANT BuriedOnlyWhenExhausted
INVARIANT FailureIsOnRecord
INVARIANT JobNeverVanishes
CHECK_DEADLOCK FALSE
