SPECIFICATION FairSpec
CONSTANTS
  MaxUrls = 3
  Limit = 2
  Answers = {"image", "undecodable", "busy", "refused"}
  NumCalls = 5
  UrlCount <- MCUrlCount
  Override <- MCOverride
  ProfileStages = {"quality", "safety", "fingerprint", "embed", "relevance"}
  SafetyEnabled = TRUE
  EmbedEnabled = TRUE
  BatchSize = 2
  Threads = 2
INVARIANT TypeOK
INVARIANT SlotsConserved
INVARIANT OutcomesAreEarned
INVARIANT MatchingAfterModeration
INVARIANT ReportListsTheUrls
INVARIANT AbandonedFitThePool
PROPERTY RowsBelongTogether
PROPERTY EveryCallEnds
PROPERTY KeepsTheContract
CHECK_DEADLOCK FALSE
