SPECIFICATION Spec
CONSTANTS
  Keys <- MCKeys
  PromptList <- MCPromptList
  Margin = 1
  Levels = {0, 2, 4}
  Labels <- MCLabels
  Whole = 2
INVARIANT ScoringTypeOK
INVARIANT PromptsStayWithTheirCategory
INVARIANT LabelIsDefensible
INVARIANT LikelihoodIsMonotone
INVARIANT UnsafeIsNeverHidden
CHECK_DEADLOCK FALSE
