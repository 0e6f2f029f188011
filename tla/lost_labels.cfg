SPECIFICATION Spec
CONSTANTS
  Deployments <- CpuDeployments
  ModelLabels <- MCModelLabels
  MaxFaults = 1
INVARIANT ScoreIsOfUnsafeContent
