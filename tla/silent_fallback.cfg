SPECIFICATION Spec
CONSTANTS
  Deployments <- GpuDeployments
  ModelLabels <- MCModelLabels
  MaxFaults = 0
INVARIANT NoSilentFallback
