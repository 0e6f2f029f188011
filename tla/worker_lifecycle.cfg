SPECIFICATION FairSpec
CONSTANTS
  Deployments <- MCDeployments
  ModelLabels <- MCModelLabels
  MaxFaults = 2
INVARIANT LifecycleTypeOK
INVARIANT ConsumingMeansReady
INVARIANT MismatchFoundEarly
INVARIANT RecommendedIsAccepted
INVARIANT IncompleteOnlyByFault
INVARIANT ClosedUnlessRaised
PROPERTY ComesUpUnlessDamaged
PROPERTY DamageIsFinal
PROPERTY StopEndsTheWorker
