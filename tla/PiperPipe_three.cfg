SPECIFICATION FairSpec
CONSTANTS
  Workers = {w1, w2, w3}
  Leader = w1
  K = 3
  MaxIter = 3
  MaxStage = 2
INVARIANTS
  CachedStageIsOld
  CounterProtocol
  LeftNeighbourStays
  NoLostWakeUp
  ControlHeldOnce
  FlagMatchesControl
  SuspendTakesOwnControl
  AssertionsHold
  NoLockRing
PROPERTIES
  PipelineCompletes
  ImplementsPipeline
