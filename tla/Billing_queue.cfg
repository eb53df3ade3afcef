CONSTANTS
  t1 = t1
  t2 = t2
  t3 = t3
  NoVisitor = NoVisitor
  Tracks = {t1, t2, t3}
  MaxFrames = 3
  BatchSize = 4
  MaxRuns = 2
  MaxLength = 3
SPECIFICATION PipelineSpec
SYMMETRY Symmetry
INVARIANTS
  PipelineInv
  QueueIsTold
  DepthsAreTold
  GapsAreCounted
  DepthIsExplained
CHECK_DEADLOCK FALSE
