CONSTANTS
  a = a
  b = b
  c = c
  d = d
  Events = {a, b, c, d}
  Requests <- MCRequests
  Malformed = {d}
  MaxBatch = 2
  BatchSize = 2
  MaxRetries = 2
  MaxFlushes = 2
  Connections = 2
  CommitBeforeReply = TRUE
  DryRun = FALSE
SPECIFICATION Spec
INVARIANTS
  DeliveryInv
  NoSilentLoss
  CountedOnce
  EmittedIsStored
  WholeBatches
PROPERTY KeepsPromise
SYMMETRY Symmetry
CHECK_DEADLOCK FALSE
