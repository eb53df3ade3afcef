CONSTANTS
  a = a
  b = b
  c = c
  d = d
  Events = {a, b}
  Requests <- MCRequests
  Malformed = {}
  MaxBatch = 2
  BatchSize = 2
  MaxRetries = 3
  MaxFlushes = 1
  Connections = 2
  CommitBeforeReply = FALSE
  DryRun = FALSE
SPECIFICATION FairSpec
INVARIANTS
  AnsweredIsInserted
  RefusedRetryIsStored
  RetriesNeverDeadlock
PROPERTY EveryEventSettles
CHECK_DEADLOCK FALSE
