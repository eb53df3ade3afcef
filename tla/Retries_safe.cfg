CONSTANTS
  a = a
  b = b
  c = c
  d = d
  Events = {a, b}
  Requests <- MCRequests
  Malformed = {}
  MaxBatch = 2
  BatchSize = 2
  MaxRetries = 2
  MaxFlushes = 1
  Connections = 2
  CommitBeforeReply = TRUE
  DryRun = FALSE
SPECIFICATION Spec
INVARIANT RetriesAreSafe
CHECK_DEADLOCK FALSE
