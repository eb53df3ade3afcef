CONSTANTS
  Events = {1, 2, 3}
  Requests = {1, 2, 3}
  Malformed = {3}
  MaxBatch = 2
  Connections = 2
  CommitBeforeReply = TRUE
SPECIFICATION MCSpec
INVARIANTS
  ApiInv
  AckedIsStored
  IngestedOnce
  ConflictHasCause
PROPERTIES
  BatchAtomic
  RequestsEnd
CHECK_DEADLOCK FALSE
