CONSTANTS
  r1 = r1
  r2 = r2
  g1 = g1
  Items <- MCItems
  Events <- MCKeys
  Malformed <- MCMalformed
  Requests = {r1, r2}
  Readers = {g1}
  MaxBatch = 2
  KeyLength = 5
  Limit = 1
  Connections = 2
  CommitBeforeReply = TRUE
SPECIFICATION Spec
SYMMETRY Symmetry
INVARIANTS
  TransactionsInv
  ReadAsPosted
  AckedIsFound
  PageFitsTotal
CHECK_DEADLOCK FALSE
