CONSTANTS
  Rows <- MCRows
  NoZone = NoZone
  Lookback = 1
  Hour = 2
  Day = 48
  FirstTime = 479
  LastTime = 480
  InfoDepth = 1
  WarnDepth = 2
  CriticalDepth = 3
  WarnDrop = 20
  CriticalDrop = 40
  MinVisitors = 1
  Confidence = 2
  MaxBatch = 2
  MaxCommits = 1
  Filter = "BILLING_QUEUE_JOIN"
  PageLimit = 1
  StaleAge = 1
SPECIFICATION QueriesSpec
INVARIANT
  FunnelIsAnswered
CHECK_DEADLOCK FALSE
