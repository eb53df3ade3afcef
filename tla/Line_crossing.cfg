CONSTANTS
  t1 = t1
  t2 = t2
  Gone = Gone
  Tracks = {t1}
  Heights <- MCHeights
  Band = 1
  Invert = FALSE
  MaxFrames = 6
SPECIFICATION CrossingSpec
INVARIANTS
  LineInv
  Debounced
  CrossingsAreReported
CHECK_DEADLOCK FALSE
