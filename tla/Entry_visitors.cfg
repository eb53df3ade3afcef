CONSTANTS
  t1 = t1
  t2 = t2
  t3 = t3
  NoVisitor = NoVisitor
  Gone = Gone
  Tracks = {t1, t2, t3}
  Heights <- MCHeights
  Band = 1
  Invert = TRUE
  MaxFrames = 4
SPECIFICATION Spec
SYMMETRY Symmetry
INVARIANTS
  EntryInv
  ReentryWasSeen
CHECK_DEADLOCK FALSE
