CONSTANTS
  t1 = t1
  t2 = t2
  t3 = t3
  NoVisitor = NoVisitor
  Tracks = {t1, t2}
  SkipFrames = 2
  FrameTime = 13999999
  ClipStart = 10500000
  Microsecond = 21
  Precision = 5
  DwellInterval = 8
  MaxFrames = 15
SPECIFICATION Spec
SYMMETRY Symmetry
INVARIANTS
  ZoneInv
  StaysAreTold
  DwellMatchesTimestamps
  DwellIsPeriodic
CHECK_DEADLOCK FALSE
