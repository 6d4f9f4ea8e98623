CONSTANTS
  e1 = e1
  e2 = e2
  Events <- TwoEvents
  NoEvent = NoEvent
  Depth = 2
  DiskFills = TRUE
  MaxTime = 10
SPECIFICATION Spec
INVARIANTS TypeOK RotationHonoured UndisturbedReopenWorks OnlyWritesBreakStream
