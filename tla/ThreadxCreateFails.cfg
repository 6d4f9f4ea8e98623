CONSTANTS
  main = main
  x1 = x1
  x2 = x2
  x3 = x3
  name = name
  unknown = unknown
  Main <- main
  Objects <- TwoObjects
  Names <- OneName
  Unknown <- unknown
  NoThread = NoThread
  CreateMayFail = TRUE
  Interruptible = FALSE
  JoinsEarly = FALSE
SPECIFICATION FairSpec
PROPERTY ConstructorReturns
CHECK_DEADLOCK FALSE
