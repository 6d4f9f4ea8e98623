CONSTANTS
  main = main
  x1 = x1
  x2 = x2
  x3 = x3
  name = name
  unknown = unknown
  Main <- main
  Objects <- ThreeObjects
  Names <- OneName
  Unknown <- unknown
  NoThread = NoThread
  CreateMayFail = FALSE
  Interruptible = FALSE
  JoinsEarly = FALSE
SPECIFICATION FairSpec
INVARIANTS TypeOK OneCanMove NoDangling NoLeakedThread
PROPERTIES ImplementsSyncCall ConstructorReturns JoinReturns
CHECK_DEADLOCK FALSE
