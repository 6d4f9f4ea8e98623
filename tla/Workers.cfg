CONSTANTS
  main = main
  x1 = x1
  x2 = x2
  name = name
  unknown = unknown
  Main <- main
  Objects <- TwoObjects
  Names <- OneName
  Unknown <- unknown
  NoThread = NoThread
  CreateMayFail = TRUE
  Interruptible = TRUE
  JoinsEarly = TRUE
  NoCount = NoCount
  MaxCount = 2
SPECIFICATION WorkersSpec
INVARIANTS NamesAgree OnlySignalsReturnEarly StandstillHasReason
PROPERTIES NoLostIncrement
CHECK_DEADLOCK FALSE
