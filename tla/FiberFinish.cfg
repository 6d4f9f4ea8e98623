CONSTANTS
  t1 = t1
  t2 = t2
  f1 = f1
  f2 = f2
  Threads <- TwoThreads
  Fibers <- TwoFibers
  StackSizes <- SizeGivenOrDefault
  DefaultStack = 2
  NestedSwapIn = FALSE
  SharedFibers = FALSE
  NoFiber = NoFiber
SPECIFICATION Spec
INVARIANT FinishReturnsToMain
CHECK_DEADLOCK FALSE
