CONSTANTS
  t1 = t1
  t2 = t2
  f1 = f1
  f2 = f2
  Threads <- TwoThreads
  Fibers <- TwoFibers
  StackSizes <- SizeGivenOrDefault
  DefaultStack = 2
  NestedSwapIn = FALSE
  SharedFibers = FALSE
  NoFiber = NoFiber
SPECIFICATION Spec
INVARIANTS TypeOK CurrentIsRunning NoStaleResume RunningStackAlive CountIsLive
PROPERTIES FramesNotDiscarded ImplementsCoroutine
CHECK_DEADLOCK FALSE
