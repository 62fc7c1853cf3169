SPECIFICATION Spec
CONSTANTS
  Main = Main
  Users = {t1, t2}
  Kernels = {k1}
  NULL = NULL
  Slices = 1
INVARIANT StopAssertsHold
PROPERTY ImplementsQueue
PROPERTY EveryLinkedFiberRuns
CHECK_DEADLOCK FALSE
