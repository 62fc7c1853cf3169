CONSTANTS
  t1 = t1 t2 = t2 t3 = t3 p1 = p1 p2 = p2 e1 = e1 e2 = e2 s1 = s1 m1 = m1
  NONE = NONE
  Threads = {t1, t2}
  Procs = {p1, p2}
  AutoEvents = {e1}
  ManualEvents = {}
  Semaphores = {}
  Mutants = {}
  ThreadsOf <- OneEach
  MaxCount <- NoCounts
  ULONG_SIZE = 8
  WaitArgs <- ApcArgs
  ReleaseCounts = {1}
  MaxApcs = 1
  MaxHeld = 0
SPECIFICATION Spec
INVARIANT NoDoubleStart
INVARIANT NoLostWakeup
PROPERTY JoinReturns
CHECK_DEADLOCK FALSE
