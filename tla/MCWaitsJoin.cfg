CONSTANTS
  t1 = t1 t2 = t2 t3 = t3 p1 = p1 p2 = p2 e1 = e1 e2 = e2 s1 = s1 m1 = m1
  NONE = NONE
  Threads = {t1, t2, t3}
  Procs = {p1, p2}
  AutoEvents = {e1}
  ManualEvents = {}
  Semaphores = {}
  Mutants = {}
  ThreadsOf <- TwoProcs
  MaxCount <- NoCounts
  ULONG_SIZE = 8
  WaitArgs <- JoinArgs
  ReleaseCounts = {1}
  MaxApcs = 0
  MaxHeld = 0
SPECIFICATION Spec
INVARIANT WaiterReachable
INVARIANT VmOutlivesThreads
CHECK_DEADLOCK FALSE
