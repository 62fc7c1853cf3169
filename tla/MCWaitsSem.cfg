CONSTANTS
  t1 = t1 t2 = t2 t3 = t3 p1 = p1 p2 = p2 e1 = e1 e2 = e2 s1 = s1 m1 = m1
  NONE = NONE
  Threads = {t1, t2, t3}
  Procs = {p1}
  AutoEvents = {}
  ManualEvents = {e2}
  Semaphores = {s1}
  Mutants = {m1}
  ThreadsOf <- ThreeThreads
  MaxCount <- SemCounts
  ULONG_SIZE = 4
  WaitArgs <- SemArgs
  ReleaseCounts = {1, 3}
  MaxApcs = 0
  MaxHeld = 2
SPECIFICATION Spec
PROPERTY OnlyRepeatsExceed
PROPERTY MutantHandover
CHECK_DEADLOCK FALSE
