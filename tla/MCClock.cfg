SPECIFICATION MCSpec
CONSTANTS
  NONE = NONE
  Threads = {t1, t2}
  Notify = {}
  Sync = {s}
  Delays <- AllDelays
  Forever = 6
  Period = 2
  MinWait = 2
  MsTicks = 2
  IntMax = 2
INVARIANT QueueIsValid
INVARIANT SleeperWillWake
INVARIANT MessagesDelivered
INVARIANT KidMatchesBlocks
PROPERTY TimedWaitsEnd
CHECK_DEADLOCK FALSE
