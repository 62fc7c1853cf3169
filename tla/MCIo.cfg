SPECIFICATION MCSpec
CONSTANTS
  p1 = p1
  NONE = NONE
  Threads = {t1, t2, t3}
  Ports = {p1, p2}
  Packets = {k1, k2}
  Limit <- LimitMixed
  Killable = {t2}
INVARIANT PacketInOnePlace
INVARIANT WaiterIsBlocked
INVARIANT WorkIsListed
INVARIANT PipesDeliver
PROPERTY WaitersGetTheirTurn
CHECK_DEADLOCK FALSE
