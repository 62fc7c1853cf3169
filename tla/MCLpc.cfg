SPECIFICATION Spec
CONSTANTS
  NONE = NONE
  Servers = {s1, s2}
  Clients = {c1, c2}
  Killable = {c1, c2}
  Ports = {p1, p2, p3}
  MaxId = 3
INVARIANT ListenerIsBlocked
INVARIANT ConnectionsSound
INVARIANT NoMessageForgotten
PROPERTY ReplyMatchesRequest
SYMMETRY Symmetry
CHECK_DEADLOCK FALSE
