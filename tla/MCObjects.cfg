CONSTANTS
  p1 = p1 p2 = p2 root = root o1 = o1 o2 = o2 o3 = o3
  sect = sect img = img GUARD = GUARD
  NONE = NONE
  Procs = {p1, p2}
  Objs = {root, o1, o2, o3}
  Root = root
  MaxHandles = 1
  AccessMasks <- SomeMasks
  Names = {"a", "A"}
  lower <- Lower
  Paths <- SomePaths
  Targets <- SomeTargets
  AttrSets <- SomeAttrs
  MaxPins = 2
  MaxDepth = 6
SPECIFICATION MCSpec
SYMMETRY Symm
INVARIANT TreeOK
INVARIANT RefsExact
INVARIANT ViewsAgree
PROPERTY HandlesSpec
PROPERTY ImplementsPages
CHECK_DEADLOCK FALSE
