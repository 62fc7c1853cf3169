SPECIFICATION MCSpec
CONSTANTS
  Programs = {t1, t2}
SYMMETRY Symmetry
INVARIANT WindowsConsistent
INVARIANT GraphicsTrue
INVARIANT BlocksDisjoint
CHECK_DEADLOCK FALSE
