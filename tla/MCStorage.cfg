SPECIFICATION MCSpec
INVARIANT RegistryIntact
INVARIANT DecompressedIsText
INVARIANT ReadsAreTrue
CHECK_DEADLOCK FALSE
