SPECIFICATION ISpec
CONSTANTS
  Keys = {"a"}
  MaxEvents = 3
PROPERTY QuitEnds
CHECK_DEADLOCK FALSE
