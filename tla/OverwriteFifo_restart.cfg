SPECIFICATION Spec
CONSTANTS
  Capacity = 2
  MaxPush = 4
  MaxLives = 2
CHECK_DEADLOCK FALSE
INVARIANT RestartIsClean
