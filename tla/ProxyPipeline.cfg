SPECIFICATION FairSpec
CONSTANTS
  Slots = 4
  Depth = 2
  MaxSeq = 6
  MaxLives = 2
CHECK_DEADLOCK FALSE
INVARIANT CollectedIsWanted
PROPERTY PauseDrains
