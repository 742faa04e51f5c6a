SPECIFICATION LoopSpec
CONSTANTS
  Frames = 3
  SubBlock = 2
  Regions <- MCRegions
  SeekTargets <- MCTargets
  Ends = {0, 3}
  MaxPos = 4
  MaxCommands = 2
  MaxControl = 1
CHECK_DEADLOCK FALSE
PROPERTIES
  PlaysAsTold
  NothingRunsForEver
