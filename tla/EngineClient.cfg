SPECIFICATION FairSpec
CONSTANTS
  None = None
  p = p
  q = q
  Project = {p, q}
  Home = p
  MaxLives = 2
  MaxDrops = 1
  MaxActs = 2
CHECK_DEADLOCK FALSE
INVARIANTS SingleConnection FramesAreUnderstood
PROPERTIES ConnectsForGood LoopComesBack BannerTellsTheTruth ExportEnds
