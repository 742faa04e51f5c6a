SPECIFICATION FairSpec
CONSTANTS
  g1 = g1
  g2 = g2
  g3 = g3
  p1 = p1
  r1 = r1
  Graph = {g1, g2, g3}
  NoGraph = NoGraph
  Plugin = {p1}
  Pinned = {}
  NoPlugin = NoPlugin
  Reader = {r1}
  MaxGen = 6
  MaxVersion = 2
INVARIANTS
  NoUseAfterFree
  RingsStayMapped
  IInv
PROPERTIES
  DocumentReachesAudio
  ResourcesAreReleased
