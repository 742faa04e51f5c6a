SPECIFICATION Spec
CONSTANTS
  Tracks = 2
  Slots <- TwoTracks
  Quantum = 0
  Block = 2
  Period = 6
  MaxActs = 3
  Racing = FALSE
INVARIANTS
  HoldsItsNotes
  PositionsAreSound
PROPERTY OnTheGrid
