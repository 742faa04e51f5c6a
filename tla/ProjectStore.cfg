SPECIFICATION FairSpec
CONSTANTS
  s1 = s1
  s2 = s2
  c1 = c1
  c2 = c2
  Session = {s1, s2}
  Change = {c1, c2}
  Needs <- Chain
  NoOne = NoOne
  AbortMidFile = FALSE
  MaxReceived = 3
  MaxCrashes = 1
CHECK_DEADLOCK FALSE
INVARIANTS
  DurableBeforeBroadcast
  FileIsWhole
PROPERTIES
  LogSpec
  RequestAnswered
