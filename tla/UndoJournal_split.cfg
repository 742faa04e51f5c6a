SPECIFICATION Spec
CONSTANTS
  Absent = Absent
  DefaultTempo = 0
  Start <- Faded
  Types = {"setClipBounds", "setClipFades", "addClip"}
  RemoteTypes = {}
  Value = {0, 1}
  Length = {1, 2}
  MaxEntries = 2
  MaxEdits = 2
  MaxIds = 14
CHECK_DEADLOCK FALSE
INVARIANT HistoryIsExact
