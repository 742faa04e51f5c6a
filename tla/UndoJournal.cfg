SPECIFICATION Spec
CONSTANTS
  Absent = Absent
  DefaultTempo = 0
  Start <- Plain
  Types = {"setTrackGain", "setTempo", "setTrackOrder", "addTrack", "setProcessorParam",
           "addProcessor", "removeProcessor", "moveProcessor", "setClipStart", "setClipTiming",
           "setClipBounds", "addClip", "deleteClip", "setClipScene",
           "toggleNote", "addScene", "deleteScene", "addAutomationLane",
           "deleteAutomationLane", "setAutomationLaneEnabled", "addAutomationPoint"}
  RemoteTypes = {"setTrackGain", "setProcessorParam", "addProcessor", "removeProcessor",
                 "setClipStart", "addClip", "deleteClip", "setClipScene", "deleteTrack"}
  Value = {0, 1}
  Length = {1, 2}
  MaxEntries = 2
  MaxEdits = 2
  MaxIds = 14
CHECK_DEADLOCK FALSE
INVARIANT HistoryIsExact
PROPERTY RemoteWorkSurvives
