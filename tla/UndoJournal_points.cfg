SPECIFICATION Spec
CONSTANTS
  Absent = Absent
  DefaultTempo = 0
  Start <- Plain
  Types = {"addAutomationPoint"}
  RemoteTypes = {"addAutomationPoint"}
  Value = {0, 1, 2}
  Length = {1, 2}
  MaxEntries = 2
  MaxEdits = 2
  MaxIds = 14
CHECK_DEADLOCK FALSE
PROPERTY RemoteWorkSurvives
