SPECIFICATION Spec
CONSTANTS
  Tabs = 3
  MaxEvents = 3
  Urls <- Visits
  Crowd = FALSE
  Error = {0}
  Hasty = FALSE
CHECK_DEADLOCK FALSE
INVARIANTS
  NoStrayConnection
  AnchorsConverge
PROPERTIES
  SessionHolds
  ListenersHear
