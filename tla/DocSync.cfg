SPECIFICATION FairSpec
CONSTANTS
  t1 = t1
  t2 = t2
  e1 = e1
  Tab = {t1}
  Engine = {e1}
  Capacity = 1
  AbandonMidway = FALSE
  MaxChanges = 2
  MaxFailures = 1
CHECK_DEADLOCK FALSE
INVARIANTS
  DurableAndClosed
  EditsSurvive
  HeldBackMeansResync
PROPERTY
  Convergence
