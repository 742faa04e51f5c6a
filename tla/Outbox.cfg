SPECIFICATION MailSpec
CONSTANTS
  t1 = t1
  t2 = t2
  Tab = {t1, t2}
  Change = {1, 2}
  Parallel = FALSE
  QuotaFails = FALSE
  MaxBreaks = 1
CHECK_DEADLOCK FALSE
INVARIANT QueuedIsKept
PROPERTY OrphansDelivered
