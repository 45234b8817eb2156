SPECIFICATION Spec
CONSTANTS
  Txns = {t1}
  Sessions = {s1, s2, s3}
  NoSession = NoSession
  Writes = {w1}
  Statements <- CancelPlans
  QueryTexts = {"select"}
  MaxRows = 2
  AccessMode = "READ_WRITE"
  SessionTimeZone = FALSE
  Faults = {"stream_error"}
INVARIANT ScanDeliversAll
CHECK_DEADLOCK FALSE
