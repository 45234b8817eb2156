SPECIFICATION Spec
CONSTANTS
  Txns = {t1}
  Sessions = {s1, s2, s3}
  NoSession = NoSession
  Writes = {w1, w2}
  Statements <- CancelPlans
  QueryTexts = {"select"}
  MaxRows = 2
  AccessMode = "READ_WRITE"
  SessionTimeZone = FALSE
  Faults = {}
INVARIANT CommittedIsDurable
CHECK_DEADLOCK FALSE
