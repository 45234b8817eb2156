SPECIFICATION FairSpec
CONSTANTS
  Txns = {t1, t2}
  Sessions = {s1, s2, s3}
  NoSession = NoSession
  Writes = {w1}
  Statements <- ReadPlans
  QueryTexts = {"select", "write"}
  MaxRows = 2
  AccessMode = "READ_ONLY"
  SessionTimeZone = TRUE
  Faults = {"refuse", "lose", "reject", "deadlock", "stream_error"}
INVARIANTS ReadOnlyHolds CommandsAreCovered
PROPERTY StatementEnds
CHECK_DEADLOCK FALSE
