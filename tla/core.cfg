SPECIFICATION Spec
CONSTANTS
  Txns = {t1, t2}
  Sessions = {s1, s2, s3}
  NoSession = NoSession
  Writes = {w1, w2}
  Statements <- AllPlans
  QueryTexts = {"select", "write"}
  MaxRows = 1
  AccessMode = "READ_WRITE"
  SessionTimeZone = TRUE
  Faults = {"refuse", "lose", "reject", "deadlock", "reply_lost", "stream_error"}
SYMMETRY AllSymmetry
INVARIANTS TypeOK Atomicity SessionsOwned ReadyWhenIdle NoOutOfSync
PROPERTY Implements
CHECK_DEADLOCK FALSE
