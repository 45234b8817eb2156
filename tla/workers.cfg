SPECIFICATION FairSpec
CONSTANTS
  Threads = {a, b}
  NoThread = NoThread
  Columns = {1, 2}
  MaxStatements = 2
  MaxVersion = 2
  Faults = {"reject", "lose", "fetch"}
INVARIANTS TypeOK ResultsAreOwn OneSnapshot FailsForACause
PROPERTY TasksEnd
CHECK_DEADLOCK FALSE
