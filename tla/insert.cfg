SPECIFICATION Spec
CONSTANTS
  NumColumns = 2
  OneValue = x
  OtherValue = y
  Values = {x, y}
  DefaultValue = d
  Tables <- Contents
  Inserts <- SafeInserts
  RowSizes = {3, 5}
  VectorSize = 2
  FlushSize = 8
  Faults = {"execute"}
INVARIANTS TypeOK EveryRowOnce CountIsRows ValuesBounded InsertsSelection
CHECK_DEADLOCK FALSE
