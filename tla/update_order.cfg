SPECIFICATION Spec
CONSTANTS
  here = here
  there = there
  NULL = NULL
  Catalogs <- Databases
  Contents <- TheTable
  Plans <- ColumnSwap
  VectorSize = 2
  MaxRuns = 2
INVARIANT WriteIsRight
CHECK_DEADLOCK FALSE
