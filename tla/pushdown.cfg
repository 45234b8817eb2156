SPECIFICATION Spec
CONSTANTS
  here = here
  there = there
  NULL = NULL
  Catalogs <- Databases
  Contents <- TheTable
  Plans <- CheckedPlans
  VectorSize = 2
  MaxRuns = 2
INVARIANTS TypeOK AnswerIsRight WriteIsRight NoCommandIsRefused
CHECK_DEADLOCK FALSE
