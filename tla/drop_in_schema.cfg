SPECIFICATION Spec
CONSTANTS
  Clients = {c1}
  Schemas = {main, other}
  DefaultSchema = main
  Names = {a}
  TableNames = {a}
  ViewNames = {}
  BaseTables = {d1}
  Views = {}
  Absent = Absent
  NoColumns = NoColumns
  Objects <- Kinds
  Statements <- ShrinkingStatements
  OtherClients = FALSE
  Faults = {}
INVARIANTS ErasedIsGone
