SPECIFICATION Spec
CONSTANTS
  Clients = {c1, c2}
  Schemas = {main}
  DefaultSchema = main
  Names = {a, v}
  TableNames = {a}
  ViewNames = {v}
  BaseTables = {d1, d2}
  Views = {w1}
  Absent = Absent
  NoColumns = NoColumns
  Objects <- Kinds
  Statements <- GrowingStatements
  OtherClients = FALSE
  Faults = {"ddl"}
INVARIANTS CacheCoherent
