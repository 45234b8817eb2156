SPECIFICATION Spec
CONSTANTS
  Clients = {c1}
  Schemas = {main}
  DefaultSchema = main
  Names = {a, b, v}
  TableNames = {a, b}
  ViewNames = {v}
  BaseTables = {d1, d2}
  Views = {w1}
  Absent = Absent
  NoColumns = NoColumns
  Objects <- Kinds
  Statements <- SerialStatements
  OtherClients = TRUE
  Faults = {"ddl"}
INVARIANTS TypeOK CacheCoherent LookupsAreRecent ErasedIsGone
