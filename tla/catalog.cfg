SPECIFICATION Spec
CONSTANTS
  Paths <- MCPaths
  SecretContents <- MCSecretContents
  SecretPlaces <- MCSecretPlaces
  MaxSecrets = 2
  EnvironmentValues <- MCEnvironmentValues
  Schemas = {"mysqlscanner", "other"}
  Tables = {"t"}
  Indexes = {"i"}
  DuckTypes <- MCDuckTypes
  Constraints <- MCConstraints
  ServerColumns <- MCServerColumns
  LaterColumns <- MCLaterColumns
  MaxColumns = 2
  MaxChanges = 2
INVARIANTS TypeOK SourcesInOrder RefusedForACause ConnectsWhereTold DefaultIsSession
INVARIANTS SchemasCoherent CachedAsLoaded ScansReadTrue QueryAgreesWithScan IndexEntriesExist
CHECK_DEADLOCK FALSE
