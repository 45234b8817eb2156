----------------------------- MODULE MySQLCatalog -----------------------------
(***************************************************************************)
(* The catalog of an attached database: the set of schemas, the sets of    *)
(* tables and of indexes each schema entry owns, and the definitions of    *)
(* the tables in them (MySQLCatalog, MySQLSchemaSet, MySQLSchemaEntry,     *)
(* MySQLTableSet, MySQLIndexSet).  One client runs one statement at a      *)
(* time, each in a transaction of its own; MySQLCatalogSet models what     *)
(* several clients do to one set, and DROP TABLE, RENAME and views.        *)
(***************************************************************************)
EXTENDS MySQLTypes, Sequences

CONSTANTS
  Schemas,       \* names of schemas
  Tables,        \* names of tables
  Indexes,       \* names of indexes
  DuckTypes,     \* the types of the columns CREATE and ALTER TABLE are given
  Constraints,   \* the sets of constraints of those of CREATE TABLE
  ServerColumns, \* the columns of the tables other programs have made
  LaterColumns,  \* those they still make
  MaxColumns,    \* bound: the columns of a table
  MaxChanges     \* bound: the statements that change the server

NoSchema == ""
IndexSchema == "mysqlscanner"  \* the name in the query of MySQLIndexSet::LoadEntries

ASSUME CatalogAssumption ==
  /\ LaterColumns \subseteq ServerColumns
  /\ \A column \in ServerColumns : IsTypeData(column)
  /\ \A type \in DuckTypes : IsLogicalType(type)
  /\ Constraints \subseteq SUBSET {"NOT NULL", "UNIQUE", "PRIMARY KEY"}
  /\ IndexSchema \in Schemas /\ NoSchema \notin Schemas
  /\ MaxColumns \in Nat \ {0} /\ MaxChanges \in Nat

VARIABLES
  server,          \* its schemas with their tables, and its indexes
  cache,           \* the set of schemas: loaded or not, and its entries
  default_schema,  \* MySQLCatalog::default_schema
  database,        \* the database of the session: what unqualified names mean
  settings,        \* mysql_tinyint1_as_boolean, mysql_bit1_as_boolean
  changes,         \* statements that changed the server
  outdated         \* auxiliary: the server changed without the cache

catalogVars == <<server, cache, default_schema, database, settings, changes, outdated>>

\* A column of a table, on the server or in an entry: its type there, and does
\* it refuse NULL.
TableColumn(type, notNull) == [type |-> type, notNull |-> notNull]

\* An entry of a set of tables; "made" (auxiliary) if CREATE TABLE entered it.
Definition(columns, made) == [columns |-> columns, made |-> made]

\* Functions on names: none, one with a value put at x, and f with what g has
\* for other names ("entries.insert" leaves what is there).
None == [x \in {} |-> x]

Put(f, x, value) == [y \in DOMAIN f \cup {x} |-> IF y = x THEN value ELSE f[y]]

Insert(f, g) == [x \in DOMAIN f \cup DOMAIN g |-> IF x \in DOMAIN f THEN f[x] ELSE g[x]]

InsertOne(f, x, value) == Insert(f, [y \in {x} |-> value])

EmptySet    == [loaded |-> FALSE, entries |-> None]
EmptySchema == [tables |-> EmptySet, indexes |-> EmptySet]

CatalogTypeOK ==
  /\ DOMAIN server.schemas \subseteq Schemas
  /\ \A s \in DOMAIN server.schemas : \A t \in DOMAIN server.schemas[s] :
       t \in Tables /\ Len(server.schemas[s][t]) \in 1..MaxColumns
  /\ \A i \in server.indexes :
       i.schema \in DOMAIN server.schemas /\ i.table \in DOMAIN server.schemas[i.schema]
  /\ cache.loaded \in BOOLEAN /\ DOMAIN cache.entries \subseteq Schemas
  /\ \A s \in DOMAIN cache.entries :
       /\ DOMAIN cache.entries[s].tables.entries \subseteq Tables
       /\ DOMAIN cache.entries[s].indexes.entries \subseteq Indexes
  /\ database \in Schemas \cup {NoSchema}
  /\ settings \in Settings
  /\ changes \in 0..MaxChanges
  /\ outdated \in BOOLEAN

\* What other programs have made of the server.
Contents ==
  {[schemas |-> Put(None, IndexSchema, [t \in Tables |-> <<TableColumn(column, FALSE)>>]),
    indexes |-> {}] : column \in ServerColumns}

CatalogInit ==
  /\ server = [schemas |-> None, indexes |-> {}]
  /\ cache = EmptySet
  /\ default_schema = NoSchema /\ database = NoSchema
  /\ settings = [tinyint1 |-> TRUE, bit1 |-> TRUE]
  /\ changes = 0
  /\ outdated = FALSE
-----------------------------------------------------------------------------
\* Every transaction opens a connection, to the database of the attachment.
Connects == database = NoSchema \/ database \in DOMAIN server.schemas

Change ==
  /\ changes < MaxChanges
  /\ changes' = changes + 1

\* What a set is after LoadEntries: entries that are there already stay.
Load(set, rows) == [loaded |-> TRUE, entries |-> Insert(set.entries, rows)]

LoadSchemas ==
  IF cache.loaded THEN cache
  ELSE Load(cache, [s \in DOMAIN server.schemas |-> EmptySchema])

\* A column as MySQLTableSet::AddColumn reads it.
LoadColumn(column) ==
  [type |-> TypeToLogicalType(settings, column.type), notNull |-> column.notNull]

LoadedTable(columns) ==
  Definition([i \in DOMAIN columns |-> LoadColumn(columns[i])], FALSE)

ServerTables(s) == IF s \in DOMAIN server.schemas THEN server.schemas[s] ELSE None

\* The sets of the schemas after the tables of s were asked for.
LoadTables(c, s) ==
  IF c.entries[s].tables.loaded THEN c
  ELSE [c EXCEPT !.entries[s].tables =
          Load(@, [t \in DOMAIN ServerTables(s) |-> LoadedTable(ServerTables(s)[t])])]

(***************************************************************************)
(* The sets after the indexes of s were asked for: whatever s is, the rows *)
(* are those of IndexSchema, and of two with one name the first one read.  *)
(***************************************************************************)
LoadIndexes(c, s) ==
  LET rows  == {i \in server.indexes : i.schema = IndexSchema}
      names == {i.name : i \in rows}
      choices == {f \in [names -> Tables] :
                    \A n \in names : \E i \in rows : i.name = n /\ i.table = f[n]}
  IN IF c.entries[s].indexes.loaded THEN {c}
     ELSE {[c EXCEPT !.entries[s].indexes = Load(@, f)] : f \in choices}

\* Mutant of EraseEntry: the entry stays.
KeepSchema(c, s) == c

\* EraseEntryInternal: the sets of a schema die with its entry.
EraseEntry(c, s) ==
  [c EXCEPT !.entries = [x \in DOMAIN @ \ {s} |-> @[x]]]

WithoutSchema(s) ==
  [schemas |-> [x \in DOMAIN server.schemas \ {s} |-> server.schemas[x]],
   indexes |-> {i \in server.indexes : i.schema # s}]

\* The schema a statement names; it throws for no name without a default.
Named(s) == IF s = NoSchema THEN default_schema ELSE s

\* LookupSchema finds an entry.
Finds(s) == Named(s) \in DOMAIN LoadSchemas.entries

\* A statement that does no more than load what it looks up.
LooksUp(loaded) ==
  /\ Connects
  /\ cache' = loaded
  /\ UNCHANGED <<server, default_schema, database, settings, changes, outdated>>
-----------------------------------------------------------------------------
\* A statement whose schema does not exist; without a default not even the
\* schemas are loaded.
MissSchema(s) ==
  /\ ~Finds(s)
  /\ LooksUp(IF Named(s) = NoSchema THEN cache ELSE LoadSchemas)

\* SELECT from a table of s, and every CREATE TABLE, CREATE INDEX and ALTER
\* TABLE that fails: an unsupported type, an error of the server.
UseTables(s) == Finds(s) /\ LooksUp(LoadTables(LoadSchemas, Named(s)))

\* A list of the indexes of s, and a DROP INDEX that fails.
UseIndexes(s) ==
  Finds(s) /\ \E loaded \in LoadIndexes(LoadSchemas, Named(s)) : LooksUp(loaded)

(***************************************************************************)
(* CREATE [OR REPLACE] SCHEMA.  IF NOT EXISTS is not looked at.  The       *)
(* second command can fail after the first.                                *)
(***************************************************************************)
CreateSchema(s, replace) ==
  LET dropped == IF replace THEN WithoutSchema(s) ELSE server
      erased  == IF replace THEN EraseEntry(cache, s) ELSE cache
  IN /\ Connects /\ Change
     /\ \/ /\ s \notin DOMAIN dropped.schemas
           /\ server' = [dropped EXCEPT !.schemas = Put(@, s, None)]
           /\ cache' = [erased EXCEPT !.entries = InsertOne(@, s, EmptySchema)]
        \/ replace /\ server' = dropped /\ cache' = erased
     /\ UNCHANGED <<default_schema, database, settings, outdated>>

\* DROP SCHEMA: the entry goes when the server has dropped the schema.
DropSchema(s, ifExists) ==
  /\ Connects /\ Change
  /\ s \in DOMAIN server.schemas \/ ifExists
  /\ server' = WithoutSchema(s)
  /\ cache' = EraseEntry(cache, s)
  /\ UNCHANGED <<default_schema, database, settings, outdated>>

\* The column DuckDB takes one of CREATE TABLE for.
Entered(column) ==
  TableColumn(ToMySQLType(column.type), column.constraints \cap {"NOT NULL", "PRIMARY KEY"} # {})

\* The text of a column of CREATE TABLE: NOT NULL is left to a primary key.
ColumnToSQL(column) ==
  [type |-> TypeToString(ToMySQLType(column.type)),
   words |-> IF "PRIMARY KEY" \in column.constraints
             THEN column.constraints \ {"NOT NULL"} ELSE column.constraints]

\* The column MySQL makes of it; it has no keys on texts of any length.
Made(text) ==
  LET type == Declared(text.type)
      long == type.typeName \in {"text", "blob"} /\ text.words \cap {"UNIQUE", "PRIMARY KEY"} # {}
  IN TableColumn(IF long THEN Refused ELSE type, text.words \cap {"NOT NULL", "PRIMARY KEY"} # {})

(***************************************************************************)
(* CREATE TABLE [IF NOT EXISTS].  The planner looks the table up first.    *)
(* The types are converted before the table is created and entered, with   *)
(* the definition DuckDB has of it.                                        *)
(***************************************************************************)
CreateTable(s, t, columns, ifNotExists) ==
  LET schema == Named(s)
      loaded == LoadTables(LoadSchemas, schema)
      made   == [i \in DOMAIN columns |-> Made(ColumnToSQL(columns[i]))]
      valid  == \A i \in DOMAIN made : columns[i].type.id \notin UnsupportedIds
                                       /\ made[i].type # Refused
      entered == [loaded EXCEPT !.entries[schema].tables.entries =
                    InsertOne(@, t, Definition([i \in DOMAIN columns |-> Entered(columns[i])], TRUE))]
  IN /\ Connects /\ Change
     /\ Finds(s) /\ valid /\ schema \in DOMAIN server.schemas
     /\ \/ /\ t \notin DOMAIN ServerTables(schema)
           /\ server' = [server EXCEPT !.schemas[schema] = Put(@, t, made)]
        \/ /\ t \in DOMAIN ServerTables(schema) /\ ifNotExists
           /\ UNCHANGED server
     /\ cache' = entered
     /\ UNCHANGED <<default_schema, database, settings, outdated>>

(***************************************************************************)
(* ALTER TABLE ... ADD COLUMN names no schema, so that it changes the      *)
(* table of that name in the database of the session.  The set of the      *)
(* schema that was named is cleared.                                       *)
(***************************************************************************)
AddColumn(s, t, type) ==
  LET schema == Named(s)
      loaded == LoadTables(LoadSchemas, schema)
      column == TableColumn(Declared(LogicalTypeToString(type)), FALSE)
  IN /\ Connects /\ Change
     /\ Finds(s) /\ t \in DOMAIN loaded.entries[schema].tables.entries
     /\ column.type # Refused /\ t \in DOMAIN ServerTables(database)
     /\ Len(ServerTables(database)[t]) < MaxColumns
     /\ server' = [server EXCEPT !.schemas[database][t] = Append(@, column)]
     /\ cache' = [loaded EXCEPT !.entries[schema].tables = EmptySet]
     /\ outdated' = (outdated \/ schema # database)
     /\ UNCHANGED <<default_schema, database, settings>>

\* CREATE INDEX enters nothing, and its table is one of the session's database.
CreateIndex(s, t, name) ==
  LET loaded == LoadTables(LoadSchemas, Named(s))
  IN /\ Connects /\ Change
     /\ Finds(s) /\ t \in DOMAIN loaded.entries[Named(s)].tables.entries
     /\ t \in DOMAIN ServerTables(database)
     /\ \A i \in server.indexes : i.schema = database /\ i.table = t => i.name # name
     /\ server' = [server EXCEPT !.indexes =
                     @ \cup {[schema |-> database, table |-> t, name |-> name]}]
     /\ cache' = loaded
     /\ UNCHANGED <<default_schema, database, settings, outdated>>

\* Mutant of DropIndex: the entry is not erased.
DropIndexOnly(s, name) ==
  Finds(s) /\ \E loaded \in LoadIndexes(LoadSchemas, Named(s)) :
    LET entries == loaded.entries[Named(s)].indexes.entries
        index   == [schema |-> database, table |-> entries[name], name |-> name]
    IN /\ Connects /\ Change
       /\ name \in DOMAIN entries /\ index \in server.indexes
       /\ server' = [server EXCEPT !.indexes = @ \ {index}]
       /\ cache' = loaded
       /\ outdated' = (outdated \/ Named(s) # database)
       /\ UNCHANGED <<default_schema, database, settings>>

(***************************************************************************)
(* DROP INDEX finds the table of an index in the set of the schema, and    *)
(* drops the index of that name on the table of that name in the session's *)
(* database.                                                               *)
(***************************************************************************)
DropIndex(s, name) ==
  Finds(s) /\ \E loaded \in LoadIndexes(LoadSchemas, Named(s)) :
    LET entries == loaded.entries[Named(s)].indexes.entries
        index   == [schema |-> database, table |-> entries[name], name |-> name]
        others  == [n \in DOMAIN entries \ {name} |-> entries[n]]
    IN /\ Connects /\ Change
       /\ name \in DOMAIN entries /\ index \in server.indexes
       /\ server' = [server EXCEPT !.indexes = @ \ {index}]
       /\ cache' = [loaded EXCEPT !.entries[Named(s)].indexes.entries = others]
       /\ outdated' = (outdated \/ Named(s) # database)
       /\ UNCHANGED <<default_schema, database, settings>>

\* mysql_clear_cache(): the sets of every schema die with the entries.
ClearCache ==
  /\ cache' = EmptySet
  /\ outdated' = FALSE
  /\ UNCHANGED <<server, default_schema, database, settings, changes>>

\* Mutant of Set: the cache is not cleared.
SetOnly(setting, value) ==
  /\ settings' = [settings EXCEPT ![setting] = value]
  /\ UNCHANGED <<server, cache, default_schema, database, changes, outdated>>

\* SET mysql_tinyint1_as_boolean or mysql_bit1_as_boolean clears it.
Set(setting, value) ==
  /\ settings' = [settings EXCEPT ![setting] = value]
  /\ cache' = EmptySet
  /\ outdated' = FALSE
  /\ UNCHANGED <<server, default_schema, database, changes>>

\* Another program changes the server.
External ==
  /\ Change
  /\ outdated' = TRUE
  /\ \/ \E s \in Schemas \ DOMAIN server.schemas :
          server' = [server EXCEPT !.schemas = Put(@, s, None)]
     \/ \E s \in DOMAIN server.schemas : server' = WithoutSchema(s)
     \/ \E s \in DOMAIN server.schemas, t \in Tables, column \in LaterColumns :
          server' = [server EXCEPT
                       !.schemas[s] = Put(@, t, <<TableColumn(column, TRUE)>>)]
  /\ UNCHANGED <<cache, default_schema, database, settings>>

\* The column lists of CREATE TABLE.
Columns ==
  {<<[type |-> type, constraints |-> constraints]>> :
     type \in DuckTypes, constraints \in Constraints}

CatalogNext ==
  \/ \E s \in Schemas \cup {NoSchema} :
       \/ MissSchema(s) \/ UseTables(s) \/ UseIndexes(s)
       \/ \E t \in Tables :
            \/ \E columns \in Columns, ifNotExists \in BOOLEAN :
                 CreateTable(s, t, columns, ifNotExists)
            \/ \E type \in DuckTypes : AddColumn(s, t, type)
            \/ \E name \in Indexes : CreateIndex(s, t, name)
       \/ \E name \in Indexes : DropIndex(s, name)
  \/ \E s \in Schemas, flag \in BOOLEAN : CreateSchema(s, flag) \/ DropSchema(s, flag)
  \/ \E setting \in {"tinyint1", "bit1"}, value \in BOOLEAN : Set(setting, value)
  \/ ClearCache \/ External
-----------------------------------------------------------------------------
\* The schemas of the cache, where nothing changed without it, and the tables
\* in the set of one.
CachedSchemas == IF outdated THEN {} ELSE DOMAIN cache.entries

CachedTables(s) == DOMAIN cache.entries[s].tables.entries

Cached(s, t) == cache.entries[s].tables.entries[t]

(***************************************************************************)
(* Unless the server changed without the cache: the schemas in it exist,   *)
(* and the tables in theirs; a loaded set has all of them.  A schema that  *)
(* was dropped and created again keeps nothing of what it had.             *)
(***************************************************************************)
SchemasCoherent ==
  ~outdated =>
    /\ DOMAIN cache.entries \subseteq DOMAIN server.schemas
    /\ cache.loaded => DOMAIN cache.entries = DOMAIN server.schemas
    /\ \A s \in DOMAIN cache.entries :
         LET tables == cache.entries[s].tables IN
         /\ DOMAIN tables.entries \subseteq DOMAIN server.schemas[s]
         /\ tables.loaded => DOMAIN tables.entries = DOMAIN server.schemas[s]

\* A BOOLEAN column of a table DuckDB created stays one whatever the setting.
StaysBoolean(definition, i, column) ==
  definition.made /\ definition.columns[i].type = Type("BOOLEAN") /\ ~settings.tinyint1
    /\ column.type = Column("tinyint", 1, FALSE)

(***************************************************************************)
(* The definition of a cached table is the one that loading it under the   *)
(* current settings would give, whether a load or CREATE TABLE entered it: *)
(* what CREATE TABLE converts a type to comes back as what it entered.     *)
(***************************************************************************)
CachedAsLoaded ==
  \A s \in CachedSchemas : \A t \in CachedTables(s) :
    LET cached == Cached(s, t)
        loaded == LoadedTable(server.schemas[s][t])
    IN /\ DOMAIN cached.columns = DOMAIN loaded.columns
       /\ \A i \in DOMAIN loaded.columns :
            \/ cached.columns[i] = loaded.columns[i]
            \/ StaysBoolean(cached, i, server.schemas[s][t][i])

IsInteger(type) ==
  type.id \in {SignedType[name] : name \in DOMAIN SignedType}
              \cup {UnsignedType[name] : name \in DOMAIN UnsignedType}

(***************************************************************************)
(* A scan through a cached definition shows the values of integer and      *)
(* boolean columns at the ends of their ranges as they are: the cast of    *)
(* their text, whose failure nobody reports, does not fail.                *)
(***************************************************************************)
ScansReadTrue ==
  \A s \in CachedSchemas : \A t \in CachedTables(s) :
    \A i \in DOMAIN Cached(s, t).columns :
      LET type   == Cached(s, t).columns[i].type
          column == server.schemas[s][t][i].type
      IN column.typeName \in DOMAIN Width =>
           /\ IsInteger(type) =>
                \A v \in Extremes(column) : ScanInteger(type, v) = v
           /\ type = Type("BOOLEAN") =>
                \A v \in Extremes(column) :
                  CastBoolFromMySQL(Text(column, v)) = (v # Zero /\ ~v.negative)

(***************************************************************************)
(* With the boolean settings off, mysql_query gives the columns of a table *)
(* the types the table has in the catalog, but for decimals without a      *)
(* scale or a sign, whose precision it takes to be smaller.                *)
(***************************************************************************)
QueryAgreesWithScan ==
  ~settings.tinyint1 /\ ~settings.bit1 =>
    \A s \in DOMAIN server.schemas : \A t \in DOMAIN server.schemas[s] :
      \A i \in DOMAIN server.schemas[s][t] :
        LET column == server.schemas[s][t][i].type
            narrow == column.typeName = "decimal" /\ (column.scale = 0 \/ column.unsigned)
        IN \A maxLength \in 0..2 :
             \/ narrow
             \/ FieldToLogicalType(settings, FieldOf(column, maxLength))
                  = TypeToLogicalType(settings, column)

(***************************************************************************)
(* The indexes a client sees in the schema the loads read are on the       *)
(* server, unless it changed without the cache.                            *)
(***************************************************************************)
IndexEntriesExist ==
  ~outdated /\ IndexSchema \in DOMAIN cache.entries =>
    LET entries == cache.entries[IndexSchema].indexes.entries IN
    \A n \in DOMAIN entries :
      [schema |-> IndexSchema, table |-> entries[n], name |-> n] \in server.indexes
=============================================================================
