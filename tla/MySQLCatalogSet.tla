--------------------------- MODULE MySQLCatalogSet ---------------------------
(***************************************************************************)
(* The schema cache: the MySQLTableSet of every schema, shared by all      *)
(* clients, loaded by the first lookup and changed along with the server   *)
(* by CREATE, DROP and ALTER (src/src/storage: mysql_catalog_set.cpp,      *)
(* mysql_table_set.cpp, mysql_schema_entry.cpp, mysql_clear_cache.cpp).    *)
(*                                                                         *)
(* entry_lock makes a find, an insert and an erase one step each.          *)
(* Everything between them interleaves with the other clients: is_loaded   *)
(* is read and written without the lock, and commands to the server run    *)
(* without it.  A definition (columns and their types) is one value.       *)
(***************************************************************************)
EXTENDS FiniteSets

CONSTANTS
  Clients,        \* threads that bind and run statements
  Schemas,        \* MySQL databases
  DefaultSchema,  \* the database the sessions of the catalog are in
  Names,          \* of tables and views
  BaseTables,     \* the definitions a table can have
  Views,          \* the definitions a view can have
  Absent,         \* no such table or view
  NoColumns,      \* the entry of a table the server knows nothing of
  Objects,        \* the definitions each name has before, or from elsewhere
  Statements,     \* what clients run: a set of StatementType records
  OtherClients,   \* do other programs change the schema as well
  Faults          \* subset of {"load", "ddl"}: commands that may fail

Definitions == BaseTables \cup Views

(***************************************************************************)
(* A statement that touches the catalog.  "conflict" is IF [NOT] EXISTS    *)
(* ("ignore"), OR REPLACE ("replace") or neither ("error"); "view" tells   *)
(* CREATE / DROP VIEW from TABLE; "to" is the new name of a RENAME (else   *)
(* the name itself), "definition" what CREATE or ALTER make of it.         *)
(***************************************************************************)
StatementType ==
  [kind : {"lookup", "create", "drop", "alter", "clear"}, view : BOOLEAN,
   schema : Schemas, name : Names, to : Names,
   definition : Definitions \cup {NoColumns},
   conflict : {"error", "ignore", "replace"}]

ASSUME ConstantsAssumption ==
  /\ DefaultSchema \in Schemas
  /\ Absent \notin Definitions /\ NoColumns \notin Definitions \cup {Absent}
  /\ BaseTables \cap Views = {}
  /\ Objects \in [Names -> SUBSET Definitions]
  /\ Statements \subseteq StatementType /\ Statements # {}
  /\ \A st \in Statements :
       st.kind = "create" \/ (st.kind = "alter" /\ st.to = st.name)
         => st.definition \in Definitions
  /\ OtherClients \in BOOLEAN
  /\ Faults \subseteq {"load", "ddl"}

VARIABLES
  tables,    \* the server: the tables and views of each schema
  entries,   \* MySQLCatalogSet::entries of each schema's table set
  isLoaded,  \* MySQLCatalogSet::is_loaded
  pc,        \* where each client is in its statement
  stmt,      \* the statement it runs
  pending,   \* the entries it is about to insert
  possible,  \* auxiliary: what its name stood for since the statement began
  outdated   \* auxiliary: the schema was changed from elsewhere since a clear

cacheVars == <<entries, isLoaded>>
vars == <<tables, entries, isLoaded, pc, stmt, pending, possible, outdated>>

Contents == [Schemas -> [Names -> Definitions \cup {Absent}]]
Nothing  == [n \in Names |-> Absent]

TypeOK ==
  /\ tables \in Contents
  /\ entries \in [Schemas -> [Names -> Definitions \cup {Absent, NoColumns}]]
  /\ isLoaded \in [Schemas -> BOOLEAN]
  /\ pc \in [Clients -> {"idle", "checking", "marking", "querying", "inserting",
                         "finding", "dropping", "erasing", "executing",
                         "refreshing", "caching", "clearing"}]
  /\ stmt \in [Clients -> Statements]
  /\ pending \in [Clients -> [Names -> Definitions \cup {Absent, NoColumns}]]
  /\ possible \in [Clients -> SUBSET (Definitions \cup {Absent})]
  /\ outdated \in BOOLEAN

\* The server may hold any schema; the sets are constructed empty.
Init ==
  /\ tables \in {f \in Contents : \A s \in Schemas, n \in Names :
                   f[s][n] \in Objects[n] \cup {Absent}}
  /\ entries = [s \in Schemas |-> Nothing]
  /\ isLoaded = [s \in Schemas |-> FALSE]
  /\ pc = [c \in Clients |-> "idle"]
  /\ stmt = [c \in Clients |-> CHOOSE st \in Statements : TRUE]
  /\ pending = [c \in Clients |-> Nothing]
  /\ possible = [c \in Clients |-> {}]
  /\ outdated = FALSE
-----------------------------------------------------------------------------
Goto(c, where) == pc' = [pc EXCEPT ![c] = where]

\* What the name of the statement of c stands for in a catalog or a cache.
At(contents, c) == contents[stmt[c].schema][stmt[c].name]

\* The server's schema becomes new.
SetTables(new) ==
  /\ tables' = new
  /\ possible' = [c \in Clients |->
       IF pc[c] = "idle" THEN {} ELSE possible[c] \cup {At(new, c)}]

\* MySQLCatalogSet::CreateEntry: insert leaves an entry of that name alone.
CreateEntry(s, n, definition) ==
  entries' = [entries EXCEPT ![s][n] = IF @ = Absent THEN definition ELSE @]

\* EraseEntryInternal
EraseEntry(s, n) == entries' = [entries EXCEPT ![s][n] = Absent]

\* The database a statement reaches: only CREATE TABLE names it, all other
\* DDL is sent with the bare name and falls on the session's own.
Target(st) ==
  IF st.kind = "create" /\ ~st.view THEN st.schema ELSE DefaultSchema
-----------------------------------------------------------------------------
(***************************************************************************)
(* A client begins a statement.  DuckDB looks the name up before it plans  *)
(* any of them but CREATE VIEW, which looks it up itself unless it may     *)
(* fail on an existing one.                                                *)
(***************************************************************************)
Begin(c) ==
  /\ pc[c] = "idle"
  /\ \E st \in Statements :
       /\ stmt' = [stmt EXCEPT ![c] = st]
       /\ possible' = [possible EXCEPT ![c] = {tables[st.schema][st.name]}]
       /\ Goto(c, IF st.kind = "clear" THEN "clearing"
                  ELSE IF st.kind = "create" /\ st.view /\ st.conflict = "error"
                       THEN "executing" ELSE "checking")
  /\ UNCHANGED <<tables, cacheVars, pending, outdated>>

\* GetEntry and Scan: "if (!is_loaded)".
Check(c) ==
  /\ pc[c] = "checking"
  /\ Goto(c, IF isLoaded[stmt[c].schema] THEN "finding" ELSE "marking")
  /\ UNCHANGED <<tables, cacheVars, stmt, pending, possible, outdated>>

\* "is_loaded = true", before LoadEntries.
Mark(c) ==
  /\ pc[c] = "marking"
  /\ isLoaded' = [isLoaded EXCEPT ![stmt[c].schema] = TRUE]
  /\ Goto(c, "querying")
  /\ UNCHANGED <<tables, entries, stmt, pending, possible, outdated>>

\* MySQLTableSet::LoadEntries reads information_schema; an exception leaves
\* is_loaded as it is.
QueryEntries(c) ==
  /\ pc[c] = "querying"
  /\ \/ /\ pending' = [pending EXCEPT ![c] = tables[stmt[c].schema]]
        /\ Goto(c, "inserting")
     \/ /\ "load" \in Faults
        /\ Goto(c, "idle")
        /\ UNCHANGED pending
  /\ UNCHANGED <<tables, cacheVars, stmt, possible, outdated>>

\* LoadEntries inserts what it read, one entry at a time.
InsertEntry(c) ==
  /\ pc[c] = "inserting"
  /\ \/ \E n \in Names :
          /\ pending[c][n] # Absent
          /\ CreateEntry(stmt[c].schema, n, pending[c][n])
          /\ pending' = [pending EXCEPT ![c][n] = Absent]
          /\ UNCHANGED pc
     \/ /\ pending[c] = Nothing
        /\ Goto(c, "finding")
        /\ UNCHANGED <<entries, pending>>
  /\ UNCHANGED <<tables, isLoaded, stmt, possible, outdated>>

(***************************************************************************)
(* "entries.find": the statement ends here, or goes on to its commands.    *)
(* DROP and ALTER of a name that is not found are refused or ignored, and  *)
(* so is CREATE VIEW IF NOT EXISTS of one that is.                         *)
(***************************************************************************)
Find(c) ==
  LET st == stmt[c]
      found == At(entries, c) # Absent
  IN
  /\ pc[c] = "finding"
  /\ Goto(c,
       IF st.kind = "create"
       THEN IF st.conflict = "replace" /\ (st.view => found) THEN "dropping"
            ELSE IF st.conflict = "ignore" /\ st.view /\ found THEN "idle"
            ELSE "executing"
       ELSE IF st.kind \in {"drop", "alter"} /\ found THEN "executing" ELSE "idle")
  /\ UNCHANGED <<tables, cacheVars, stmt, pending, possible, outdated>>
-----------------------------------------------------------------------------
(***************************************************************************)
(* What the server makes of a DDL command: is it accepted where "old" has  *)
(* the name, and what has the name afterwards.                             *)
(***************************************************************************)
Kind(st) == IF st.view THEN Views ELSE BaseTables

DropAccepted(st, old, ifExists) ==
  \/ old \in Kind(st)
  \/ ifExists /\ (old = Absent \/ ~st.view)

AfterDrop(st, old) == IF old \in Kind(st) THEN Absent ELSE old

CreateAccepted(st, old) ==
  old = Absent \/ (st.conflict = "ignore" /\ ~st.view)

AfterCreate(st, old) == IF old = Absent THEN st.definition ELSE old

\* DROP of the statement's name, as Target sends it.
DropOnServer(st, ifExists) ==
  LET old == tables[DefaultSchema][st.name] IN
  /\ DropAccepted(st, old, ifExists)
  /\ SetTables([tables EXCEPT ![DefaultSchema][st.name] = AfterDrop(st, old)])

CreateOnServer(st) ==
  LET old == tables[Target(st)][st.name] IN
  /\ CreateAccepted(st, old)
  /\ SetTables([tables EXCEPT ![Target(st)][st.name] = AfterCreate(st, old)])

\* Mutant of AlterOnServer: RENAME is taken for a change of columns.
RenameAsModify(st) ==
  /\ tables[DefaultSchema][st.name] \in BaseTables
  /\ SetTables([tables EXCEPT ![DefaultSchema][st.name] = st.definition])

\* ALTER TABLE ... RENAME TO, or one of its column changes.
AlterOnServer(st) ==
  LET old == tables[DefaultSchema][st.name] IN
  /\ old \in BaseTables
  /\ IF st.to = st.name
     THEN SetTables([tables EXCEPT ![DefaultSchema][st.name] = st.definition])
     ELSE /\ tables[DefaultSchema][st.to] = Absent
          /\ SetTables([tables EXCEPT ![DefaultSchema][st.name] = Absent,
                                      ![DefaultSchema][st.to] = old])

\* The command fails: an error of the server or a fault.
Refused(c, accepted) ==
  /\ ~accepted \/ "ddl" \in Faults
  /\ Goto(c, "idle")
  /\ UNCHANGED <<tables, possible, pending>>

\* Mutant of DropExisting: goes on to the cache whatever the server said.
DropBlindly(c) ==
  /\ pc[c] = "dropping"
  /\ \/ DropOnServer(stmt[c], TRUE)
     \/ /\ "ddl" \in Faults
        /\ UNCHANGED <<tables, possible>>
  /\ Goto(c, "erasing")
  /\ UNCHANGED <<cacheVars, stmt, pending, outdated>>

\* TryDropEntry of CREATE OR REPLACE: DROP ... IF EXISTS.
DropExisting(c) ==
  /\ pc[c] = "dropping"
  /\ \/ DropOnServer(stmt[c], TRUE) /\ Goto(c, "erasing") /\ UNCHANGED pending
     \/ Refused(c, DropAccepted(stmt[c], tables[DefaultSchema][stmt[c].name], TRUE))
  /\ UNCHANGED <<cacheVars, stmt, outdated>>

\* Mutant of Erase: the cache keeps what was dropped.
KeepEntry(c) ==
  /\ pc[c] = "erasing"
  /\ Goto(c, IF stmt[c].kind = "drop" THEN "idle" ELSE "executing")
  /\ UNCHANGED <<tables, cacheVars, stmt, pending, possible, outdated>>

\* DropEntry erases the entry once the server has dropped it.
Erase(c) ==
  /\ pc[c] = "erasing"
  /\ EraseEntry(stmt[c].schema, stmt[c].name)
  /\ Goto(c, IF stmt[c].kind = "drop" THEN "idle" ELSE "executing")
  /\ UNCHANGED <<tables, isLoaded, stmt, pending, possible, outdated>>

(***************************************************************************)
(* DropEntry, CreateTable, CreateView and AlterTable send their command    *)
(* and, if it is accepted, go on to the cache.                             *)
(***************************************************************************)
Execute(c) ==
  LET st == stmt[c] IN
  /\ pc[c] = "executing"
  /\ \/ /\ st.kind = "drop"
        /\ DropOnServer(st, st.conflict = "ignore")
        /\ Goto(c, "erasing")
        /\ UNCHANGED pending
     \/ /\ st.kind = "create"
        /\ CreateOnServer(st)
        /\ pending' = [pending EXCEPT ![c] = [Nothing EXCEPT ![st.name] = st.definition]]
        /\ Goto(c, IF st.view THEN "refreshing" ELSE "caching")
     \/ /\ st.kind = "alter"
        /\ AlterOnServer(st)
        /\ Goto(c, "clearing")
        /\ UNCHANGED pending
     \/ Refused(c, CASE st.kind = "drop" ->
                     DropAccepted(st, tables[DefaultSchema][st.name], st.conflict = "ignore")
                [] st.kind = "create" -> CreateAccepted(st, tables[Target(st)][st.name])
                [] OTHER -> /\ tables[DefaultSchema][st.name] \in BaseTables
                            /\ st.to # st.name => tables[DefaultSchema][st.to] = Absent)
  /\ UNCHANGED <<cacheVars, stmt, outdated>>

\* RefreshTable reads the view back from the schema of the entry.
Refresh(c) ==
  /\ pc[c] = "refreshing"
  /\ \/ /\ pending' = [pending EXCEPT ![c][stmt[c].name] =
                          IF At(tables, c) = Absent THEN NoColumns ELSE At(tables, c)]
        /\ Goto(c, "caching")
     \/ /\ "load" \in Faults
        /\ pending' = [pending EXCEPT ![c] = Nothing]
        /\ Goto(c, "idle")
  /\ UNCHANGED <<tables, cacheVars, stmt, possible, outdated>>

\* Mutant of Cache: the new table is not entered.
ForgetEntry(c) ==
  /\ pc[c] = "caching"
  /\ pending' = [pending EXCEPT ![c] = Nothing]
  /\ Goto(c, "idle")
  /\ UNCHANGED <<tables, cacheVars, stmt, possible, outdated>>

\* CreateTable and RefreshTable enter the new table or view.
Cache(c) ==
  /\ pc[c] = "caching"
  /\ CreateEntry(stmt[c].schema, stmt[c].name, pending[c][stmt[c].name])
  /\ pending' = [pending EXCEPT ![c] = Nothing]
  /\ Goto(c, "idle")
  /\ UNCHANGED <<tables, isLoaded, stmt, possible, outdated>>

\* Mutant of Clear: is_loaded is not reset.
ClearOnly(c) ==
  /\ pc[c] = "clearing"
  /\ entries' = [s \in Schemas |->
                   IF stmt[c].kind = "clear" \/ s = stmt[c].schema THEN Nothing ELSE entries[s]]
  /\ outdated' = (stmt[c].kind # "clear" /\ outdated)
  /\ Goto(c, "idle")
  /\ UNCHANGED <<tables, isLoaded, stmt, pending, possible>>

(***************************************************************************)
(* ClearEntries: ALTER clears the set of its schema, mysql_clear_cache the *)
(* set of schemas and with it all of their sets.                           *)
(***************************************************************************)
Clear(c) ==
  LET cleared == IF stmt[c].kind = "clear" THEN Schemas ELSE {stmt[c].schema} IN
  /\ pc[c] = "clearing"
  /\ entries' = [s \in Schemas |-> IF s \in cleared THEN Nothing ELSE entries[s]]
  /\ isLoaded' = [s \in Schemas |-> s \notin cleared /\ isLoaded[s]]
  /\ outdated' = (stmt[c].kind # "clear" /\ outdated)
  /\ Goto(c, "idle")
  /\ UNCHANGED <<tables, stmt, pending, possible>>

\* Another program, or the text of a mysql_execute, changes the schema.
External ==
  /\ OtherClients
  /\ \E s \in Schemas, n \in Names : \E d \in Objects[n] \cup {Absent} :
       SetTables([tables EXCEPT ![s][n] = d])
  /\ outdated' = TRUE
  /\ UNCHANGED <<cacheVars, pc, stmt, pending>>
-----------------------------------------------------------------------------
Client(c) ==
  \/ Begin(c) \/ Check(c) \/ Mark(c) \/ QueryEntries(c) \/ InsertEntry(c)
  \/ Find(c) \/ DropExisting(c) \/ Erase(c) \/ Execute(c) \/ Refresh(c)
  \/ Cache(c) \/ Clear(c)

Next == External \/ \E c \in Clients : Client(c)

Spec == Init /\ [][Next]_vars
-----------------------------------------------------------------------------
Quiet == \A c \in Clients : pc[c] = "idle"

(***************************************************************************)
(* README.md, "Schema Cache": the cache is only outdated by changes made   *)
(* elsewhere.  Otherwise, when no statement is running, what is cached is  *)
(* what the server has, and a loaded set has all of it.                    *)
(***************************************************************************)
CacheCoherent ==
  Quiet /\ ~outdated =>
    \A s \in Schemas :
      /\ \A n \in Names : entries[s][n] \in {Absent, tables[s][n]}
      /\ isLoaded[s] => entries[s] = tables[s]

(***************************************************************************)
(* A lookup finds what its name stood for at some moment since the         *)
(* statement began (unless the schema was changed elsewhere): it never     *)
(* misses a table that exists and never finds one that is gone.            *)
(***************************************************************************)
LookupsAreRecent ==
  \A c \in Clients :
    pc[c] = "finding" /\ ~outdated => At(entries, c) \in possible[c]

(***************************************************************************)
(* An entry is erased from the cache after the table it describes is gone  *)
(* (README.md, "DROP TABLE").                                              *)
(***************************************************************************)
ErasedIsGone ==
  \A c \in Clients : pc[c] = "erasing" /\ ~outdated => At(tables, c) = Absent
=============================================================================
