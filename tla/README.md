# Verification of duckdb-mysql

duckdb-mysql lets DuckDB attach a MySQL database as a catalog. Its code is
small, but it sits between two systems with rules of their own: DuckDB's
transactions, catalog and parallel executor on one side, MySQL's sessions,
implicit commits and one-result-at-a-time protocol on the other. These
modules describe what the code in `src/src` does between the two. TLC checks
them on small instances and TLAPS proves the central properties for every
value of the constants.

## The system

| Component | Source (`src/src/`) | State it keeps | Operations |
|---|---|---|---|
| Transaction manager | `storage/mysql_transaction_manager.cpp` | `transactions`, one entry per DuckDB transaction | StartTransaction, CommitTransaction, RollbackTransaction, Checkpoint |
| Transaction | `storage/mysql_transaction.cpp` | `transaction_state`, its connection, access mode | Start, GetConnection, Query, Commit, Rollback |
| Connection | `mysql_connection.cpp` | the `MYSQL*` handle (shared), its DSN, `query_lock` | Open, Query, Execute, Close |
| Result | `storage/mysql_result.cpp` | the `MYSQL_RES*`, the current row, streaming or not | Next, accessors, destructor, TryCancelQuery |
| Optimizer | `storage/mysql_optimizer.cpp` | none (rewrites bind data) | streaming decision, LIMIT/OFFSET push-down |
| Scanner | `mysql_scanner.cpp` | per-scan result and varchar chunk | `mysql_scan`, `mysql_query` |
| `mysql_execute` | `mysql_execute.cpp` | `finished` | run a text once |
| Insert | `storage/mysql_insert.cpp` | `insert_values` buffer, count | Sink, Finalize, CREATE TABLE AS |
| Update, delete | `storage/mysql_execute_query.cpp` | affected rows | one statement in Finalize |
| Catalog sets | `storage/mysql_catalog_set.cpp`, `mysql_table_set.cpp`, `mysql_schema_set.cpp`, `mysql_index_set.cpp` | `entries`, `is_loaded` per schema | GetEntry, Scan, LoadEntries, CreateEntry, DropEntry, AlterTable, ClearEntries |
| Schema entry | `storage/mysql_schema_entry.cpp` | its table set and index set | CREATE / DROP / ALTER |
| Catalog | `storage/mysql_catalog.cpp`, `mysql_storage.cpp` | schemas, default schema, connection string | ATTACH, LookupSchema, CreateSchema, DropSchema, ClearCache; connection strings from paths, URIs and secrets |
| Filter pushdown | `mysql_filter_pushdown.cpp` | none | filter to SQL |
| Utilities | `mysql_utils.cpp` | none (reads the environment) | reading a connection string, Connect, the mappings of types, quoting |
| Entries, secrets, settings | `storage/mysql_table_entry.cpp`, `mysql_extension.cpp`, ... | none of their own | registration, data holders |

How they interact. DuckDB asks the manager for a transaction the first time a
DuckDB transaction touches the catalog; the constructor opens the session.
Every command of a statement (scan, flush, DDL, catalog load) goes through
`GetConnection`, which sends `START TRANSACTION` before the first one. A scan
may leave an unbuffered result on the connection; while it is unread no other
command can be sent. Whether a plan may stream is decided by the optimizer and
taken back when a write is planned. When a streamed result is dropped half
read, its destructor kills the session from a second connection and swaps the
handles inside the shared `OwnedMySQLConnection`, behind the back of the
transaction. The threads that run the pipelines of one statement share that
connection: `query_lock` covers the sending of a command and the storing of its
result, not the test of `transaction_state` before it nor the read of
`mysql_field_count` after it. The catalog sets are shared by all transactions
and filled lazily through the transaction of whoever asks first. Every
connection is opened from the connection string ATTACH has put together, which
it reads again, with the environment of that moment.

The hard behaviours are: sessions that die or are replaced in the middle of a
transaction, replies that are lost, commands that end the server's transaction
implicitly, results dropped on exception paths, competition for connections,
threads that overtake each other on one handle, a cache that several clients
load, change and clear at once, and definitions and options that are computed
once and used later, after what they were computed from has changed.
`PROJECT.json` lists each hazard at its line.

## Modules

| Module | What it is |
|---|---|
| `MySQLServer` | What a command does to one MySQL session, as far as the code relies on it. Not in the repository: every operator is external. |
| `AtomicTransactions` | Abstract specification: the changes of a transaction become durable all together when it commits, or never. |
| `MySQLTransaction` | The transaction layer: manager, transaction, connection, result, the streaming decision, scans, `mysql_query`, `mysql_execute` and writes. |
| `MCMySQLTransaction` | Plans and symmetry for TLC. |
| `MySQLTransactionProofs` | Type correctness and atomicity, proved. |
| `MySQLSessionProofs` | Who owns a session, what state it is in, what it was told and what may be sent over it, and that `MySQLTransaction` implements `AtomicTransactions`, proved. |
| `MySQLCatalogSet` | The schema cache: the table set of every schema, shared by all clients, and the server's schema. |
| `MCMySQLCatalogSet` | Statements for TLC. |
| `MySQLCatalogSetProofs` | Type correctness of the cache, its coherence while statements only look up and create, and under one client that runs every statement, proved. |
| `MySQLInsert` | INSERT and CREATE TABLE AS: batching rows into multi-row commands. |
| `MCMySQLInsert` | Tables, column lists and pipelines for TLC. |
| `MySQLInsertProofs` | No row lost, repeated or misplaced; the count; the size of the buffer; that what the query selects is inserted, proved. |
| `MySQLPlans` | Plans as sequences of operators; table filters and the conditions they become; what a SELECT means to the server and a plan to DuckDB. |
| `MySQLExecuteQuery` | The statement an UPDATE or DELETE plan is turned into, and what the server makes of it. |
| `MySQLPushdown` | The optimizer extension, physical planning and the execution of queries, UPDATE and DELETE. |
| `MCMySQLPushdown` | Tables, filters and plans for TLC. |
| `MySQLPushdownProofs` | That queries have the rows of the plan that was bound, that UPDATE and DELETE leave what the plan means and that no command is refused, proved. |
| `MySQLWorkers` | The worker threads of one statement over the one connection of its transaction. |
| `MySQLWorkersProofs` | That no thread gets the result of another, what can fail a statement, and that the scans of a transaction show one state of the database, proved. |
| `MySQLConnectionString` | Connection strings, URIs and secrets: how they are written and how they are read. |
| `MySQLAttach` | ATTACH, the environment, and the opening of connections. |
| `MySQLTypes` | The mappings of types between DuckDB and MySQL, and the casts of a scan. |
| `MySQLCatalog` | Schemas, tables, columns and indexes as the cache has them and as the server has them. |
| `MySQLDatabase` | The composition of `MySQLAttach` and `MySQLCatalog`: a database from ATTACH on. |
| `MySQLCatalogProofs` | Lemmas about the mappings of types and the statements of the catalog: each keeps the cache true to the server. |
| `MySQLDatabaseProofs` | The properties of `MySQLCatalog` and `MySQLAttach` from ATTACH on, proved. |
| `MCMySQLDatabase` | Paths, secrets, environment and columns for TLC. |

`MySQLTransaction` uses `MySQLServer` and is related to `AtomicTransactions`
by refinement. `MySQLDatabase` composes `MySQLAttach`, which uses
`MySQLConnectionString`, with `MySQLCatalog`, which uses `MySQLTypes`: the
default schema and the database of a session come out of the first and decide
what the statements of the second mean. The other components meet the
transaction layer only through the commands they send, and each takes the part
of that layer that it needs as an outcome: a command takes effect or raises, a
rollback restores what the statement changed. They are therefore modules of
their own, composed by what they assume and not by a common state.

### MySQLTransaction

One action is one command and its reply, or one step of a destructor; the
transactions interleave at that grain. A DuckDB transaction runs on one thread
here; `MySQLWorkers` is about several.

| Variable | In the code |
|---|---|
| `session` | the server's sessions and the `MYSQL*` handles on them, by connection id |
| `database` | what is durable on the server |
| `phase` | what DuckDB believes of the transaction |
| `transactions` | `MySQLTransactionManager::transactions` |
| `transactionState` | `MySQLTransaction::transaction_state` |
| `connection` | the session behind `MySQLTransaction::connection` |
| `pc`, `stmt`, `streaming` | where the thread is, the commands the plan has left, `bind_data.streaming` |
| `stream`, `left` | the streaming `MySQLResult`: unread, at its end, rows not delivered |
| `helper` | the local `con` of `TryCancelQuery` |
| `failure` | the exception that invalidated the transaction |
| `issued`, `detached` | auxiliary: the changes whose commands succeeded; whether the server session left the transaction behind (DDL, swap) |

A plan is abstracted to how many commands of each kind it sends: the order in
which a plan sends them is left open, so the model covers every order DuckDB's
pipelines could choose. A row is a count, a change is a model value. Writes
are identified by transaction and value, so a change of one transaction can
never be taken for that of another.

`RollbackTransaction` sends ROLLBACK, swallows any error and closes the
session; as closing rolls back, the outcome of ROLLBACK itself does not matter
and is one step with the close. `KillAndSwap` takes the KILL, the swap and the
end of the destructor in one step: no other thread uses that connection.

### AtomicTransactions and the refinement

`outcome <- phase, work <- issued, store <- database, unprotected <- detached`.
As long as a transaction is protected, only its `Finish` may put its work into
the store, all of it, and only when it is reported committed or its commit
failed with an unknown result. A transaction that ran DDL or whose session was
swapped is past its protection and may add changes of its own at any time; it
still cannot touch those of others.

### MySQLCatalogSet

A client is a thread that binds and runs one statement at a time. `entry_lock`
makes each find, insert and erase one step; commands to the server and the
reads and writes of `is_loaded` are steps of their own.

| Variable | In the code |
|---|---|
| `tables` | the tables and views the server has, by schema |
| `entries`, `isLoaded` | `MySQLCatalogSet::entries` and `is_loaded` of each schema's `MySQLTableSet` |
| `pc`, `stmt` | where the client is, the statement it runs |
| `pending` | the entries `LoadEntries`, `CreateTable` or `RefreshTable` have built and not yet inserted |
| `possible`, `outdated` | auxiliary: what the name stood for since the statement began; whether somebody else changed the schema since the last clear |

`Check`, `Mark`, `QueryEntries`, `InsertEntry` and `Find` are `GetEntry` /
`TryLoadEntries` / `LoadEntries`; `DropExisting`, `Execute`, `Erase`,
`Refresh`, `Cache` and `Clear` the parts of CREATE, DROP and ALTER. The columns
of a table are one value. `Clear` clears every set in one step, names are
compared exactly, and an entry is a value, so that a reference to an entry
another client erases is not modelled.

### MySQLInsert

One action per call of the sink interface and one per row inside `Sink`
(`SinkRow`), as a flush may fail between two rows. `source`, `chunk` and
`taken` are the child's tuples and the current chunk, `values` and `size`
`insert_values` and its length, `count` `insert_count`, `table` the target as
the session sees it; `original` and `sunk` are auxiliary. A row is given any
size of `RowSizes`: the literals are abstracted to that.

### MySQLPushdown

DuckDB's trees of operators, filters and conditions are sequences here: each
node stands after its children, which it names by their places, and the root is
the last. A walk over a tree is then a recursive function over the places of a
sequence, which the prover accepts where it does not accept a RECURSIVE
operator. What the binder of DuckDB hands over is in `PushdownConstants`, which
is external: `PlanIsBound` says that a plan is such a tree and no two scans share
a table index, `GetIsBound` that a scan reads columns that exist and has filters
on columns it reads, `FilterIsBound` that no optional filter that says nothing is
below an OR, `WriteIsBound` that a write is of a table that is scanned and that
its references have the names of the columns they are bound to. TLC evaluates
these for the plans of the runs.

`bound` is the plan before the extension runs and `plan` the one executed. `Optimize` is the whole of
`MySQLOptimizer::Optimize`, `PlanDelete` and `PlanUpdate` build `query`, which
`Finalize` sends. `tables` is the server's, `affected` `affected_rows`, `before`
is auxiliary. `bind` says whether a `mysql_query` still holds the
result its bind fetched, `rest` and `scanned` are the result of each open scan
and what `MySQLScan` has delivered of it, in chunks of `VectorSize`. The text
of a condition is a tree too, the text appended to `bind_data.limit` a sequence of
clauses, so that what the server accepts can be told from what it refuses.
The semantics of the operators left in the plan (`Evaluate`), of an UPDATE or
DELETE plan (`Result`) and of the statements sent (`Rows`, `Changed`) are defined
independently of each other, under SQL's three-valued logic, and the properties
compare them. What DuckDB prints for a filter of an UPDATE or DELETE is taken to
mean the same to the server.

### MySQLWorkers

One transaction, several threads; the steps of a thread are those at which
another can come in between.

| Variable | In the code |
|---|---|
| `server`, `version` | the session (open, in a transaction, its snapshot); the committed state of the database, by number |
| `handle` | the `MYSQL*`: replies on their way, the result being stored, `field_count` |
| `queryLock`, `transactionState` | `query_lock`, `transaction_state` |
| `pc`, `task`, `call` | where a thread is; its scan (a number of columns) or command; whether it sends START TRANSACTION first |
| `result`, `fieldCount` | the `MYSQL_RES*` and `field_count` of its `MySQLResult` |
| `delivered`, `seen` | auxiliary: what scans have handed on |
| `raced`, `overlapped`, `faulted` | auxiliary: the three things that excuse a failure, see the properties |

`TestState` and `SetState` are the two halves of `GetConnection`; `Send`,
`Receive` and `Store` those of `MySQLExecute`, with the lock; `ReadFieldCount`
is the rest of `QueryInternal`; `Scan` is `MySQLScan`. A plan with more than
one scan never streams, so all results are stored. Faults: a command is
rejected, the session is lost before the reply (`lose`) or in the middle of the
rows (`fetch`).

### MySQLAttach and MySQLConnectionString

A text is a sequence of characters; a word that is only ever compared as a
whole (an option's name, a number, a scheme) is one element of it. Escapes are
modelled character by character, because the properties are about them.
`ParseOptions` is the loop of `ParseConnectionParameters` and `WithEnvironment`
what follows it; `TryConvertURI` and its helpers are the URI, `GetConnectionString`
the string ATTACH builds. The environment is read by every
`ParseConnectionParameters`: when the catalog is made, at each connection, and
when `GetConnectionString` looks for what a secret has to add.

| Variable | In the code |
|---|---|
| `secrets`, `env`, `externalAccess` | the secret manager, `getenv`, `enable_external_access` |
| `catalog` | `MySQLCatalog::connection_string` and `default_schema` |
| `connecting`, `session` | the attempt in `MySQLUtils::Connect`; the connection it opened, with its options |
| `outcome`, `moved` | auxiliary: how the last ATTACH ended; whether the environment changed since |

A path of `Paths` says in `given` what it is meant to say, in `text` how that
is written: `given` is never looked at by the actions. Options are compared in
lower case; the value of a SSL option is passed on and not used.

### MySQLCatalog and MySQLTypes

One client, one statement per step: a statement loads the sets it looks into,
sends its command and changes the entries. `server` holds schemas, tables with
their columns, and indexes; `cache` the sets with their `is_loaded`;
`default_schema` and `database` what an unqualified name means to DuckDB and to
the server; `settings` the two boolean settings. A type is a record, a column of
the server what `information_schema.columns` says of it. `Declared`, `Made`,
`FieldOf` and `Text` are what MySQL does with a declaration, a result and a
value: they are not in the repository and are external. DROP TABLE, RENAME and
views are in `MySQLCatalogSet`, with several clients.

### MySQLDatabase

`Next` is `AttachNext` until a connection is open, then `CatalogNext`. At the
first statement `FirstStatement` hands over the default schema and the database
of the session, which differ when the environment changed in between, and
forgets the rest.

## Runs

All values are in the `.cfg` files. Faults of the transaction layer: `refuse`
(no connection), `lose` (the server drops a session), `reject` (a command
fails), `deadlock` (a command fails and the server rolls back), `reply_lost`
(COMMIT or DDL takes effect but its reply is lost), `stream_error` (failure in
the middle of a result).

| Run | Shows |
|---|---|
| `core` | `TypeOK`, `Atomicity`, `SessionsOwned`, `ReadyWhenIdle`, `NoOutOfSync` and the refinement `Implements`, with two transactions, three sessions, every plan shape and every fault |
| `read_only` | on a READ_ONLY catalog: `ReadOnlyHolds`, `CommandsAreCovered` and, under `FairSpec`, `StatementEnds` |
| `cache_serial` | one client, every statement, changes from elsewhere, failing DDL: `CacheCoherent`, `LookupsAreRecent`, `ErasedIsGone` |
| `cache_grows` | two clients that look up and create: `CacheCoherent` |
| `insert` | `EveryRowOnce`, `CountIsRows`, `ValuesBounded`, `InsertsSelection` over every column list |
| `pushdown` | `AnswerIsRight`, `WriteIsRight`, `NoCommandIsRefused` over filters, LIMITs, unions, UPDATE and DELETE, each plan executed twice |
| `workers` | `ResultsAreOwn`, `OneSnapshot`, `FailsForACause` and, under `FairSpec`, `TasksEnd`: two threads, two statements, another client that commits, every fault |
| `catalog` | from ATTACH to DDL: `SourcesInOrder`, `RefusedForACause`, `ConnectsWhereTold`, `DefaultIsSession`; `SchemasCoherent`, `CachedAsLoaded`, `ScansReadTrue`, `QueryAgreesWithScan`, `IndexEntriesExist` |
| `cancel_loses_work` | violation of `CommittedIsDurable` |
| `truncated_scan` | violation of `ScanDeliversAll` |
| `drop_in_schema` | violation of `ErasedIsGone` |
| `update_order` | violation of `WriteIsRight` |

Bounds of the transaction layer. Two transactions are the fewest that can
compete for a session or see each other's work; three sessions let both hold
one while one cancels, and make the third want one that is not there. Two
changes and plans of two writes are the fewest for which "some but not all"
differs from both ends. One row is enough for a result to be abandoned before
its end, two (in `read_only`) for the drain loop to go round. `read_only` needs
no lost replies: nothing it sends changes anything. Session ids are used once,
as MySQL connection ids are. Symmetry is used for safety runs only.

Bounds of the cache. With one client the statements are sequential and the run
has every kind of them over two table names, a view name and two table
definitions: enough for a rename onto a name that is taken or free and for a
stale definition. Concurrency needs two clients and one name; `cache_grows` has
two names, so that a load inserts several entries one by one.

Bounds of INSERT. Rows of 3 or 5 bytes and `FlushSize` 8 give flushes that the
last byte just reaches (3 + 5), that overshoot (5 + 5) and that are missed by
two (3 + 3); chunks of two rows and statements of up to four rows put them in,
at the end of and across chunks, with and without a rest for `Finalize`.

Bounds of the push-down. Five rows of two columns with a NULL in each; every
filter of one connective over two leaves and the ones with hints, on each
choice of columns; a LIMIT of none, some and more than all of the rows; towers
of three operators; two sources of one or of two databases; UPDATE and DELETE
with conditions in the scan, above it and above a projection. Two executions
tell the first use of a `mysql_query` from the later ones.

Bounds of the worker threads. Two threads are the fewest that can overtake each
other, and every hazard of the module is one of a pair; a count of 1 or 2
columns tells a short `field_count` from a right one; two statements let the
second run in a transaction the first has started, and three states of the
database let the two scans of a statement and those of the next differ. The
invariants are proved for any numbers.

Bounds of the catalog. The values of a password or a socket hold every
character some layer gives a meaning to (quote, backslash, space, percent,
question mark, colon, at, equals); the paths have every form (empty, pairs,
quoted, URI with each part, repeated attributes) and each way to be malformed;
two secrets may exist, in the two storages, one of them the default one; path,
secret and environment each may have a port in and out of range. Of
columns there is one for every branch of `TypeToLogicalType` that the
properties tell apart, of DuckDB's types one for every branch of `ToMySQLType`.
Two schemas, one of them the one the index sets are loaded from, one table and
one index name; two statements that change the server (drop and create again,
create and alter), any number of lookups, settings and clears between them.

Deadlock is not checked: a transaction layer whose transactions are over, with
no connection id left, has nothing more to do, nor has a statement that ended.
In the cache runs deadlock is checked.

Fairness. `FairSpec` gives weak fairness to the thread of each transaction,
only while it runs a statement or a destructor: DuckDB's executor keeps running
what it has started, and a destructor is straight-line code with one loop.
Nothing is assumed of clients (they need not commit) nor of the server beyond
answering or failing. In `MySQLWorkers` it is weak fairness of every thread:
DuckDB's scheduler runs every task it has started. A thread that waits for
`query_lock` needs no more, because a statement has finitely many commands, so
that the lock cannot be taken over its head forever.

## Known divergences

Four are runs; `PROJECT.json` has the lines. The others were met while modelling
and are kept out of the passing runs, as said there:

* After `TryCancelQuery` swapped a session, the transaction goes on in
  autocommit: its earlier changes are gone (`cancel_loses_work`) and the new
  session has neither the time zone nor the READ ONLY mode of the old one.
  `CommandsAreCovered` and `ReadOnlyHolds` hold up to that point (`detached`).
* The optimizer counts `mysql_scan` and `mysql_query`, not `mysql_execute`: a
  plan that has one beside a streamed scan gets "Commands out of sync".
  `NoOutOfSync` is checked on plans without that pair.
* `LoadEntries` reads the schema and enters it later, holding nothing: a DROP or
  ALTER of another client in between is undone in the cache (`CacheCoherent`
  fails for two clients with DROP, from `mysql_catalog_set.cpp:12` on), although
  `README.md:181` blames only "a different connection". `is_loaded` is set
  before the load: a second client that asks meanwhile finds an empty set and
  reports an existing table missing (`LookupsAreRecent` fails for two clients).
* A load that fails leaves `is_loaded` set and the set empty until it is
  cleared; the cache runs have no failing loads.
* CREATE OR REPLACE TABLE over a view sends DROP TABLE, which the server
  refuses; the statements of a run use each name for one kind of object.
* `INSERT INTO t SELECT ... FROM t UNION ALL SELECT ... FROM t` opens the second
  scan after the rows of the first may have been flushed, and reads them again;
  `CREATE OR REPLACE TABLE t AS SELECT ... FROM t` drops `t` before it reads it.
  The statements of `insert` scan the target in their first pipeline only.
* An OFFSET without a LIMIT is pushed into the scan, and MySQL has no syntax for
  it. The plans of `pushdown` have one only where it is not pushed, and
  `CommandsAreAccepted` is for such plans (`LimitsAreComplete`).
* UPDATE reports the rows the server changed, which leaves out those that were
  as they should be already. `WriteIsRight` speaks of the count of a DELETE only.
* Two threads may both find the transaction not started, or one may send its
  scan before the START TRANSACTION of the other: their scans then see different
  states of the database. `OneSnapshot` holds otherwise (`raced`).
* A thread may read the `mysql_field_count` of another's command: it then raises
  "Failed to fetch result" for a command without one, or for a column out of
  range, and nothing is wrong. `FailsForACause` holds otherwise (`overlapped`).
* A connection string with a question mark in a value is taken for a URI and
  refused. `%3A` in a URI decodes to a semicolon (`AsRead`). Ports above 65353
  are refused. Of an option given twice under different names the last one
  wins in a connection string, the first one in a URI.
* To find what a secret has to add, the path alone is read first, with the
  environment: a MYSQL_TCP_PORT out of range makes ATTACH fail although the secret
  has a valid port. `RefusedForACause` counts this among the causes (`BarePort`).
* The default schema is read once, the environment at every connection: if
  MYSQL_DATABASE changes after ATTACH, unqualified names mean one schema to
  DuckDB and another to the server (`moved`).
* Index sets are loaded from the schema `mysqlscanner`, whatever their schema
  is; CREATE INDEX enters nothing; DROP INDEX, CREATE INDEX and ALTER TABLE name
  no schema (`outdated`). CREATE SCHEMA does not look at IF NOT EXISTS.
* CREATE TABLE enters BOOLEAN even where a load would give TINYINT, with
  `mysql_tinyint1_as_boolean` off (`StaysBoolean`).
* ADD COLUMN writes DuckDB's name of the type, not `TypeToString`: TIMESTAMP
  becomes a column with a time zone, unsigned integers and VARCHAR are refused.
* `mysql_query` takes the width of the widest value of a column for its display
  width: with the boolean settings on, a TINYINT column of one-digit values is
  BOOLEAN; and it takes a DECIMAL without scale or sign to be too narrow, so
  that the widest values are shown as NULL. `QueryAgreesWithScan` leaves both out.
* A DYNAMIC_FILTER below an OR would make the pushed OR keep too few rows. The
  checked filters have none there, and `FilterIsBound` assumes there is none:
  whether DuckDB builds one is not decided in this repository.

## Proofs

All proofs are from the named assumptions on the constants. Some take one
more, stated as an operator: `OnlyCreates`, `OneAtATime`, `CallsKeepAway`,
`ScansFirst`, `LimitsAreComplete` (every pushed OFFSET comes with a LIMIT) or
`WritesAreSimple` (no UPDATE that is accepted reads a column it has assigned
before, and no write has a LIMIT pushed into its scan, as DuckDB's UPDATE and
DELETE have none). Each leaves out what the divergences above make false.

| Theorem | Says |
|---|---|
| `TypeCorrect` | `Spec => []TypeOK` of `MySQLTransaction` |
| `TransactionsAreAtomic` | `Spec => []Atomicity`, for any transactions, sessions, writes, plans and faults |
| `SessionsAreOwned` | `Spec => []SessionsOwned` |
| `ConnectionsAreReady` | `Spec => []ReadyWhenIdle` |
| `CommandsRunInTransactions` | `Spec => []CommandsAreCovered` |
| `ReadOnlyIsKept` | `Spec => []ReadOnlyHolds` |
| `StreamsStandAlone` | `Spec => []NoOutOfSync` if no plan has a `mysql_execute` beside a scan that may stream (`CallsKeepAway`) |
| `TransactionsImplement` | `Spec => Implements`: the refinement to `AtomicTransactions` |
| `CacheTyped` | `Spec => []TypeOK` of `MySQLCatalogSet` |
| `CreatesKeepCacheCoherent` | `CacheCoherent` always holds for any number of clients and names if statements only look up and create (`OnlyCreates`) |
| `OneClientKeepsCacheCoherent`, `OneClientFindsRecent`, `OneClientErasesGone` | `CacheCoherent`, `LookupsAreRecent` and `ErasedIsGone` always hold for one client and any statements (`OneAtATime`) |
| `InsertTyped` | `Spec => []TypeOK` of `MySQLInsert` |
| `RowsAreInsertedOnce` | `Spec => []EveryRowOnce` of `MySQLInsert` |
| `CountIsExact` | `Spec => []CountIsRows` |
| `StatementsAreBounded` | `Spec => []ValuesBounded` |
| `SelectionIsInserted` | `Spec => []InsertsSelection` if the target is scanned in first pipelines only (`ScansFirst`) |
| `TypeCorrect` | `Spec => []TypeOK` of `MySQLPushdown` |
| `FilterIsPushedAsItIs` | the condition `TransformFilter` makes of a filter holds on a row exactly if the filter passes its value; where it makes none, the filter passes every value |
| `PushedLimitsAreTheSame` | a plan whose LIMITs were pushed has the rows of the plan before, whenever its scans return what the LIMIT in their text leaves |
| `AnswersAreRight` | `Spec => []AnswerIsRight`, for any plans, filters, tables and chunk sizes, and any number of executions |
| `ChangesAreRight` | `Spec => []WriteIsRight` if `WritesAreSimple` |
| `CommandsAreAccepted` | `Spec => []NoCommandIsRefused` if `LimitsAreComplete` |
| `WorkersTyped` | `Spec => []TypeOK` of `MySQLWorkers` |
| `ResultsBelong` | `Spec => []ResultsAreOwn`, for any threads, columns, statements and faults |
| `FailuresHaveCauses` | `Spec => []FailsForACause` |
| `ScansShowOneSnapshot` | `Spec => []OneSnapshot`, for any threads, statements, commits of others and faults |
| `TypesHoldAlways` | `Spec => []TypeOK` of `MySQLDatabase`, and so of `MySQLAttach` and `MySQLCatalog` |
| `CoherentAlways`, `AsLoadedAlways` | `SchemasCoherent` and `CachedAsLoaded` always hold, for any schemas, tables, column types and settings |
| `ReadsTrueAlways`, `QueryAgreesAlways` | `ScansReadTrue` and `QueryAgreesWithScan`, for any columns a server can declare |
| `IndexesExistAlways` | `Spec => []IndexEntriesExist` |
| `DefaultIsSessionAlways` | `Spec => []DefaultIsSession`, for any paths, secrets and environment |
| `ConnectsWhereToldAlways` | `Spec => [](SourcesInOrder => ConnectsWhereTold)`: where the options arrive, the connection goes where they say |
| `EscapedIsReadBack` | `ParseValue` reads a value `EscapeConnectionString` has written as it was, wherever it stands in a string and whatever characters it has |
| `WrittenOptionIsRead` | what `WriteOption` has written is read as one pair of the name and the value, and the reading goes on right after it |

**Atomicity** speaks of what DuckDB believes (`phase`) and what is durable
(`database`); neither determines the next step. The inductive invariant `IInv`
adds what links them:

* `Base`: types, every registered transaction has a connection, a helper only
  while one is being used;
* `Ownership`: the sessions of different transactions differ, so that what one
  does to its session cannot touch the work of another;
* `Life`: a transaction is registered exactly while it is alive or failed, and
  idle once it is over;
* `Keeps(t)`, for every protected transaction: the work in its session is its
  issued work while the session is open and in its transaction, and none of it
  is durable before the end; if the session has lost it, the transaction can
  no longer commit.

The proof that a step preserves `IInv` has one lemma per action or group of
actions with the same frame.

**Sessions.** Four more invariants, proved on top of `IInv` in the order in which
they need each other:

* `AllOwned`: every open session is the connection or the helper of a registered
  transaction. `SessionsOwned` follows.
* `AllFit`: an unread result is on a connection only while `stream` says so, a
  helper has neither a result nor a transaction, a transaction of the server has
  the access mode of the catalog, and a connection that was not swapped has the
  time zone of the user. `ReadyWhenIdle` and `CommandsAreCovered` follow: the
  first is about the end of a statement, where only what held during it tells
  that the destructor has left nothing behind.
* `AllQuiet`: on a READ_ONLY catalog a connection that was not swapped carries no
  work, so that there is nothing a COMMIT could make durable.
* `AllAlone`: a plan that may stream has no more commands once its stream is
  open. It ties `streaming`, fixed when the plan was made, to what is left of the
  plan, and is the reason why `NoOutOfSync` needs the scans to be counted.

**The refinement.** An initial state is one of `AtomicTransactions`, and each
step under `IInv` is `Start`, `Change`, `Finish` or `Unprotected` of one transaction there
or leaves the four abstract variables alone. `IInv` is needed where work becomes
durable: by `Keeps(t)` what COMMIT puts into the database is all that was issued.

**Coherence of the cache** is only claimed at rest, and is not inductive: what
a client has read and not yet inserted matters. `CacheInv` adds that what a
client carries is what the server has (`Carries`; with creations only, an
object once seen stays as it is, `Growing`), that what is cached is true
(`Faithful`), and that every object missing from a loaded set is about to be
entered by somebody (`Covered`). That `OnlyCreates` is needed is the first
divergence of the cache listed above.

With one client (`OneAtATime`: one client, statements that stay in the database
of the session, one kind of object for each name, no load that fails) every
statement is allowed and other programs may change the schema. `SerialInv` says
in which step of which statement which part of the cache may lag behind: nothing
cached is false but what is about to be erased or cleared (`Right`), a loaded set
lacks nothing but the name that is being caught up with (`Complete`), and what
the client carries, its pending entries among them, is what the server has
(`InHand`). It holds until `outdated` and again from the next clear on.

**Rows of an INSERT.** `IInv` of `MySQLInsertProofs` says that the table is the
rows it had and the ones sunk, less those still in `insert_values` (`Placed`),
and that rows taken from the child are counted or in the current chunk
(`Counted`). The lemma `SpecifiedCount` carries the column lists: what the
binder numbers 1 to w is what `GetInsertColumns` names, in that order.

`InsertsSelection` is about the rows as the query means them, read from the
target as it was. `SelInv` adds to `IInv` that the rows sunk, those left in the
chunk and those left in the source are together what the pipelines opened so far
select (`Selects`), and that nothing has happened to the target while none was
(`Untouched`): this is what lets a first pipeline scan the target itself.
`Selection` is a recursive function over the pipelines; that it satisfies its
definition (`SelectionSteps`) is shown by building it a pipeline at a time, with
an induction taken from the well-foundedness of < on the naturals (`Climb`).

**Push-down: queries.** The argument goes from the text of one SELECT up to the
execution of the plan. `FilterIsPushedAsItIs` compares filter and condition node
by node; `SelectIsScan` concludes that a SELECT returns what its scan owes the
plan, cut by the LIMIT in its text. `PushedLimitsAreTheSame` is about two plans:
an operator that was taken out and the scan it went into have the rows of the
operator and the scan before, because only projections can be between the two,
and they keep the number and the order of rows. `StatementInv` then follows the
steps: the plan is what `Optimize` makes of the bound one (`PlanIs`), the tables
do not change under a query (`TablesAre`), and what a scan has delivered
followed by what it has left is what it owes (`Paying`, `ScansAre`), whether its
result comes from its own command or is the one the bind of a `mysql_query`
fetched. `CommandsAreAccepted` adds that the text of every SELECT is one MySQL
has, and that the connection is free when a scan opens: the streaming decision
leaves an unread result to a scan only if no other can follow it.

A recursive function over the places of a sequence is first shown to satisfy its
definition (`RecursionHolds`, by `Climb`); what holds of a node if it holds of
those before it then holds of all (`FromThoseBefore`).

**Push-down: writes.** A write whose plan is accepted has one scan, of its own
table (`OnlyScan`). Row by row, the operator below the write gives a row exactly
if the conditions of the statement hold on it, and a tuple's values are those of
the columns its references name (`RowIsSeen`, `ChildIsSeen`). The server assigns
from left to right; as no expression reads a column assigned before, the values
are those of the row as it was (`AssignedIs`, `UpdatedIs`), and the table
afterwards is the plan's (`ChangedIsResult`). `WriteInv` carries it through the
execution: rows keep their columns, a table is as it was while the statement
runs and what `Changed` makes of it afterwards. Without `WritesAreSimple` the run
`update_order` violates `WriteIsRight`.

**Worker threads.** `ResultsAreOwn` speaks of what a scan has delivered. The
inductive `IInv` of `MySQLWorkersProofs` follows a reply from the server to the
scan: the lock is held exactly from sending to storing (`Exclusion`), so that
there is at most one reply on the handle and nothing when nobody waits
(`Quiet`); the reply belongs to the holder of the lock (`Receiving`,
`Storing`); after the lock is released the result is still the thread's own,
and the field count is right as long as nobody has overtaken it (`Counting`,
`Scanning`), which is where `overlapped` comes in.

`SnapInv` holds as long as the state was not raced for
and nothing failed: until START TRANSACTION is sent, one thread is about to and
no other is past its test (`OneStarter`); from then on the session is in that
transaction (`InTransaction`); and every state of the database that was shown or
will be, by a reply on its way, on the handle or in the hands of a thread, is the
snapshot of the session, also when the session is lost (`Agree`).

**The catalog.** None of its five invariants is inductive: each is only claimed
until the server changes without the cache (`outdated`), and says nothing of the
sets that are not loaded. `CatalogInv` has what the steps need: the server's
indexes are on tables it has, a set knows no name the server does not, and
`Fits`: a loaded set lacks none, and each definition in it is the one a load of
the server's columns would give (`AsLoaded`), loaded or not. `AsLoaded` is the
property a step has to re-establish and the hard cases are the two that enter a
definition nobody read: CREATE TABLE, where the type DuckDB has must be the one
the server's column for its text is loaded as (`TypesComeBack`, over every
branch of `ToMySQLType`, `Declared` and `TypeToLogicalType`), and a setting,
where only forgetting everything helps. `ScansReadTrue` and `IndexEntriesExist`
then follow from `Fits`, `QueryAgreesWithScan` from the types of the server's
columns. The assumptions are in `CatalogAssumption`: the columns other programs
make are rows `information_schema.columns` can have, and DuckDB's types are its
types, with any width and scale.

**ATTACH.** `AttachInv` says of an attempt and of an open connection that their
options are what `ParseConnectionParameters` reads from the string of the
catalog in the environment of that moment, that this moment is the one of ATTACH
unless the environment was changed (`moved`), and that a second attempt and a
connection to 127.0.0.1 are only for those who asked for localhost or for no
host. `DefaultIsSession` follows whatever the parser computes, and so does
`ConnectsWhereTold` wherever `SourcesInOrder` holds.

**Escaped values.** `EscapedIsReadBack` takes a value of any characters between
any two texts. The text of the value is a chain that grows by one piece per
character (`Flattened`, `ChainGrows`), so each character has a place in the whole
string (`Spelled`, `EscapedIsSpelled`). From these places `ReadQuoted` is followed
from the closing quote backwards (`QuotedIsRead`); both inductions are `Climb`
again, and so is the one that shows that `ReadQuoted` satisfies its recursive
definition (`ReadQuotedSteps`). `WrittenOptionIsRead` adds the name and the
equality sign, for any name that has no space, quote or equality sign; every
option of a secret or a URI has such a name.

## Only model-checked

`StatementEnds` and `TasksEnd` are liveness, which TLAPS does not reach.
`SourcesInOrder`, `RefusedForACause` and with the first the unconditional
`ConnectsWhereTold` say what the reader of URIs and connection strings makes of a
text some layers of escapes have been put on. That one option is written and read
is proved (`WrittenOptionIsRead`); for a whole path, where an induction over the
text and over what its author meant by it is needed, TLC compares the two for the
paths of `MCMySQLDatabase`.

## Not modelled

* The literals of values, quoting and identifiers (`MySQLUtils::Write...`,
  `MySQLInsert` casts): formatting, checked by the tests of the types.
* The casts of what a scan returns to other types than integers and BOOLEAN:
  they are DuckDB's; of a failed one only that it leaves a NULL matters.
* Collations: a pushed string comparison is the server's.
* Defaults and generated columns, constraints of several columns, comments:
  text of CREATE TABLE that the cache does not look at again.
* Entries another client still refers to after they were erased or cleared, and
  the race on the map itself in `ClearEntries`: memory safety, whose outcomes
  cannot be enumerated.
* `GetDatabaseSize`, `GetStorageInfo`, `GetIndexInfo`: they read and change
  nothing. Registration of the extension; the text writer, which nothing uses;
  build files.
* UPDATE and DELETE on several threads: their sink is not parallel, and they are
  alone on their connection when they send their command.
* Streaming with several threads: a plan with one scan has one thread that
  reads it, and a plan with more never streams.

## Order of the modules, and what is left

Written in this order: the transaction layer with its abstract specification,
the schema cache, INSERT, plans with the push-down, UPDATE and DELETE, the
worker threads, connection strings with ATTACH, types with the catalog. Left:

1. From `WrittenOptionIsRead` to a whole string: that the options of a secret in
   front of any path are read in turn and leave the reading of the path alone,
   the rest of `SourcesInOrder` for paths that are no URI.
2. The sets of `MySQLCatalog` under several clients: today that is done for the
   table sets, in `MySQLCatalogSet`.
