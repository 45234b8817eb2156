---------------------------- MODULE MySQLPushdown ----------------------------
(***************************************************************************)
(* What a statement over MySQL tables asks of the server: the optimizer    *)
(* extension (src/src/storage/mysql_optimizer.cpp) decides which results   *)
(* may be streamed and moves LIMIT and OFFSET into the scan below them,    *)
(* opening a scan (src/src/mysql_scanner.cpp) sends a SELECT with the      *)
(* filters DuckDB left to it, and UPDATE and DELETE become one statement   *)
(* (src/src/storage/mysql_execute_query.cpp).  The server runs these on    *)
(* its own order of the rows, DuckDB the rest of the plan on what the      *)
(* scans return.                                                           *)
(***************************************************************************)
EXTENDS MySQLExecuteQuery

CONSTANTS
  Plans,      \* bound plans, before the optimizer extension runs
  Catalogs,   \* the attached databases, a connection each
  Contents,   \* table |-> the rows it has before
  VectorSize, \* bound: STANDARD_VECTOR_SIZE, the rows of a chunk
  MaxRuns     \* bound: executions of the (prepared) statement

-----------------------------------------------------------------------------
(* What the binder and the optimizer of DuckDB hand over: trees, scans of  *)
(* columns that exist, filters on columns that are read, writes of a table *)
(* that is scanned.                                                        *)

IsSequence(s) == s \in Seq({s[k] : k \in DOMAIN s})

\* An optional filter that says nothing is pushed as no condition, so that a
\* disjunction over it would keep too few rows; DuckDB makes no such filter.
FilterIsBound(name, filter) ==
  /\ IsSequence(filter) /\ filter # <<>>
  /\ \A k \in DOMAIN filter :
       /\ filter[k].type \in {"IS_NULL", "IS_NOT_NULL", "CONSTANT_COMPARISON", "IN_FILTER",
                             "CONJUNCTION_AND", "CONJUNCTION_OR", "OPTIONAL_FILTER",
                             "DYNAMIC_FILTER"}
       /\ filter[k].type = "CONSTANT_COMPARISON" =>
            filter[k].comparison \in {"COMPARE_EQUAL", "COMPARE_NOTEQUAL", "COMPARE_LESSTHAN",
              "COMPARE_GREATERTHAN", "COMPARE_LESSTHANOREQUALTO", "COMPARE_GREATERTHANOREQUALTO"}
       /\ filter[k].type \in {"CONJUNCTION_AND", "CONJUNCTION_OR"} =>
            filter[k].children \subseteq 1..(k - 1)
       /\ filter[k].type = "OPTIONAL_FILTER" => filter[k].child \in 1..(k - 1)
       /\ filter[k].type = "CONJUNCTION_OR" =>
            /\ filter[k].children # {}
            /\ \A c \in filter[k].children : TransformFilter(name, filter)[c] # Empty

GetFields ==
  {"op", "function", "table_index", "catalog", "table", "names", "column_ids", "filters",
   "limit", "streaming", "children"}

GetIsBound(get) ==
  /\ DOMAIN get = GetFields
  /\ get.catalog \in Catalogs /\ get.table \in DOMAIN Contents
  /\ get.names \in Seq({get.names[k] : k \in DOMAIN get.names} \ {NULL})
  /\ get.column_ids \in Seq({COLUMN_IDENTIFIER_ROW_ID} \cup DOMAIN get.names)
  /\ IsSequence(get.filters)
  /\ \A k \in DOMAIN get.filters :
       /\ k \in DOMAIN get.column_ids /\ get.column_ids[k] # COLUMN_IDENTIFIER_ROW_ID
       /\ FilterIsBound(get.names[get.column_ids[k]], get.filters[k])
  /\ get.limit = <<>> /\ get.streaming = "UNINITIALIZED"
  /\ IsMySQLQuery(get) =>
       get.filters = <<>> /\ get.column_ids = [k \in DOMAIN get.names |-> k]
  /\ \A i \in DOMAIN Contents[get.table] :
       {get.names[k] : k \in DOMAIN get.names} \subseteq DOMAIN Contents[get.table][i]

\* The columns a scan reads; the row id is none.
ColumnsRead(get) ==
  [k \in DOMAIN get.column_ids |->
     IF get.column_ids[k] = COLUMN_IDENTIFIER_ROW_ID THEN NULL
     ELSE get.names[get.column_ids[k]]]

\* The columns that come out of each operator, NULL where it is none of the table.
ColumnsOf(plan) ==
  LET columns[i \in DOMAIN plan] ==
        CASE plan[i].op = "get"        -> ColumnsRead(plan[i])
          [] plan[i].op = "projection" ->
               [k \in DOMAIN plan[i].select_list |->
                  IF /\ plan[i].select_list[k].type = "BOUND_REF"
                     /\ plan[i].select_list[k].index \in DOMAIN columns[plan[i].children[1]]
                  THEN columns[plan[i].children[1]][plan[i].select_list[k].index]
                  ELSE NULL]
          [] OTHER                     -> columns[plan[i].children[1]]
  IN columns

\* A reference has the name of the column it is bound to.
Refers(e, columns) ==
  e.index \in DOMAIN columns /\ columns[e.index] # NULL /\ e.name = columns[e.index]

UpdateIsBound(op, projection, columns) ==
  /\ IsSequence(op.columns) /\ op.columns # <<>>
  /\ DOMAIN op.expressions = DOMAIN op.columns
  /\ \A c, d \in DOMAIN op.columns : op.columns[c] = op.columns[d] => c = d
  /\ \A c \in DOMAIN op.columns : op.expressions[c] # VALUE_DEFAULT =>
       LET e == projection.select_list[op.expressions[c]] IN
       /\ op.expressions[c] \in DOMAIN projection.select_list
       /\ e.type \in {"BOUND_REF", "VALUE_CONSTANT", "FUNCTION"}
       /\ e.type # "VALUE_CONSTANT" => Refers(e, columns)

WriteIsBound(plan) ==
  LET op == Root(plan)
      child == plan[op.children[1]]
      columns == ColumnsOf(plan)
  IN /\ op.table \in DOMAIN Contents
     /\ \E get \in Gets(plan) : get.table = op.table
     /\ \A i \in DOMAIN plan :
          plan[i].op = "filter" => Refers(plan[i], columns[plan[i].children[1]])
     /\ op.op = "update" /\ child.op = "projection" =>
          UpdateIsBound(op, child, columns[child.children[1]])

Inputs(op) == CASE op = "get" -> 0 [] op = "union" -> 2 [] OTHER -> 1

PlanIsBound(plan) ==
  /\ IsSequence(plan) /\ plan # <<>>
  /\ \A i \in DOMAIN plan :
       /\ DOMAIN plan[i].children = 1..Inputs(plan[i].op)
       /\ \A k \in DOMAIN plan[i].children : plan[i].children[k] \in 1..(i - 1)
       /\ plan[i].op = "get" => GetIsBound(plan[i])
       /\ plan[i].op = "limit" => plan[i].limit_val.value \in Nat /\ plan[i].offset_val.value \in Nat
       /\ i = Len(plan) \/ \E j \in DOMAIN plan : \E k \in DOMAIN plan[j].children :
                              plan[j].children[k] = i
  /\ \A i, j \in DOMAIN plan :
       /\ \A k \in DOMAIN plan[i].children, m \in DOMAIN plan[j].children :
            plan[i].children[k] = plan[j].children[m] => i = j /\ k = m
       /\ plan[i].op = "get" /\ plan[j].op = "get" /\ plan[i].table_index = plan[j].table_index
            => i = j
  /\ Root(plan).op \in {"delete", "update"} => WriteIsBound(plan)

ASSUME PushdownConstants ==
  /\ VectorSize \in Nat \ {0}
  /\ MaxRuns \in Nat \ {0}
  /\ \A plan \in Plans : PlanIsBound(plan)
  /\ \A t \in DOMAIN Contents : IsSequence(Contents[t])

-----------------------------------------------------------------------------
(* The optimizer extension.                                                *)

\* What is below each place, through projections.
ThroughProjections(plan) ==
  LET end[i \in DOMAIN plan] ==
        IF plan[i].op = "projection" THEN end[plan[i].children[1]] ELSE i
  IN end

\* Where the LIMIT at a place would go.
Target(plan, i) == ThroughProjections(plan)[plan[i].children[1]]

Pushable(plan, i) ==
  /\ plan[i].op = "limit"
  /\ plan[Target(plan, i)].op = "get" /\ IsMySQLScan(plan[Target(plan, i)])
  /\ plan[i].limit_val.type \in {"CONSTANT_VALUE", "UNSET"}
  /\ plan[i].offset_val.type \in {"CONSTANT_VALUE", "UNSET"}

\* The places under each one.
Under(plan) ==
  LET under[i \in DOMAIN plan] ==
        UNION {{plan[i].children[k]} \cup under[plan[i].children[k]] :
                 k \in DOMAIN plan[i].children}
  IN under

\* A LIMIT that is not pushed ends the recursion: what is below it stays.
Pushed(plan) ==
  {i \in DOMAIN plan :
     /\ Pushable(plan, i)
     /\ \A k \in DOMAIN plan : plan[k].op = "limit" => i \notin Under(plan)[k]}

LimitText(limit) ==
  (IF limit.limit_val.type = "UNSET" THEN <<>>
   ELSE <<[word |-> "LIMIT", value |-> limit.limit_val.value]>>)
  \o (IF limit.offset_val.type = "UNSET" THEN <<>>
      ELSE <<[word |-> "OFFSET", value |-> limit.offset_val.value]>>)

\* The scan at the end of a pushed LIMIT gets its text, any other operator stays.
AddLimit(plan, i) ==
  LET above == {l \in Pushed(plan) : Target(plan, l) = i} IN
  IF above = {} THEN plan[i]
  ELSE [plan[i] EXCEPT !.limit = @ \o LimitText(plan[CHOOSE l \in above : TRUE])]

Moved == [op |-> "moved", children |-> <<>>]

\* The child of a pushed LIMIT moves to its place.
OptimizeMySQLScan(plan) ==
  [i \in DOMAIN plan |->
     IF i \in Pushed(plan) THEN AddLimit(plan, plan[i].children[1])
     ELSE IF \E l \in Pushed(plan) : plan[l].children[1] = i THEN Moved
     ELSE AddLimit(plan, i)]

\* mutant: only scans of tables are counted
AloneAmongScans(plan, catalog) ==
  Cardinality({get \in MySQLGets(plan) : get.catalog = catalog /\ IsMySQLScan(get)}) <= 1

Alone(plan, catalog) ==
  Cardinality({get \in MySQLGets(plan) : get.catalog = catalog}) = 1

\* mutant: the decision is forgotten
LeaveStreaming(plan, alone) == plan

SetStreaming(plan, alone) ==
  [i \in DOMAIN plan |->
     IF plan[i] \notin MySQLGets(plan) THEN plan[i]
     ELSE [plan[i] EXCEPT !.streaming =
             IF ~alone[plan[i].catalog] THEN "FORCE_MATERIALIZATION"
             ELSE IF @ = "UNINITIALIZED" THEN "ALLOW_STREAMING" ELSE @]]

-----------------------------------------------------------------------------
(* Physical planning: the scans under a write are materialized.            *)

MaterializeMySQLScans(plan) ==
  [i \in DOMAIN plan |->
     IF plan[i] \notin MySQLGets(plan) THEN plan[i]
     ELSE [plan[i] EXCEPT !.streaming = "FORCE_MATERIALIZATION"]]

-----------------------------------------------------------------------------
(* A statement: bound, planned once, executed up to MaxRuns times.         *)

VARIABLES
  bound,    \* the plan as it was bound
  plan,     \* the plan that is executed
  query,    \* MySQLExecuteQuery::query, of an UPDATE or DELETE
  phase,    \* where the statement is
  bind,     \* table_index of a mysql_query |-> it still holds the result of its bind
  rest,     \* open scans: table_index |-> the rows not yet fetched
  scanned,  \* open scans: table_index |-> the rows DuckDB was given
  drained,  \* open scans that returned an empty chunk
  runs,     \* executions begun
  tables,   \* the server: table |-> its rows
  before,   \* auxiliary: tables when the execution began
  affected  \* affected_rows

planned == <<bound, plan, query>>
results == <<rest, scanned, drained>>
server  == <<tables, before, affected>>
vars == <<planned, phase, bind, results, runs, server>>

Writes(p) == Root(p).op \in {"delete", "update"}

TypeOK ==
  /\ bound \in Plans
  /\ phase \in {"bound", "optimized", "running", "finished", "failed", "unsupported"}
  /\ DOMAIN bind = {get.table_index : get \in {g \in Gets(bound) : IsMySQLQuery(g)}}
  /\ DOMAIN scanned = DOMAIN rest /\ drained \subseteq DOMAIN rest
  /\ DOMAIN rest \subseteq {get.table_index : get \in Gets(bound)}
  /\ runs \in 0..MaxRuns /\ affected \in Nat
  /\ DOMAIN tables = DOMAIN Contents /\ DOMAIN before = DOMAIN Contents
  /\ \A get \in MySQLGets(plan) : phase # "bound" => get.streaming # "UNINITIALIZED"

Nothing == [t \in {} |-> <<>>]
NoText  == [kind |-> "none"]

Init ==
  /\ bound \in Plans
  /\ plan = bound /\ query = NoText
  /\ phase = "bound"
  /\ bind = [t \in {get.table_index : get \in {g \in Gets(bound) : IsMySQLQuery(g)}} |-> TRUE]
  /\ rest = Nothing /\ scanned = Nothing /\ drained = {}
  /\ runs = 0
  /\ tables = Contents /\ before = Contents /\ affected = 0

Optimize ==
  /\ phase = "bound"
  /\ plan' = OptimizeMySQLScan(SetStreaming(plan, [c \in Catalogs |-> Alone(plan, c)]))
  /\ phase' = "optimized"
  /\ UNCHANGED <<bound, query, bind, results, runs, server>>

Execute ==
  /\ phase' = "running"
  /\ runs' = runs + 1
  /\ before' = tables
  /\ rest' = Nothing /\ scanned' = Nothing /\ drained' = {}
  /\ UNCHANGED <<bind, tables, affected>>

PlanQuery ==
  /\ phase = "optimized" /\ ~Writes(plan)
  /\ Execute
  /\ UNCHANGED planned

Refuse(reason) ==
  /\ phase' = reason
  /\ UNCHANGED <<planned, bind, results, runs, server>>

PlanDelete ==
  /\ phase = "optimized" /\ Root(plan).op = "delete"
  /\ IF Unsupported(plan) THEN Refuse("unsupported")
     ELSE /\ plan' = MaterializeMySQLScans(plan)
          /\ query' = ConstructDeleteStatement(plan)
          /\ Execute
          /\ UNCHANGED bound

PlanUpdate ==
  /\ phase = "optimized" /\ Root(plan).op = "update"
  /\ IF Unsupported(plan) THEN Refuse("unsupported")
     ELSE /\ plan' = MaterializeMySQLScans(plan)
          /\ query' = ConstructUpdateStatement(plan)
          /\ Execute
          /\ UNCHANGED bound

\* MySQLResult::Next() has returned false: in a short chunk or an empty one.
Ended(t) == t \in drained \/ Len(scanned[t]) % VectorSize # 0

\* A result that is still being streamed occupies the connection.
Busy(catalog) ==
  \E get \in MySQLGets(plan) :
    /\ get.catalog = catalog /\ get.streaming = "ALLOW_STREAMING" /\ IsMySQLScan(get)
    /\ get.table_index \in DOMAIN rest /\ ~Ended(get.table_index)

Select(get) ==
  [columns |-> ColumnsRead(get), table |-> get.table,
   where |-> TransformFilters(get), limit |-> get.limit]

\* The query text of a mysql_query is any statement with the rows it stands for.
Query(get) == [columns |-> get.names, table |-> get.table, where |-> {}, limit |-> <<>>]

With(f, t, value) == [x \in DOMAIN f \cup {t} |-> IF x = t THEN value ELSE f[x]]

Open(get, rows) ==
  /\ rest' = With(rest, get.table_index, rows)
  /\ scanned' = With(scanned, get.table_index, <<>>)
  /\ UNCHANGED <<planned, phase, drained, runs, server>>

Send(get, statement) ==
  IF Accepts(statement) /\ ~Busy(get.catalog)
  THEN Open(get, Rows(statement, tables))
  ELSE phase' = "failed" /\ UNCHANGED <<planned, results, runs, server>>

Unopened(get) == phase = "running" /\ get.table_index \notin DOMAIN rest

MySQLInitGlobalState ==
  \E get \in Gets(plan) :
    /\ IsMySQLScan(get) /\ Unopened(get)
    /\ Send(get, Select(get))
    /\ UNCHANGED bind

\* The result the bind had to fetch serves the first execution.
MySQLQueryInitGlobalState ==
  \E get \in Gets(plan) :
    /\ IsMySQLQuery(get) /\ Unopened(get)
    /\ IF bind[get.table_index] THEN Open(get, Rows(Query(get), tables)) ELSE Send(get, Query(get))
    /\ bind' = [bind EXCEPT ![get.table_index] = FALSE]

OpenLocal ==
  \E get \in Gets(plan) :
    /\ get \notin MySQLGets(plan) /\ Unopened(get)
    /\ Open(get, ScanOf(get, tables[get.table]))
    /\ UNCHANGED bind

\* MySQLExecuteQuery::Sink wants no more once it was given any row.
Sunk ==
  /\ Writes(plan)
  /\ DOMAIN scanned = {get.table_index : get \in Gets(plan)}
  /\ Evaluate(plan, scanned)[Root(plan).children[1]] # <<>>

\* An empty chunk tells DuckDB that a scan has no more rows.
MySQLScan ==
  \E t \in DOMAIN rest \ drained :
    LET n == IF VectorSize < Len(rest[t]) THEN VectorSize ELSE Len(rest[t]) IN
    /\ phase = "running" /\ ~Sunk
    /\ rest' = [rest EXCEPT ![t] = Skip(@, n)]
    /\ scanned' = [scanned EXCEPT ![t] = @ \o Take(rest[t], n)]
    /\ drained' = IF n = 0 THEN drained \cup {t} ELSE drained
    /\ UNCHANGED <<planned, phase, bind, runs, server>>

Drained == drained = {get.table_index : get \in Gets(plan)}

Finish ==
  /\ phase = "running" /\ ~Writes(plan) /\ Drained
  /\ phase' = "finished"
  /\ UNCHANGED <<planned, bind, results, runs, server>>

\* MySQLExecuteQuery::Finalize sends the statement.
Finalize ==
  /\ phase = "running" /\ Writes(plan) /\ (Sunk \/ Drained)
  /\ IF Busy(Root(plan).catalog) THEN Refuse("failed")
     ELSE /\ phase' = "finished"
          /\ tables' = [tables EXCEPT ![query.table] = Changed(query, @)]
          /\ affected' = AffectedRows(query, tables[query.table])
          /\ UNCHANGED <<planned, bind, results, runs, before>>

ExecuteAgain ==
  /\ phase = "finished" /\ runs < MaxRuns
  /\ Execute
  /\ UNCHANGED planned

Next ==
  \/ Optimize \/ PlanQuery \/ PlanDelete \/ PlanUpdate
  \/ MySQLInitGlobalState \/ MySQLQueryInitGlobalState \/ OpenLocal \/ MySQLScan
  \/ Finish \/ Finalize \/ ExecuteAgain

Spec == Init /\ [][Next]_vars

-----------------------------------------------------------------------------
(* Properties.                                                             *)

\* What is sent to the server and what stays in the plan add up: whatever is
\* streamed, whichever filters, LIMITs and columns went into the SELECTs and
\* in whatever order the scans are read, every execution has the rows, in the
\* order, of the plan that was bound.
AnswerIsRight ==
  phase = "finished" /\ ~Writes(bound) => Root(Evaluate(plan, scanned)) = Meaning(bound, tables)

\* An UPDATE or DELETE that was accepted changes the rows its plan selects,
\* to the values its expressions have on the row before, and no other row; a
\* DELETE reports as many.
WriteIsRight ==
  phase = "finished" /\ Writes(bound) =>
    LET table == Root(bound).table IN
    /\ tables[table] = Result(bound, before[table])
    /\ Root(bound).op = "delete" => affected = Len(before[table]) - Len(tables[table])

\* No command is refused: every SELECT is one the server accepts, and nothing
\* is sent while another result of the plan still occupies the connection.
NoCommandIsRefused == phase # "failed"
=============================================================================
