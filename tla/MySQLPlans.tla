------------------------------ MODULE MySQLPlans ------------------------------
(***************************************************************************)
(* The vocabulary of plans over MySQL tables: table filters and the        *)
(* conditions they are pushed as (src/src/mysql_filter_pushdown.cpp), what *)
(* a statement means to the server, and what a plan means to DuckDB.       *)
(*                                                                         *)
(* A tree of filters, conditions or operators is the sequence of its       *)
(* nodes: each one after its children, which it names by their places, and *)
(* the root last.  A row of a table is a function of column names, a row   *)
(* in a plan the sequence of its values.                                   *)
(***************************************************************************)
EXTENDS Integers, Sequences, FiniteSets

CONSTANT NULL

COLUMN_IDENTIFIER_ROW_ID == 0
VALUE_DEFAULT == 0   \* an expression of an UPDATE, else a place in the projection below

Root(tree) == tree[Len(tree)]

-----------------------------------------------------------------------------
(* Filters.  DuckDB gives a scan a tree of TableFilters for some of its    *)
(* columns and does not check them again above the scan.  An               *)
(* OPTIONAL_FILTER follows from an operator above, so that applying it is  *)
(* right too; a DYNAMIC_FILTER says nothing yet when the scan is opened.   *)

\* The truth values of SQL.
And3(S) == IF "false" \in S THEN "false" ELSE IF "unknown" \in S THEN "unknown" ELSE "true"
Or3(S)  == IF "true" \in S THEN "true" ELSE IF "unknown" \in S THEN "unknown" ELSE "false"
Known(b) == IF b THEN "true" ELSE "false"

Compares(comparison, v, w) ==
  CASE comparison = "COMPARE_EQUAL"       -> v = w
    [] comparison = "COMPARE_NOTEQUAL"    -> v # w
    [] comparison = "COMPARE_LESSTHAN"    -> v < w
    [] comparison = "COMPARE_GREATERTHAN" -> v > w
    [] comparison = "COMPARE_LESSTHANOREQUALTO"    -> v <= w
    [] comparison = "COMPARE_GREATERTHANOREQUALTO" -> v >= w

\* The truth of a filter on a value.
FilterTruth(f, v, truth) ==
  CASE f.type = "IS_NULL"             -> Known(v = NULL)
    [] f.type = "IS_NOT_NULL"         -> Known(v # NULL)
    [] f.type = "CONSTANT_COMPARISON" ->
         IF v = NULL THEN "unknown" ELSE Known(Compares(f.comparison, v, f.constant))
    [] f.type = "IN_FILTER"           -> IF v = NULL THEN "unknown" ELSE Known(v \in f.values)
    [] f.type = "CONJUNCTION_AND"     -> And3({truth[c] : c \in f.children})
    [] f.type = "CONJUNCTION_OR"      -> Or3({truth[c] : c \in f.children})
    [] f.type = "OPTIONAL_FILTER"     -> truth[f.child]
    [] f.type = "DYNAMIC_FILTER"      -> "true"

Passes(filter, v) ==
  LET truth[k \in DOMAIN filter] == FilterTruth(filter[k], v, truth) IN Root(truth) = "true"

TransformComparison(type) ==
  CASE type = "COMPARE_EQUAL"       -> "="
    [] type = "COMPARE_NOTEQUAL"    -> "!="
    [] type = "COMPARE_LESSTHAN"    -> "<"
    [] type = "COMPARE_GREATERTHAN" -> ">"
    [] type = "COMPARE_LESSTHANOREQUALTO"    -> "<="
    [] type = "COMPARE_GREATERTHANOREQUALTO" -> ">="

Empty == [op |-> "empty"]   \* the empty string: no condition

\* CreateExpression: the conditions that came out, joined; empty when none did.
Joined(op, children, conditions) ==
  LET entries == {c \in children : conditions[c] # Empty} IN
  IF entries = {} THEN Empty ELSE [op |-> op, children |-> entries]

TransformNode(name, f, conditions) ==
  CASE f.type = "IS_NULL"             -> [op |-> "IS_NULL", column |-> name]
    [] f.type = "IS_NOT_NULL"         -> [op |-> "IS_NOT_NULL", column |-> name]
    [] f.type = "CONSTANT_COMPARISON" ->
         [op |-> TransformComparison(f.comparison), column |-> name, constant |-> f.constant]
    [] f.type = "IN_FILTER"           -> [op |-> "IN", column |-> name, values |-> f.values]
    [] f.type = "CONJUNCTION_AND"     -> Joined("AND", f.children, conditions)
    [] f.type = "CONJUNCTION_OR"      -> Joined("OR", f.children, conditions)
    [] f.type = "OPTIONAL_FILTER"     -> conditions[f.child]
    [] f.type = "DYNAMIC_FILTER"      -> Empty

TransformFilter(name, filter) ==
  LET conditions[k \in DOMAIN filter] == TransformNode(name, filter[k], conditions)
  IN conditions

\* mutant: the place in column_ids taken for the column
NamesByPlace(get) ==
  {c \in {TransformFilter(get.names[k], get.filters[k]) : k \in DOMAIN get.filters} :
     Root(c) # Empty}

\* Filters are keyed by a place in column_ids, names by the column itself.
TransformFilters(get) ==
  {c \in {TransformFilter(get.names[get.column_ids[k]], get.filters[k]) :
            k \in DOMAIN get.filters} :
     Root(c) # Empty}

-----------------------------------------------------------------------------
(* The server.                                                             *)

\* Of the rows those at these places, in their order.
Keep(rows, places) ==
  LET kept[i \in 0..Len(rows)] ==
        IF i = 0 THEN <<>>
        ELSE IF i \in places THEN Append(kept[i - 1], rows[i]) ELSE kept[i - 1]
  IN kept[Len(rows)]

Skip(rows, n) == SubSeq(rows, n + 1, Len(rows))
Take(rows, n) == SubSeq(rows, 1, IF n < Len(rows) THEN n ELSE Len(rows))

CompareTruth(c, v) ==
  CASE c.op = "="  -> v = c.constant
    [] c.op = "!=" -> v # c.constant
    [] c.op = "<"  -> v < c.constant
    [] c.op = ">"  -> v > c.constant
    [] c.op = "<=" -> v <= c.constant
    [] c.op = ">=" -> v >= c.constant
    [] c.op = "IN" -> v \in c.values

ConditionTruth(c, row, truth) ==
  CASE c.op = "empty"       -> "true"
    [] c.op = "IS_NULL"     -> Known(row[c.column] = NULL)
    [] c.op = "IS_NOT_NULL" -> Known(row[c.column] # NULL)
    [] c.op = "AND" -> And3({truth[k] : k \in c.children})
    [] c.op = "OR"  -> Or3({truth[k] : k \in c.children})
    [] c.op = "DuckDB_text" -> Known(Passes(c.filter, row[c.column]))
    [] OTHER -> IF row[c.column] = NULL THEN "unknown" ELSE Known(CompareTruth(c, row[c.column]))

Holds(condition, row) ==
  LET truth[k \in DOMAIN condition] == ConditionTruth(condition[k], row, truth)
  IN Root(truth) = "true"

Matches(where, row) == \A c \in where : Holds(c, row)

\* The grammar of SELECT: OFFSET only ever follows LIMIT, each at most once.
Accepts(statement) ==
  \/ statement.limit = <<>>
  \/ Len(statement.limit) = 1 /\ statement.limit[1].word = "LIMIT"
  \/ Len(statement.limit) = 2 /\ statement.limit[1].word = "LIMIT"
                              /\ statement.limit[2].word = "OFFSET"

Matching(where, rows) == Keep(rows, {i \in DOMAIN rows : Matches(where, rows[i])})

\* The rows of a statement the grammar accepts.
Rows(statement, contents) ==
  LET matching == Matching(statement.where, contents[statement.table])
      offset == IF Len(statement.limit) = 2 THEN statement.limit[2].value ELSE 0
      limited == IF statement.limit = <<>> THEN matching
                 ELSE Take(Skip(matching, offset), statement.limit[1].value)
  IN [i \in DOMAIN limited |->
        [k \in DOMAIN statement.columns |->
           IF statement.columns[k] = NULL THEN NULL ELSE limited[i][statement.columns[k]]]]

-----------------------------------------------------------------------------
(* DuckDB: what a plan means, given the rows of its scans.                 *)

IsMySQLScan(get)  == get.function = "mysql_scan"
IsMySQLQuery(get) == get.function = "mysql_query"

Gets(plan) == {get \in {plan[i] : i \in DOMAIN plan} : get.op = "get"}

MySQLGets(plan) == {get \in Gets(plan) : IsMySQLScan(get) \/ IsMySQLQuery(get)}

\* A column of the child, by its place there, a constant, or one plus the other.
ValueOf(e, tuple) ==
  CASE e.type = "BOUND_REF"      -> tuple[e.index]
    [] e.type = "VALUE_CONSTANT" -> e.value
    [] e.type = "FUNCTION"       -> IF tuple[e.index] = NULL THEN NULL ELSE tuple[e.index] + e.value

Projected(list, rows) ==
  [i \in DOMAIN rows |-> [k \in DOMAIN list |-> ValueOf(list[k], rows[i])]]

Filtered(filter, index, rows) ==
  Keep(rows, {i \in DOMAIN rows : Passes(filter, rows[i][index])})

Limited(limit, rows) ==
  LET skipped == IF limit.offset_val.type = "UNSET" THEN rows
                 ELSE Skip(rows, limit.offset_val.value)
  IN IF limit.limit_val.type = "UNSET" THEN skipped ELSE Take(skipped, limit.limit_val.value)

\* The rows of an operator, from those of the operators below it.
Operate(op, scanned, rows) ==
  CASE op.op = "get"        -> scanned[op.table_index]
    [] op.op = "projection" -> Projected(op.select_list, rows[op.children[1]])
    [] op.op = "filter"     -> Filtered(op.filter, op.index, rows[op.children[1]])
    [] op.op = "union"      -> rows[op.children[1]] \o rows[op.children[2]]
    [] op.op = "limit"      -> Limited(op, rows[op.children[1]])
    [] OTHER                -> <<>>

\* The rows of each operator.
Evaluate(plan, scanned) ==
  LET rows[i \in DOMAIN plan] == Operate(plan[i], scanned, rows) IN rows

\* What a scan of these rows owes the plan it was bound in, without push-down.
ScanOf(get, rows) ==
  LET passing == Keep(rows, {i \in DOMAIN rows : \A k \in DOMAIN get.filters :
                               Passes(get.filters[k], rows[i][get.names[get.column_ids[k]]])})
  IN [i \in DOMAIN passing |->
        [k \in DOMAIN get.column_ids |->
           IF get.column_ids[k] = COLUMN_IDENTIFIER_ROW_ID THEN NULL
           ELSE passing[i][get.names[get.column_ids[k]]]]]

\* The rows of a query over these tables.
Meaning(plan, contents) ==
  LET scans == {get.table_index : get \in Gets(plan)}
      get(t) == CHOOSE g \in Gets(plan) : g.table_index = t
  IN Root(Evaluate(plan, [t \in scans |-> ScanOf(get(t), contents[get(t).table])]))

(***************************************************************************)
(* The rows a DELETE or UPDATE leaves: it concerns the rows that come      *)
(* through its child, and all expressions are those of the row before.     *)
(***************************************************************************)
Result(plan, rows) ==
  LET write == Root(plan)
      get   == CHOOSE g \in Gets(plan) : TRUE
      seen(r) == Evaluate(plan, [t \in {get.table_index} |-> ScanOf(get, <<r>>)])
                   [write.children[1]]
      value(k, r) == IF write.expressions[k] = VALUE_DEFAULT THEN NULL
                     ELSE seen(r)[1][write.expressions[k]]
      updated(r) == [n \in DOMAIN r |->
                       IF \E k \in DOMAIN write.columns : write.columns[k] = n
                       THEN value(CHOOSE k \in DOMAIN write.columns : write.columns[k] = n, r)
                       ELSE r[n]]
  IN IF write.op = "delete"
     THEN Keep(rows, {i \in DOMAIN rows : seen(rows[i]) = <<>>})
     ELSE [i \in DOMAIN rows |-> IF seen(rows[i]) = <<>> THEN rows[i] ELSE updated(rows[i])]
=============================================================================
