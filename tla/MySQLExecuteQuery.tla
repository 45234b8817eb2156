-------------------------- MODULE MySQLExecuteQuery --------------------------
(***************************************************************************)
(* UPDATE and DELETE (src/src/storage/mysql_execute_query.cpp): the plan   *)
(* DuckDB made for the statement is turned back into the text of one       *)
(* statement, with the conditions found on the way down to the scan.       *)
(***************************************************************************)
EXTENDS MySQLPlans

\* What DuckDB prints for a filter, which the server is taken to understand.
Printed(column, filter) == <<[op |-> "DuckDB_text", column |-> column, filter |-> filter]>>

\* The places from each one down, through filters and projections.
Below(plan) ==
  LET below[i \in DOMAIN plan] ==
        {i} \cup (IF plan[i].op \in {"filter", "projection"}
                  THEN below[plan[i].children[1]] ELSE {})
  IN below

\* The operators and expressions the text is built from; anything else throws.
Supported(plan, child) ==
  \A i \in Below(plan)[child] :
    /\ plan[i].op \in {"filter", "projection", "get"}
    /\ plan[i].op = "projection" =>
         \A k \in DOMAIN plan[i].select_list :
           plan[i].select_list[k].type \in {"BOUND_REF", "VALUE_CONSTANT"}

\* mutant: only the topmost filter
FirstFilter(plan, child) ==
  IF plan[child].op = "filter" THEN {Printed(plan[child].name, plan[child].filter)} ELSE {}

Extracted(op) ==
  CASE op.op = "filter" -> {Printed(op.name, op.filter)}
    [] op.op = "get"    ->
         {Printed(op.names[op.column_ids[k]], op.filters[k]) : k \in DOMAIN op.filters}
    [] OTHER            -> {}

ExtractFilters(plan, child) == UNION {Extracted(plan[i]) : i \in Below(plan)[child]}

ConstructDeleteStatement(plan) ==
  LET op == Root(plan) IN
  [kind |-> "DELETE", table |-> op.table, where |-> ExtractFilters(plan, op.children[1])]

\* The child of an UPDATE is the projection its expressions refer to.
ConstructUpdateStatement(plan) ==
  LET op == Root(plan)
      projection == plan[op.children[1]]
  IN [kind |-> "UPDATE", table |-> op.table,
      set |-> [c \in DOMAIN op.columns |->
                 [column |-> op.columns[c],
                  value |-> IF op.expressions[c] = VALUE_DEFAULT THEN [type |-> "DEFAULT"]
                            ELSE projection.select_list[op.expressions[c]]]],
      where |-> ExtractFilters(plan, projection.children[1])]

\* RETURNING, and plans a statement cannot be made of, are refused.
Unsupported(plan) ==
  LET op == Root(plan)
      child == op.children[1]
  IN \/ op.return_chunk
     \/ op.op = "delete" /\ ~Supported(plan, child)
     \/ op.op = "update" /\ \/ plan[child].op # "projection"
                            \/ ~Supported(plan, plan[child].children[1])

-----------------------------------------------------------------------------
(* The server: an expression names its columns, and UPDATE assigns from    *)
(* left to right, to a row that has the assignments before.                *)

SQLValue(e, row) ==
  CASE e.type = "DEFAULT"        -> NULL
    [] e.type = "BOUND_REF"      -> row[e.name]
    [] e.type = "VALUE_CONSTANT" -> e.value
    [] e.type = "FUNCTION"       -> IF row[e.name] = NULL THEN NULL ELSE row[e.name] + e.value

Assigned(set, row) ==
  LET after[c \in 0..Len(set)] ==
        IF c = 0 THEN row
        ELSE [after[c - 1] EXCEPT ![set[c].column] = SQLValue(set[c].value, after[c - 1])]
  IN after[Len(set)]

Changed(statement, rows) ==
  IF statement.kind = "DELETE"
  THEN Keep(rows, {i \in DOMAIN rows : ~Matches(statement.where, rows[i])})
  ELSE [i \in DOMAIN rows |->
          IF Matches(statement.where, rows[i]) THEN Assigned(statement.set, rows[i]) ELSE rows[i]]

\* mysql_affected_rows: rows deleted, or rows that are not as they were.
AffectedRows(statement, rows) ==
  LET changed == Changed(statement, rows) IN
  IF statement.kind = "DELETE" THEN Len(rows) - Len(changed)
  ELSE Cardinality({i \in DOMAIN rows : changed[i] # rows[i]})
=============================================================================
