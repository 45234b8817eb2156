----------------------------- MODULE MySQLInsert -----------------------------
(***************************************************************************)
(* INSERT and CREATE TABLE AS (src/src/storage/mysql_insert.cpp): chunks   *)
(* of rows from the child plan are turned into the text of one multi-row   *)
(* INSERT, which is sent whenever it has grown to INSERT_FLUSH_SIZE and    *)
(* when the child is exhausted.                                            *)
(*                                                                         *)
(* The child is a list of pipelines (a UNION ALL); DuckDB opens the source *)
(* of each when it gets to it.  A source is a scan of the target table     *)
(* itself, materialized when it is opened, or anything else.  The text of  *)
(* a row is abstracted to its size, the transaction around it to what a    *)
(* rollback leaves in the table.                                           *)
(***************************************************************************)
EXTENDS Naturals, Sequences, FiniteSets

CONSTANTS
  NumColumns,   \* of the target table
  Values,       \* of a column
  DefaultValue, \* what the server gives a column that is not inserted
  Tables,       \* what the target may hold before: a set of sequences of rows
  Inserts,      \* the statements: a set of InsertType records
  RowSizes,     \* the bytes a row can take in insert_values
  VectorSize,   \* bound: STANDARD_VECTOR_SIZE, the rows of a chunk
  FlushSize,    \* INSERT_FLUSH_SIZE
  Faults        \* subset of {"execute"}: the commands to the server fail

Columns     == 1..NumColumns
Unspecified == 0   \* DConstants::INVALID_INDEX

Row   == [Columns -> Values \cup {DefaultValue}]
Tuple == Seq(Values \cup {DefaultValue})

(***************************************************************************)
(* "map" is column_index_map: the place of each column in the child's      *)
(* tuples, or empty when the statement names no columns.  A source with    *)
(* "scan" reads the columns "select" of the target, another one "tuples".  *)
(***************************************************************************)
InsertType ==
  [create  : BOOLEAN,
   map     : {<<>>} \cup [Columns -> 0..NumColumns],
   width   : Columns,
   sources : Seq([scan : BOOLEAN, select : Seq(Columns), tuples : Seq(Tuple)])]

Specified(map) == {c \in Columns : map[c] # Unspecified}

\* What DuckDB's binder makes of the column list of an INSERT.
WellFormed(st) ==
  /\ IF st.map = <<>>
     THEN st.width = NumColumns
     ELSE /\ {st.map[c] : c \in Specified(st.map)} = 1..st.width
          /\ \A c, d \in Specified(st.map) : st.map[c] = st.map[d] => c = d
  /\ \A i \in DOMAIN st.sources :
       /\ Len(st.sources[i].select) = st.width
       /\ \A j \in DOMAIN st.sources[i].tuples : Len(st.sources[i].tuples[j]) = st.width

ASSUME ConstantsAssumption ==
  /\ NumColumns \in Nat \ {0}
  /\ Tables \subseteq Seq(Row)
  /\ Inserts \subseteq InsertType
  /\ \A st \in Inserts : WellFormed(st)
  /\ RowSizes \subseteq Nat \ {0}
  /\ VectorSize \in Nat \ {0}
  /\ FlushSize \in Nat \ {0}
  /\ Faults \subseteq {"execute"}

VARIABLES
  pc,       \* where the operator is
  stmt,     \* the statement
  table,    \* the target, as the session of the transaction sees it
  original, \* auxiliary: what it held before the statement
  next,     \* the pipelines that were opened
  source,   \* the tuples the open pipeline has left
  chunk,    \* the tuples the current Sink call has left
  taken,    \* the size of its chunk
  values,   \* insert_values, as the sequence of tuples in it
  size,     \* insert_values.size()
  count,    \* insert_count
  sunk      \* auxiliary: every tuple that was given to Sink

vars == <<pc, stmt, table, original, next, source, chunk, taken, values, size,
          count, sunk>>

TypeOK ==
  /\ pc \in {"init", "running", "done", "failed", "rolled_back"}
  /\ stmt \in Inserts
  /\ table \in Seq(Row) /\ original \in Seq(Row)
  /\ next \in 0..Len(stmt.sources)
  /\ source \in Seq(Tuple) /\ chunk \in Seq(Tuple)
  /\ taken \in 0..VectorSize
  /\ values \in Seq(Tuple)
  /\ size \in Nat /\ count \in Nat
  /\ sunk \in Seq(Tuple)

Init ==
  /\ pc = "init"
  /\ stmt \in Inserts
  /\ original \in Tables
  /\ table = original
  /\ next = 0
  /\ source = <<>> /\ chunk = <<>> /\ taken = 0
  /\ values = <<>> /\ size = 0 /\ count = 0
  /\ sunk = <<>>
-----------------------------------------------------------------------------
\* Mutant of GetInsertColumns: the named columns in the order of the table.
TableOrder(map) ==
  IF map = <<>> THEN [c \in Columns |-> c]
  ELSE LET rank(c) == Cardinality({d \in Specified(map) : d <= c})
       IN [k \in 1..Cardinality(Specified(map)) |->
             CHOOSE c \in Specified(map) : rank(c) = k]

\* The columns named in the INSERT, in the order of the child's tuples.
GetInsertColumns(map) ==
  IF map = <<>> THEN [c \in Columns |-> c]
  ELSE [k \in 1..Cardinality(Specified(map)) |->
          CHOOSE c \in Specified(map) : map[c] = k]

\* The server puts each value into the column of that place in the list.
ServerRow(names, tuple) ==
  [c \in Columns |->
     IF \E k \in DOMAIN names : names[k] = c
     THEN tuple[CHOOSE k \in DOMAIN names : names[k] = c]
     ELSE DefaultValue]

ServerRows(tuples) ==
  [i \in 1..Len(tuples) |-> ServerRow(GetInsertColumns(stmt.map), tuples[i])]

\* An exception leaves the operator; what was sent stays sent.
Raise ==
  /\ pc' = "failed"
  /\ UNCHANGED table
-----------------------------------------------------------------------------
(***************************************************************************)
(* GetGlobalSinkState: CREATE TABLE AS creates its table here, OR REPLACE  *)
(* drops an old one first.                                                 *)
(***************************************************************************)
GetGlobalSinkState ==
  /\ pc = "init"
  /\ \/ /\ pc' = "running"
        /\ table' = IF stmt.create THEN <<>> ELSE table
     \/ stmt.create /\ "execute" \in Faults /\ Raise
  /\ UNCHANGED <<stmt, original, next, source, chunk, taken, values, size, count, sunk>>

Selected(rows, select) ==
  [i \in 1..Len(rows) |-> [k \in 1..Len(select) |-> rows[i][select[k]]]]

\* What a source delivers when it is opened over these rows of the target.
Delivers(src, rows) == IF src.scan THEN Selected(rows, src.select) ELSE src.tuples

\* MySQLInitGlobalState of the next pipeline; the scan is materialized.
OpenSource ==
  /\ pc = "running"
  /\ chunk = <<>> /\ source = <<>> /\ taken = 0
  /\ next < Len(stmt.sources)
  /\ next' = next + 1
  /\ source' = Delivers(stmt.sources[next + 1], table)
  /\ UNCHANGED <<pc, stmt, table, original, chunk, taken, values, size, count, sunk>>

\* Mutants of Sink: more rows than a vector holds; what follows the first
\* chunk of a source is dropped.
WholeSource ==
  /\ pc = "running"
  /\ chunk = <<>> /\ source # <<>> /\ taken = 0
  /\ chunk' = source /\ source' = <<>> /\ taken' = Len(source)
  /\ UNCHANGED <<pc, stmt, table, original, next, values, size, count, sunk>>

FirstChunkOnly ==
  /\ pc = "running"
  /\ chunk = <<>> /\ source # <<>> /\ taken = 0
  /\ \E n \in 1..VectorSize :
       /\ n <= Len(source)
       /\ chunk' = SubSeq(source, 1, n) /\ taken' = n
       /\ source' = <<>>
  /\ UNCHANGED <<pc, stmt, table, original, next, values, size, count, sunk>>

\* DuckDB calls Sink with the next chunk; its rows are cast to text.
Sink ==
  /\ pc = "running"
  /\ chunk = <<>> /\ source # <<>> /\ taken = 0
  /\ \E n \in 1..VectorSize :
       /\ n <= Len(source)
       /\ chunk' = SubSeq(source, 1, n)
       /\ source' = SubSeq(source, n + 1, Len(source))
       /\ taken' = n
  /\ UNCHANGED <<pc, stmt, table, original, next, values, size, count, sunk>>

\* The length of insert_values with a row of n bytes appended.
SizeWith(n) == size + n + (IF values = <<>> THEN 0 ELSE 2)

\* Mutants of AppendRow: insert_values is not reset after a flush; the row
\* that fills it is left out of the text.
KeepValues(tuple, n) ==
  /\ values' = Append(values, tuple) /\ size' = SizeWith(n)
  /\ table' = IF SizeWith(n) < FlushSize THEN table
              ELSE table \o ServerRows(Append(values, tuple))
  /\ UNCHANGED pc

FlushFirst(tuple, n) ==
  /\ IF SizeWith(n) < FlushSize
     THEN /\ values' = Append(values, tuple) /\ size' = SizeWith(n)
          /\ UNCHANGED table
     ELSE /\ values' = <<>> /\ size' = 0
          /\ table' = table \o ServerRows(values)
  /\ UNCHANGED pc

\* Append a row and, from FlushSize on, send what there is and start anew.
AppendRow(tuple, n) ==
  \/ /\ SizeWith(n) < FlushSize
     /\ values' = Append(values, tuple) /\ size' = SizeWith(n)
     /\ UNCHANGED <<pc, table>>
  \/ /\ SizeWith(n) >= FlushSize
     /\ table' = table \o ServerRows(Append(values, tuple))
     /\ values' = <<>> /\ size' = 0
     /\ UNCHANGED pc
  \/ /\ SizeWith(n) >= FlushSize /\ "execute" \in Faults
     /\ values' = Append(values, tuple) /\ size' = SizeWith(n)
     /\ Raise

\* One turn of the loop over the rows of the chunk.
SinkRow ==
  /\ pc = "running" /\ chunk # <<>>
  /\ \E n \in RowSizes : AppendRow(Head(chunk), n)
  /\ chunk' = Tail(chunk)
  /\ sunk' = Append(sunk, Head(chunk))
  /\ UNCHANGED <<stmt, original, next, source, taken, count>>

\* The end of Sink: insert_count += chunk.size().
EndSink ==
  /\ pc = "running" /\ chunk = <<>> /\ taken > 0
  /\ count' = count + taken
  /\ taken' = 0
  /\ UNCHANGED <<pc, stmt, table, original, next, source, chunk, values, size, sunk>>

AllSunk == source = <<>> /\ chunk = <<>> /\ taken = 0 /\ next = Len(stmt.sources)

\* Finalize: send what is left, if anything.
Finalize ==
  /\ pc = "running" /\ AllSunk
  /\ \/ pc' = "done" /\ table' = (IF values = <<>> THEN table ELSE table \o ServerRows(values))
     \/ values # <<>> /\ "execute" \in Faults /\ Raise
  /\ UNCHANGED <<stmt, original, next, source, chunk, taken, values, size, count, sunk>>

\* The child raises, a row cannot be cast, the query is interrupted.
ChildFails ==
  /\ pc = "running"
  /\ Raise
  /\ UNCHANGED <<stmt, original, next, source, chunk, taken, values, size, count, sunk>>

\* DuckDB rolls the transaction back; CREATE TABLE has ended it on the
\* server, and with it what follows is durable as it is sent.
Rollback ==
  /\ pc = "failed"
  /\ pc' = "rolled_back"
  /\ table' = IF stmt.create THEN table ELSE original
  /\ UNCHANGED <<stmt, original, next, source, chunk, taken, values, size, count, sunk>>

Next ==
  \/ GetGlobalSinkState \/ OpenSource \/ Sink \/ SinkRow \/ EndSink
  \/ Finalize \/ ChildFails \/ Rollback

Spec == Init /\ [][Next]_vars
-----------------------------------------------------------------------------
\* The row a tuple stands for, by the column list of the statement.
RowOf(map, tuple) ==
  [c \in Columns |->
     IF map = <<>> THEN tuple[c]
     ELSE IF map[c] = Unspecified THEN DefaultValue ELSE tuple[map[c]]]

RowsOf(tuples) == [i \in 1..Len(tuples) |-> RowOf(stmt.map, tuples[i])]

\* What the target held when the first row was sunk.
Base == IF stmt.create THEN <<>> ELSE original

(***************************************************************************)
(* Every row given to Sink is in the table or in insert_values, once, in   *)
(* order, each value in the column it was meant for; however the flushes   *)
(* fall, also when one of them failed and before the rollback.             *)
(***************************************************************************)
EveryRowOnce ==
  /\ pc \in {"running", "failed"} /\ sunk # <<>> =>
       table \o RowsOf(values) = Base \o RowsOf(sunk)
  /\ pc = "done" => table = Base \o RowsOf(sunk)

(***************************************************************************)
(* GetData reports as many rows as were inserted.                          *)
(***************************************************************************)
CountIsRows == pc = "done" => Len(table) = Len(Base) + count

(***************************************************************************)
(* No statement is longer than FlushSize and one more row: between rows    *)
(* insert_values stays below FlushSize (unless the flush failed).          *)
(***************************************************************************)
ValuesBounded == pc = "running" => size < FlushSize

\* What the first n pipelines of a statement deliver over these rows.
Selection(st, rows) ==
  LET first[n \in 0..Len(st.sources)] ==
        IF n = 0 THEN <<>> ELSE first[n - 1] \o Delivers(st.sources[n], rows)
  IN first

(***************************************************************************)
(* README.md, "INSERT INTO": a statement that succeeded has added what its *)
(* query selects from the tables as they were, and one that failed leaves  *)
(* nothing (a CREATE TABLE AS aside).                                      *)
(***************************************************************************)
InsertsSelection ==
  /\ pc = "done" =>
       table = Base \o RowsOf(Selection(stmt, original)[Len(stmt.sources)])
  /\ pc = "rolled_back" /\ ~stmt.create => table = original
=============================================================================
