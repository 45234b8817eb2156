-------------------------- MODULE MySQLInsertProofs --------------------------
(***************************************************************************)
(* Proofs about MySQLInsert: whatever the statement, the sizes of its rows *)
(* and chunks and the commands that fail, the flushes neither lose nor     *)
(* repeat nor misplace a row.                                              *)
(***************************************************************************)
EXTENDS MySQLInsert, SequenceTheorems, FiniteSetTheorems, WellFoundedInduction, TLAPS

\* The tuples of a statement of width w.
Tuples(w) == [1..w -> Values \cup {DefaultValue}]

(***************************************************************************)
(* The inductive invariant: every tuple on its way has the width of the    *)
(* statement, what was taken from the child was counted or is in the       *)
(* current chunk, and table and insert_values hold what was sunk.          *)
(***************************************************************************)
Typed ==
  /\ pc \in {"init", "running", "done", "failed", "rolled_back"}
  /\ stmt \in Inserts
  /\ table \in Seq(Row) /\ original \in Seq(Row)
  /\ next \in 0..Len(stmt.sources)
  /\ source \in Seq(Tuples(stmt.width)) /\ chunk \in Seq(Tuples(stmt.width))
  /\ taken \in 0..VectorSize
  /\ values \in Seq(Tuples(stmt.width)) /\ sunk \in Seq(Tuples(stmt.width))
  /\ size \in Nat /\ count \in Nat

Fresh == pc = "init" =>
  /\ table = original /\ sunk = <<>> /\ values = <<>> /\ chunk = <<>>
  /\ size = 0 /\ count = 0 /\ taken = 0

Placed ==
  /\ pc = "running" \/ (pc = "failed" /\ sunk # <<>>) =>
       table \o RowsOf(values) = Base \o RowsOf(sunk)
  /\ pc = "done" => table = Base \o RowsOf(sunk)

Counted ==
  /\ pc = "running" => count + taken = Len(sunk) + Len(chunk)
  /\ pc = "done" => count = Len(sunk)

IInv == Typed /\ Fresh /\ Placed /\ Counted /\ ValuesBounded
-----------------------------------------------------------------------------
\* The binder numbers the specified columns 1..width, so the code counts
\* width of them.
LEMMA SpecifiedCount ==
  ASSUME ConstantsAssumption, NEW st \in Inserts, st.map # <<>>
  PROVE  /\ Cardinality(Specified(st.map)) = st.width
         /\ \A k \in 1..st.width : \E c \in Specified(st.map) : st.map[c] = k
<1> DEFINE S == Specified(st.map)
           f == [c \in S |-> st.map[c]]
<1>1. /\ st \in InsertType /\ WellFormed(st)
      /\ st.width \in Nat /\ NumColumns \in Nat
  <2>1. Inserts \subseteq InsertType /\ WellFormed(st) /\ NumColumns \in Nat
    BY DEF ConstantsAssumption
  <2>2. st \in InsertType BY <2>1
  <2> QED BY <2>1, <2>2 DEF InsertType, Columns
<1>2. {st.map[c] : c \in S} = 1..st.width
  BY <1>1 DEF WellFormed
<1>3. \A c, d \in S : st.map[c] = st.map[d] => c = d
  BY <1>1 DEF WellFormed
<1>4. f \in Bijection(S, 1..st.width)
  BY <1>2, <1>3 DEF Bijection, Injection, Surjection, IsInjective
<1>5. IsFiniteSet(S)
  <2>1. IsFiniteSet(Columns) BY <1>1, FS_Interval DEF Columns
  <2> QED BY <2>1, FS_Subset DEF Specified
<1>6. Cardinality(S) = Cardinality(1..st.width)
  BY <1>4, <1>5, FS_Bijection DEF ExistsBijection
<1>7. Cardinality(1..st.width) = st.width
  BY <1>1, FS_Interval
<1> QED BY <1>2, <1>6, <1>7

(***************************************************************************)
(* A row lands as it was meant: naming the columns in the order of the     *)
(* tuples, as GetInsertColumns does, puts every value into its column.     *)
(***************************************************************************)
LEMMA RowsLandInTheirColumns ==
  ASSUME ConstantsAssumption, NEW st \in Inserts, NEW t \in Tuples(st.width)
  PROVE  /\ RowOf(st.map, t) \in Row
         /\ ServerRow(GetInsertColumns(st.map), t) = RowOf(st.map, t)
<1> DEFINE m == st.map
           names == GetInsertColumns(m)
<1>1. /\ st \in InsertType /\ WellFormed(st)
      /\ m \in {<<>>} \cup [Columns -> 0..NumColumns]
      /\ st.width \in Nat /\ NumColumns \in Nat
  <2>1. Inserts \subseteq InsertType /\ WellFormed(st) /\ NumColumns \in Nat
    BY DEF ConstantsAssumption
  <2>2. st \in InsertType BY <2>1
  <2> QED BY <2>1, <2>2 DEF InsertType, Columns
<1>2. CASE m = <<>>
  <2>1. st.width = NumColumns BY <1>1, <1>2 DEF WellFormed
  <2>2. names = [c \in Columns |-> c] BY <1>2 DEF GetInsertColumns
  <2>3. ServerRow(names, t) = RowOf(m, t)
    BY <1>2, <2>2 DEF ServerRow, RowOf
  <2>4. RowOf(m, t) \in Row
    BY <1>2, <2>1 DEF RowOf, Row, Tuples, Columns
  <2> QED BY <2>3, <2>4
<1>3. CASE m # <<>>
  <2>1. m \in [Columns -> 0..NumColumns] BY <1>1, <1>3
  <2>2. names = [k \in 1..st.width |-> CHOOSE c \in Specified(m) : m[c] = k]
    BY <1>3, SpecifiedCount DEF GetInsertColumns
  <2>3. \A k \in 1..st.width : names[k] \in Specified(m) /\ m[names[k]] = k
    BY <1>3, <2>2, SpecifiedCount
  <2>4. \A c \in Specified(m) : m[c] \in 1..st.width /\ names[m[c]] = c
    <3>1. \A c \in Specified(m) : m[c] \in 1..st.width
      BY <1>1, <1>3 DEF WellFormed
    <3>2. \A c, d \in Specified(m) : m[c] = m[d] => c = d
      BY <1>1, <1>3 DEF WellFormed
    <3> QED BY <2>3, <3>1, <3>2
  <2>5. \A c \in Columns : ServerRow(names, t)[c] = RowOf(m, t)[c]
    <3> SUFFICES ASSUME NEW c \in Columns
                 PROVE  ServerRow(names, t)[c] = RowOf(m, t)[c]
      OBVIOUS
    <3>1. DOMAIN names = 1..st.width BY <2>2
    <3>2. CASE c \in Specified(m)
      <4>1. \A k \in DOMAIN names : names[k] = c => k = m[c]
        BY <2>3, <3>1
      <4>2. m[c] \in DOMAIN names /\ names[m[c]] = c
        BY <2>4, <3>1, <3>2
      <4>3. (CHOOSE k \in DOMAIN names : names[k] = c) = m[c]
        BY <4>1, <4>2
      <4> QED BY <1>3, <3>2, <4>2, <4>3 DEF ServerRow, RowOf, Specified
    <3>3. CASE c \notin Specified(m)
      <4>1. ~ \E k \in DOMAIN names : names[k] = c
        BY <2>3, <3>1, <3>3
      <4>2. m[c] = Unspecified BY <3>3 DEF Specified
      <4> QED BY <1>3, <4>1, <4>2 DEF ServerRow, RowOf
    <3> QED BY <3>2, <3>3
  <2>6. ServerRow(names, t) = RowOf(m, t)
    BY <2>5 DEF ServerRow, RowOf
  <2>7. RowOf(m, t) \in Row
    <3>1. \A c \in Columns : m[c] # Unspecified => t[m[c]] \in Values \cup {DefaultValue}
      BY <2>4 DEF Specified, Tuples
    <3> QED BY <1>3, <3>1 DEF RowOf, Row
  <2> QED BY <2>6, <2>7
<1> QED BY <1>2, <1>3

LEMMA RowsOfTuples ==
  ASSUME ConstantsAssumption, stmt \in Inserts, NEW s \in Seq(Tuples(stmt.width))
  PROVE  /\ RowsOf(s) \in Seq(Row) /\ Len(RowsOf(s)) = Len(s)
         /\ ServerRows(s) = RowsOf(s)
<1>1. \A i \in 1..Len(s) : s[i] \in Tuples(stmt.width)
  OBVIOUS
<1>2. \A i \in 1..Len(s) :
        /\ RowOf(stmt.map, s[i]) \in Row
        /\ ServerRow(GetInsertColumns(stmt.map), s[i]) = RowOf(stmt.map, s[i])
  BY <1>1, RowsLandInTheirColumns
<1>3. ServerRows(s) = RowsOf(s)
  BY <1>2 DEF ServerRows, RowsOf
<1>4. RowsOf(s) \in [1..Len(s) -> Row] /\ Len(s) \in Nat
  BY <1>2 DEF RowsOf
<1> QED BY <1>3, <1>4

LEMMA RowsOfAppend ==
  ASSUME ConstantsAssumption, stmt \in Inserts,
         NEW s \in Seq(Tuples(stmt.width)), NEW t \in Tuples(stmt.width)
  PROVE  RowsOf(Append(s, t)) = Append(RowsOf(s), RowOf(stmt.map, t))
<1>1. /\ Append(s, t) \in Seq(Tuples(stmt.width))
      /\ Len(Append(s, t)) = Len(s) + 1
      /\ \A i \in 1..Len(s) : Append(s, t)[i] = s[i]
      /\ Append(s, t)[Len(s) + 1] = t
  BY AppendProperties
<1>2. /\ RowsOf(s) \in Seq(Row) /\ Len(RowsOf(s)) = Len(s)
      /\ RowsOf(Append(s, t)) \in Seq(Row)
      /\ Len(RowsOf(Append(s, t))) = Len(s) + 1
  BY <1>1, RowsOfTuples
<1>3. RowOf(stmt.map, t) \in Row
  BY RowsLandInTheirColumns
<1>4. /\ Append(RowsOf(s), RowOf(stmt.map, t)) \in Seq(Row)
      /\ Len(Append(RowsOf(s), RowOf(stmt.map, t))) = Len(s) + 1
      /\ \A i \in 1..Len(s) : Append(RowsOf(s), RowOf(stmt.map, t))[i] = RowsOf(s)[i]
      /\ Append(RowsOf(s), RowOf(stmt.map, t))[Len(s) + 1] = RowOf(stmt.map, t)
  BY <1>2, <1>3, AppendProperties
<1>5. \A i \in 1..(Len(s) + 1) :
        RowsOf(Append(s, t))[i] = Append(RowsOf(s), RowOf(stmt.map, t))[i]
  <2>1. Len(s) \in Nat OBVIOUS
  <2>2. \A i \in 1..(Len(s) + 1) : RowsOf(Append(s, t))[i] = RowOf(stmt.map, Append(s, t)[i])
    BY <1>1 DEF RowsOf
  <2>3. \A i \in 1..Len(s) : RowsOf(s)[i] = RowOf(stmt.map, s[i])
    BY DEF RowsOf
  <2> QED BY <1>1, <1>4, <2>1, <2>2, <2>3
<1> QED BY <1>2, <1>4, <1>5, SeqEqual

LEMMA ConcatAppend ==
  ASSUME NEW S, NEW s \in Seq(S), NEW t \in Seq(S), NEW x \in S
  PROVE  s \o Append(t, x) = Append(s \o t, x)
<1>1. Append(t, x) = t \o <<x>> /\ Append(s \o t, x) = (s \o t) \o <<x>>
  BY AppendIsConcat, ConcatProperties
<1> QED BY <1>1, ConcatAssociative

(***************************************************************************)
(* The heart of the argument: appending a tuple to insert_values and to    *)
(* what was sunk, and moving insert_values to the table, keep them equal.  *)
(***************************************************************************)
LEMMA AppendAndFlush ==
  ASSUME ConstantsAssumption, Typed, NEW t \in Tuples(stmt.width),
         table \o RowsOf(values) = Base \o RowsOf(sunk)
  PROVE  /\ table \o RowsOf(Append(values, t)) = Base \o RowsOf(Append(sunk, t))
         /\ table \o ServerRows(Append(values, t)) = Base \o RowsOf(Append(sunk, t))
         /\ table \o ServerRows(Append(values, t)) \in Seq(Row)
<1> DEFINE row == RowOf(stmt.map, t)
<1>1. Base \in Seq(Row) BY DEF Base, Typed
<1>2. /\ RowsOf(values) \in Seq(Row) /\ RowsOf(sunk) \in Seq(Row)
      /\ row \in Row /\ table \in Seq(Row)
  BY RowsOfTuples, RowsLandInTheirColumns DEF Typed
<1>3. /\ RowsOf(Append(values, t)) = Append(RowsOf(values), row)
      /\ RowsOf(Append(sunk, t)) = Append(RowsOf(sunk), row)
  BY RowsOfAppend DEF Typed
<1>4. /\ table \o Append(RowsOf(values), row) = Append(table \o RowsOf(values), row)
      /\ Base \o Append(RowsOf(sunk), row) = Append(Base \o RowsOf(sunk), row)
  <2> HIDE DEF row
  <2>1. \A s, u \in Seq(Row) : s \o Append(u, row) = Append(s \o u, row)
    BY <1>2, ConcatAppend
  <2> QED BY <1>1, <1>2, <2>1
<1>5. Append(values, t) \in Seq(Tuples(stmt.width))
  BY AppendProperties DEF Typed
<1>6. /\ ServerRows(Append(values, t)) = RowsOf(Append(values, t))
      /\ RowsOf(Append(values, t)) \in Seq(Row)
  BY <1>5, RowsOfTuples DEF Typed
<1>7. table \o RowsOf(Append(values, t)) \in Seq(Row)
  BY <1>2, <1>6, ConcatProperties
<1> QED BY <1>3, <1>4, <1>6, <1>7

\* What a source delivers has the width of the statement.
LEMMA DeliversTuples ==
  ASSUME ConstantsAssumption, NEW st \in Inserts, NEW i \in DOMAIN st.sources,
         NEW rows \in Seq(Row)
  PROVE  Delivers(st.sources[i], rows) \in Seq(Tuples(st.width))
<1> DEFINE src == st.sources[i]
<1>1. st \in InsertType /\ WellFormed(st)
  <2>1. Inserts \subseteq InsertType /\ WellFormed(st) BY DEF ConstantsAssumption
  <2> QED BY <2>1
<1>2. /\ src \in [scan : BOOLEAN, select : Seq(Columns), tuples : Seq(Tuple)]
      /\ Len(src.select) = st.width
      /\ \A j \in DOMAIN src.tuples : Len(src.tuples[j]) = st.width
  <2> DEFINE SourceType == [scan : BOOLEAN, select : Seq(Columns), tuples : Seq(Tuple)]
  <2>1. st.sources \in Seq(SourceType)
    BY <1>1 DEF InsertType
  <2>2. src \in SourceType
    <3> HIDE DEF SourceType
    <3> QED BY <2>1, LenProperties, ElementOfSeq
  <2> QED BY <1>1, <2>2 DEF WellFormed
<1>3. CASE src.scan
  <2>1. \A j \in 1..Len(rows) :
          [k \in 1..Len(src.select) |-> rows[j][src.select[k]]] \in Tuples(st.width)
    <3>1. \A j \in 1..Len(rows) : rows[j] \in Row
      OBVIOUS
    <3>2. \A k \in 1..Len(src.select) : src.select[k] \in Columns
      BY <1>2
    <3> QED BY <1>2, <3>1, <3>2 DEF Tuples, Row
  <2>2. Selected(rows, src.select) \in [1..Len(rows) -> Tuples(st.width)] /\ Len(rows) \in Nat
    BY <2>1 DEF Selected
  <2> QED BY <1>3, <2>2 DEF Delivers
<1>4. CASE ~src.scan
  <2>1. src.tuples \in Seq(Tuple) BY <1>2
  <2>2. \A j \in 1..Len(src.tuples) : src.tuples[j] \in Tuples(st.width)
    <3>1. \A j \in 1..Len(src.tuples) :
            src.tuples[j] \in Tuple /\ Len(src.tuples[j]) = st.width
      BY <1>2, <2>1
    <3> QED BY <3>1 DEF Tuple, Tuples
  <2>3. src.tuples \in [1..Len(src.tuples) -> Tuples(st.width)] /\ Len(src.tuples) \in Nat
    BY <2>1, <2>2
  <2> QED BY <1>4, <2>3 DEF Delivers
<1> QED BY <1>3, <1>4
-----------------------------------------------------------------------------
LEMMA InitIInv == ASSUME ConstantsAssumption, Init PROVE IInv
<1>1. Typed
  <2>1. Tables \subseteq Seq(Row) BY DEF ConstantsAssumption
  <2>2. /\ <<>> \in Seq(Tuples(stmt.width)) /\ 0 \in 0..VectorSize
    BY DEF ConstantsAssumption
  <2>3. 0 \in 0..Len(stmt.sources)
    <3>1. stmt \in InsertType BY DEF Init, ConstantsAssumption
    <3> QED BY <3>1, LenProperties DEF InsertType
  <2> QED BY <2>1, <2>2, <2>3 DEF Init, Typed
<1>2. Fresh BY DEF Init, Fresh
<1>3. Placed /\ Counted /\ ValuesBounded
  BY DEF Init, Placed, Counted, ValuesBounded
<1> QED BY <1>1, <1>2, <1>3 DEF IInv

\* Steps that leave what was sunk, buffered and inserted alone.
LEMMA OtherStepsPreserve ==
  ASSUME ConstantsAssumption, IInv,
         OpenSource \/ Sink \/ EndSink \/ ChildFails \/ Rollback
  PROVE  IInv'
<1> USE DEF IInv
<1>1. stmt' = stmt /\ original' = original /\ values' = values /\ sunk' = sunk
      /\ size' = size
  BY DEF OpenSource, Sink, EndSink, ChildFails, Rollback
<1>2. Base' = Base /\ RowsOf(values)' = RowsOf(values) /\ RowsOf(sunk)' = RowsOf(sunk)
  BY <1>1 DEF Base, RowsOf
<1>3. CASE OpenSource
  <2>1. source' \in Seq(Tuples(stmt.width)) /\ next' \in 0..Len(stmt.sources)
    <3>1. stmt.sources \in Seq([scan : BOOLEAN, select : Seq(Columns), tuples : Seq(Tuple)])
      <4>1. stmt \in InsertType BY DEF Typed, ConstantsAssumption
      <4> QED BY <4>1 DEF InsertType
    <3>2. Len(stmt.sources) \in Nat /\ DOMAIN stmt.sources = 1..Len(stmt.sources)
      BY <3>1, LenProperties
    <3>3. next + 1 \in DOMAIN stmt.sources /\ next' \in 0..Len(stmt.sources)
      BY <1>3, <3>2 DEF OpenSource, Typed
    <3> QED BY <1>3, <3>3, DeliversTuples DEF OpenSource, Typed
  <2>2. Typed' BY <1>1, <1>3, <2>1 DEF OpenSource, Typed
  <2> QED BY <1>1, <1>2, <1>3, <2>2 DEF OpenSource, Fresh, Placed, Counted, ValuesBounded
<1>4. CASE Sink
  <2> PICK n \in 1..VectorSize :
        /\ n <= Len(source)
        /\ chunk' = SubSeq(source, 1, n)
        /\ source' = SubSeq(source, n + 1, Len(source))
        /\ taken' = n
    BY <1>4 DEF Sink
  <2>1. VectorSize \in Nat /\ Len(source) \in Nat
        /\ \A i \in 1..Len(source) : source[i] \in Tuples(stmt.width)
    BY DEF ConstantsAssumption, Typed
  <2>2. chunk' \in Seq(Tuples(stmt.width)) /\ Len(chunk') = n
    <3> HIDE DEF IInv
    <3>1. \A i \in 1..n : source[i] \in Tuples(stmt.width) BY <2>1
    <3> QED BY <2>1, <3>1, SubSeqProperties
  <2>3. source' \in Seq(Tuples(stmt.width))
    <3>1. \A i \in (n + 1)..Len(source) : source[i] \in Tuples(stmt.width) BY <2>1
    <3> QED BY <2>1, <3>1, SubSeqProperties
  <2>4. Typed' BY <1>1, <1>4, <2>1, <2>2, <2>3 DEF Sink, Typed
  <2>5. count + taken = Len(sunk) + Len(chunk) /\ taken = 0 /\ Len(chunk) = 0
    BY <1>4 DEF Sink, Counted
  <2>6. Counted'
    <3>1. count \in Nat /\ Len(sunk) \in Nat /\ n \in Nat BY <2>1 DEF Typed
    <3>2. pc' = "running" /\ count' = count /\ sunk' = sunk /\ taken' = n
      BY <1>4 DEF Sink
    <3> QED BY <2>2, <2>5, <3>1, <3>2 DEF Counted
  <2> QED BY <1>1, <1>2, <1>4, <2>4, <2>6 DEF Sink, Fresh, Placed, ValuesBounded
<1>5. CASE EndSink
  <2>1. Typed'
    BY <1>1, <1>5 DEF EndSink, Typed, ConstantsAssumption
  <2>2. Counted'
    <3>1. count \in Nat /\ taken \in Nat /\ Len(sunk) \in Nat /\ Len(chunk) = 0
      BY <1>5 DEF EndSink, Typed, ConstantsAssumption
    <3>2. /\ pc' = "running" /\ pc = "running"
          /\ count' = count + taken /\ taken' = 0 /\ chunk' = chunk
      BY <1>5 DEF EndSink
    <3> QED BY <1>1, <3>1, <3>2 DEF Counted
  <2> QED BY <1>1, <1>2, <1>5, <2>1, <2>2 DEF EndSink, Fresh, Placed, ValuesBounded
<1>6. CASE ChildFails
  BY <1>1, <1>2, <1>6 DEF ChildFails, Raise, Typed, Fresh, Placed, Counted, ValuesBounded
<1>7. CASE Rollback
  BY <1>1, <1>2, <1>7 DEF Rollback, Typed, Fresh, Placed, Counted, ValuesBounded
<1> QED BY <1>3, <1>4, <1>5, <1>6, <1>7

LEMMA GetGlobalSinkStatePreserves ==
  ASSUME ConstantsAssumption, IInv, GetGlobalSinkState
  PROVE  IInv'
<1> USE DEF IInv
<1>1. /\ pc = "init" /\ stmt' = stmt /\ original' = original
      /\ UNCHANGED <<next, source, chunk, taken, values, size, count, sunk>>
  BY DEF GetGlobalSinkState
<1>2. table' \in Seq(Row)
  <2>1. table' = <<>> \/ table' = table BY DEF GetGlobalSinkState, Raise
  <2> QED BY <2>1, EmptySeq DEF Typed
<1>3. Typed' BY <1>1, <1>2 DEF GetGlobalSinkState, Raise, Typed
<1>4. Placed'
  <2>1. sunk' = <<>> /\ values' = <<>> BY <1>1 DEF Fresh
  <2>2. RowsOf(values)' = RowsOf(sunk)'
    BY <2>1 DEF RowsOf
  <2>3. pc' = "running" => table' = Base'
    BY <1>1 DEF GetGlobalSinkState, Raise, Fresh, Base
  <2> QED BY <1>1, <2>1, <2>2, <2>3 DEF GetGlobalSinkState, Raise, Placed
<1>5. Counted' /\ ValuesBounded' /\ Fresh'
  BY <1>1 DEF GetGlobalSinkState, Raise, Fresh, Counted, ValuesBounded, ConstantsAssumption
<1> QED BY <1>3, <1>4, <1>5

LEMMA SinkRowPreserves ==
  ASSUME ConstantsAssumption, IInv, SinkRow
  PROVE  IInv'
<1> USE DEF IInv
<1> DEFINE t == Head(chunk)
<1>1. /\ pc = "running" /\ chunk # <<>> /\ chunk' = Tail(chunk)
      /\ sunk' = Append(sunk, t)
      /\ UNCHANGED <<stmt, original, next, source, taken, count>>
  BY DEF SinkRow
<1>2. t \in Tuples(stmt.width) /\ Tail(chunk) \in Seq(Tuples(stmt.width))
      /\ Len(Tail(chunk)) = Len(chunk) - 1
  BY <1>1, HeadTailProperties DEF Typed
<1>3. /\ Append(sunk, t) \in Seq(Tuples(stmt.width))
      /\ Append(values, t) \in Seq(Tuples(stmt.width))
      /\ Len(Append(sunk, t)) = Len(sunk) + 1
  BY <1>2, AppendProperties DEF Typed
<1>4. table \o RowsOf(values) = Base \o RowsOf(sunk)
  BY <1>1 DEF Placed
<1>5. /\ table \o RowsOf(Append(values, t)) = Base \o RowsOf(Append(sunk, t))
      /\ table \o ServerRows(Append(values, t)) = Base \o RowsOf(Append(sunk, t))
      /\ table \o ServerRows(Append(values, t)) \in Seq(Row)
  BY <1>2, <1>4, AppendAndFlush
<1>6. PICK n \in RowSizes : AppendRow(t, n)
  BY DEF SinkRow
<1>7. n \in Nat /\ SizeWith(n) \in Nat /\ FlushSize \in Nat \ {0}
  BY DEF ConstantsAssumption, SizeWith, Typed
<1>8. Base' = Base BY <1>1 DEF Base
<1>9. RowsOf(sunk)' = RowsOf(Append(sunk, t))
  BY <1>1 DEF RowsOf
<1>10. Counted'
  <2>1. /\ Len(sunk) \in Nat /\ Len(chunk) \in Nat
        /\ count + taken = Len(sunk) + Len(chunk)
    BY <1>1 DEF Typed, Counted
  <2>2. pc' # "done" BY <1>1, <1>6 DEF AppendRow, Raise
  <2> QED BY <1>1, <1>2, <1>3, <2>1, <2>2 DEF Counted
<1>11. CASE values' = Append(values, t) /\ size' = SizeWith(n) /\ table' = table
            /\ (pc' = "failed" \/ (pc' = pc /\ SizeWith(n) < FlushSize))
  <2>1. RowsOf(values)' = RowsOf(Append(values, t)) BY <1>1, <1>11 DEF RowsOf
  <2>2. Typed' BY <1>1, <1>2, <1>3, <1>7, <1>11 DEF Typed
  <2>3. Placed' BY <1>1, <1>5, <1>8, <1>9, <1>11, <2>1 DEF Placed
  <2>4. ValuesBounded' /\ Fresh' BY <1>1, <1>7, <1>11 DEF ValuesBounded, Fresh
  <2> QED BY <1>10, <2>2, <2>3, <2>4
<1>12. CASE values' = <<>> /\ size' = 0 /\ pc' = pc
            /\ table' = table \o ServerRows(Append(values, t))
  <2>1. RowsOf(values)' = <<>> BY <1>12 DEF RowsOf
  <2>2. Typed' BY <1>1, <1>2, <1>3, <1>5, <1>12 DEF Typed
  <2>3. table' \o RowsOf(values)' = table'
    BY <1>5, <1>12, <2>1, ConcatEmptySeq
  <2>4. Placed' BY <1>1, <1>5, <1>8, <1>9, <1>12, <2>3 DEF Placed
  <2>5. ValuesBounded' /\ Fresh' BY <1>1, <1>7, <1>12 DEF ValuesBounded, Fresh
  <2> QED BY <1>10, <2>2, <2>4, <2>5
<1> QED BY <1>6, <1>11, <1>12 DEF AppendRow, Raise

LEMMA FinalizePreserves ==
  ASSUME ConstantsAssumption, IInv, Finalize
  PROVE  IInv'
<1> USE DEF IInv
<1>1. /\ pc = "running" /\ chunk = <<>> /\ taken = 0
      /\ UNCHANGED <<stmt, original, next, source, chunk, taken, values, size, count, sunk>>
  BY DEF Finalize, AllSunk
<1>2. table \o RowsOf(values) = Base \o RowsOf(sunk) BY <1>1 DEF Placed
<1>3. Base' = Base /\ RowsOf(values)' = RowsOf(values) /\ RowsOf(sunk)' = RowsOf(sunk)
  BY <1>1 DEF Base, RowsOf
<1>4. /\ ServerRows(values) = RowsOf(values) /\ RowsOf(values) \in Seq(Row)
      /\ table \o RowsOf(values) \in Seq(Row)
      /\ values = <<>> => table \o RowsOf(values) = table
  <2>1. ServerRows(values) = RowsOf(values) /\ RowsOf(values) \in Seq(Row)
    BY RowsOfTuples DEF Typed
  <2>2. table \o RowsOf(values) \in Seq(Row)
    BY <2>1, ConcatProperties DEF Typed
  <2>3. values = <<>> => RowsOf(values) = <<>> BY DEF RowsOf
  <2>4. table \o <<>> = table BY ConcatEmptySeq DEF Typed
  <2> QED BY <2>1, <2>2, <2>3, <2>4
<1>5. \/ pc' = "done" /\ table' = table \o RowsOf(values)
      \/ pc' = "failed" /\ table' = table
  BY <1>4 DEF Finalize, Raise
<1>6. Typed' BY <1>1, <1>4, <1>5 DEF Typed
<1>7. Placed' BY <1>2, <1>3, <1>5 DEF Placed
<1>8. Counted' /\ Fresh' /\ ValuesBounded'
  <2>1. count = Len(sunk)
    <3>1. count + taken = Len(sunk) + Len(chunk) /\ Len(chunk) = 0 /\ taken = 0
      BY <1>1 DEF Counted
    <3> QED BY <3>1 DEF Typed
  <2> QED BY <1>1, <1>5, <2>1 DEF Counted, Fresh, ValuesBounded
<1> QED BY <1>6, <1>7, <1>8

LEMMA NextIInv == ASSUME ConstantsAssumption, IInv, [Next]_vars PROVE IInv'
<1>1. CASE Next
  BY <1>1, GetGlobalSinkStatePreserves, OtherStepsPreserve, SinkRowPreserves,
     FinalizePreserves DEF Next
<1>2. CASE UNCHANGED vars
  <2>1. Base' = Base /\ RowsOf(values)' = RowsOf(values) /\ RowsOf(sunk)' = RowsOf(sunk)
    BY <1>2 DEF vars, Base, RowsOf
  <2> QED BY <1>2, <2>1 DEF vars, IInv, Typed, Fresh, Placed, Counted, ValuesBounded
<1> QED BY <1>1, <1>2

LEMMA Invariance == ASSUME ConstantsAssumption PROVE Spec => []IInv
<1>1. Init => IInv BY InitIInv
<1>2. IInv /\ [Next]_vars => IInv' BY NextIInv
<1> QED BY <1>1, <1>2, PTL DEF Spec

(***************************************************************************)
(* Every row given to Sink reaches the table once, in order, in its        *)
(* columns, or is still in insert_values (mysql_insert.cpp, Sink and       *)
(* Finalize).                                                              *)
(***************************************************************************)
THEOREM RowsAreInsertedOnce == Spec => []EveryRowOnce
<1>1. IInv => EveryRowOnce
  BY DEF IInv, Placed, EveryRowOnce
<1> QED BY <1>1, Invariance, ConstantsAssumption, PTL

(***************************************************************************)
(* The text of a statement stays below FlushSize between rows.             *)
(***************************************************************************)
THEOREM StatementsAreBounded == Spec => []ValuesBounded
<1>1. IInv => ValuesBounded BY DEF IInv
<1> QED BY <1>1, Invariance, ConstantsAssumption, PTL

(***************************************************************************)
(* The count a statement reports is the number of rows it added (GetData). *)
(***************************************************************************)
THEOREM CountIsExact == Spec => []CountIsRows
<1>1. IInv => CountIsRows
  <2> SUFFICES ASSUME IInv, pc = "done" PROVE Len(table) = Len(Base) + count
    BY DEF CountIsRows
  <2>1. table = Base \o RowsOf(sunk) /\ count = Len(sunk)
    BY DEF IInv, Placed, Counted
  <2>2. Base \in Seq(Row) BY DEF IInv, Typed, Base
  <2>3. RowsOf(sunk) \in Seq(Row) /\ Len(RowsOf(sunk)) = Len(sunk)
    BY RowsOfTuples, ConstantsAssumption DEF IInv, Typed
  <2>4. Len(table) = Len(Base) + Len(RowsOf(sunk))
    BY <2>1, <2>2, <2>3, ConcatProperties
  <2> QED BY <2>1, <2>3, <2>4
<1> QED BY <1>1, Invariance, ConstantsAssumption, PTL

(***************************************************************************)
(* Every reachable state is well typed: whatever the statement delivers,   *)
(* the buffers hold tuples and the table rows (mysql_insert.cpp, Sink).    *)
(***************************************************************************)
THEOREM InsertTyped == Spec => []TypeOK
<1>1. IInv => TypeOK
  <2> SUFFICES ASSUME IInv PROVE TypeOK
    OBVIOUS
  <2>1. stmt.width \in Nat
    <3>1. stmt \in InsertType /\ NumColumns \in Nat
      BY ConstantsAssumption DEF IInv, Typed
    <3> QED BY <3>1 DEF InsertType, Columns
  <2>2. Tuples(stmt.width) \subseteq Tuple
    BY <2>1 DEF Tuples, Tuple
  <2>3. \A s \in Seq(Tuples(stmt.width)) : s \in Seq(Tuple)
    <3> HIDE DEF Tuples, Tuple
    <3> SUFFICES ASSUME NEW s \in Seq(Tuples(stmt.width)) PROVE s \in Seq(Tuple)
      OBVIOUS
    <3>1. s \in [1..Len(s) -> Tuple] /\ Len(s) \in Nat
      BY <2>2, LenProperties
    <3> QED BY <3>1
  <2> QED BY <2>3 DEF IInv, Typed, TypeOK
<1> QED BY <1>1, Invariance, ConstantsAssumption, PTL
-----------------------------------------------------------------------------
(***************************************************************************)
(* The statements InsertsSelection is claimed for: the target is scanned   *)
(* in the first pipeline only, and not while it is being created, since    *)
(* what a later one reads are the rows already flushed.                    *)
(***************************************************************************)
ScansFirst ==
  \A st \in Inserts : \A i \in DOMAIN st.sources :
    st.sources[i].scan => i = 1 /\ ~st.create

(***************************************************************************)
(* The rows sunk and those still on their way are what the pipelines       *)
(* opened so far select from the target as it was.                         *)
(***************************************************************************)
Untouched == next = 0 =>
  /\ values = <<>> /\ sunk = <<>> /\ chunk = <<>> /\ source = <<>>
  /\ pc = "running" => table = Base

Selects ==
  /\ pc = "init" => next = 0
  /\ pc = "running" => sunk \o (chunk \o source) = Selection(stmt, original)[next]
  /\ pc = "done" => sunk = Selection(stmt, original)[Len(stmt.sources)]
  /\ pc = "rolled_back" /\ ~stmt.create => table = original

SelInv == IInv /\ Untouched /\ Selects
-----------------------------------------------------------------------------
\* Induction: what holds of 0 and passes to the next number holds up to m.
LEMMA Climb ==
  ASSUME NEW S, S \subseteq Nat, 0 \in S, NEW m \in Nat,
         \A n \in Nat : n < m /\ n \in S => n + 1 \in S
  PROVE  \A n \in 0..m : n \in S
<1> DEFINE B == (0..m) \ S
           R == {x \in Nat \X Nat : x[1] < x[2]}
<1> SUFFICES ASSUME B # {} PROVE FALSE
  OBVIOUS
<1>1. IsWellFoundedOn(R, Nat)
  BY NatLessThanWellFounded DEF OpToRel, IsWellFoundedOn
<1>2. B \subseteq Nat OBVIOUS
<1>3. PICK x \in B : \A y \in B : <<y, x>> \notin R
  <2> HIDE DEF B, R
  <2> QED BY <1>1, <1>2, WFMin
<1>4. x # 0 /\ x - 1 \in 0..m /\ x - 1 \in Nat /\ x - 1 < m /\ (x - 1) + 1 = x
  OBVIOUS
<1>5. <<x - 1, x>> \in R BY <1>3, <1>4
<1>6. x - 1 \in S BY <1>3, <1>4, <1>5
<1> QED BY <1>3, <1>4, <1>6
LEMMA SourcesOf ==
  ASSUME ConstantsAssumption, NEW st \in Inserts
  PROVE  Len(st.sources) \in Nat /\ DOMAIN st.sources = 1..Len(st.sources)
<1>1. st.sources \in Seq([scan : BOOLEAN, select : Seq(Columns), tuples : Seq(Tuple)])
  <2>1. st \in InsertType BY DEF ConstantsAssumption
  <2> QED BY <2>1 DEF InsertType
<1> QED BY <1>1, LenProperties

(***************************************************************************)
(* Selection is the function its recursive definition says: there is one,  *)
(* as it can be built a pipeline at a time.                                *)
(***************************************************************************)
LEMMA SelectionSteps ==
  ASSUME ConstantsAssumption, NEW st \in Inserts, NEW rows \in Seq(Row)
  PROVE  /\ Len(st.sources) \in Nat
         /\ Selection(st, rows) \in [0..Len(st.sources) -> Seq(Tuples(st.width))]
         /\ Selection(st, rows)[0] = <<>>
         /\ \A n \in 1..Len(st.sources) :
              Selection(st, rows)[n]
                = Selection(st, rows)[n - 1] \o Delivers(st.sources[n], rows)
<1> DEFINE m == Len(st.sources)
           T == Seq(Tuples(st.width))
           D(n) == Delivers(st.sources[n], rows)
           Is(f, k) == /\ f \in [0..k -> T] /\ f[0] = <<>>
                       /\ \A n \in 1..k : f[n] = f[n - 1] \o D(n)
           S == {k \in Nat : k <= m => \E f : Is(f, k)}
<1>1. m \in Nat /\ DOMAIN st.sources = 1..m
  BY SourcesOf
<1>2. \A n \in 1..m : D(n) \in T
  BY <1>1, DeliversTuples
<1>3. <<>> \in T /\ \A s, t \in T : s \o t \in T
  <2> DEFINE U == Tuples(st.width)
  <2> HIDE DEF U
  <2> SUFFICES <<>> \in Seq(U) /\ \A s, t \in Seq(U) : s \o t \in Seq(U)
    BY DEF U
  <2> QED BY EmptySeq, ConcatProperties
<1> HIDE DEF D, T, m
<1>4. Is([n \in 0..0 |-> <<>>], 0)
  BY <1>3
<1>5. \A k \in Nat : k < m /\ k \in S => k + 1 \in S
  <2> SUFFICES ASSUME NEW k \in Nat, k < m, k \in S PROVE k + 1 \in S
    OBVIOUS
  <2>0. PICK f : Is(f, k)
    <3> HIDE DEF Is
    <3> QED BY <1>1
  <2> DEFINE g == [n \in 0..(k + 1) |-> IF n = k + 1 THEN f[k] \o D(k + 1) ELSE f[n]]
  <2>1. k + 1 \in 1..m /\ f[k] \in T BY <1>1, <2>0
  <2>2. f[k] \o D(k + 1) \in T BY <1>2, <1>3, <2>1
  <2>3. g \in [0..(k + 1) -> T] /\ g[0] = <<>> BY <2>0, <2>2
  <2>4. \A n \in 1..(k + 1) : g[n] = g[n - 1] \o D(n)
    <3> SUFFICES ASSUME NEW n \in 1..(k + 1) PROVE g[n] = g[n - 1] \o D(n)
      OBVIOUS
    <3>1. CASE n = k + 1
      <4>1. n - 1 = k /\ k \in 0..(k + 1) /\ k # k + 1 BY <3>1
      <4>2. g[k] = f[k] /\ g[k + 1] = f[k] \o D(k + 1)
        <5> HIDE DEF Is
        <5> QED BY <4>1
      <4> QED BY <3>1, <4>1, <4>2
    <3>2. CASE n # k + 1
      <4>1. n \in 1..k /\ n - 1 \in 0..k /\ n - 1 # k + 1 BY <3>2
      <4>2. g[n] = f[n] /\ g[n - 1] = f[n - 1] BY <3>2, <4>1
      <4> QED BY <2>0, <4>1, <4>2
    <3> QED BY <3>1, <3>2
  <2>5. Is(g, k + 1)
    <3> HIDE DEF g
    <3> QED BY <2>3, <2>4
  <2>6. \E h : Is(h, k + 1)
    <3> HIDE DEF g, Is
    <3> QED BY <2>5
  <2> HIDE DEF Is
  <2> QED BY <2>6
<1>6. m \in S
  <2>1. 0 \in S BY <1>4
  <2>2. \A n \in 0..m : n \in S
    <3>1. S \subseteq Nat OBVIOUS
    <3> HIDE DEF S
    <3> QED BY <1>1, <1>5, <2>1, <3>1, Climb
  <2> HIDE DEF S
  <2> QED BY <1>1, <2>2
<1>7. PICK f : Is(f, m)
  <2> HIDE DEF Is
  <2> QED BY <1>1, <1>6
<1>8. f = [n \in 0..m |-> IF n = 0 THEN <<>> ELSE f[n - 1] \o D(n)]
  <2>1. \A n \in 0..m : f[n] = IF n = 0 THEN <<>> ELSE f[n - 1] \o D(n)
    BY <1>1, <1>7
  <2>2. f \in [0..m -> T] BY <1>7
  <2> QED BY <2>1, <2>2
<1> DEFINE s == Selection(st, rows)
<1>9. s = [n \in 0..m |-> IF n = 0 THEN <<>> ELSE s[n - 1] \o D(n)]
  BY <1>8, Zenon DEF Selection, m, D
<1>10. /\ s[0] = <<>> /\ DOMAIN s = 0..m
       /\ \A n \in 1..m : s[n] = s[n - 1] \o D(n)
  <2> DEFINE e(n) == IF n = 0 THEN <<>> ELSE s[n - 1] \o D(n)
  <2>1. s = [n \in 0..m |-> e(n)] BY <1>9
  <2> HIDE DEF s, e
  <2>2. DOMAIN s = 0..m /\ \A n \in 0..m : s[n] = e(n) BY <2>1
  <2>3. 0 \in 0..m /\ \A n \in 1..m : n \in 0..m /\ n # 0 BY <1>1
  <2> QED BY <2>2, <2>3 DEF e
<1>11. \A n \in 0..m : s[n] \in T
  <2> DEFINE G == {n \in Nat : n <= m => s[n] \in T}
  <2> HIDE DEF s
  <2>1. 0 \in G BY <1>3, <1>10
  <2>2. \A n \in Nat : n < m /\ n \in G => n + 1 \in G
    <3> SUFFICES ASSUME NEW n \in Nat, n < m, s[n] \in T PROVE s[n + 1] \in T
      BY <1>1
    <3>1. n + 1 \in 1..m /\ (n + 1) - 1 = n BY <1>1
    <3>2. s[n + 1] = s[n] \o D(n + 1) BY <1>10, <3>1
    <3> QED BY <1>2, <1>3, <3>1, <3>2
  <2>3. G \subseteq Nat OBVIOUS
  <2>4. \A n \in 0..m : n \in G
    <3> HIDE DEF G
    <3> QED BY <1>1, <2>1, <2>2, <2>3, Climb
  <2> QED BY <1>1, <2>4
<1>12. s \in [0..m -> T]
  <2> HIDE DEF s
  <2>1. s = [n \in 0..m |-> s[n]]
    BY <1>9
  <2> QED BY <1>11, <2>1
<1> QED BY <1>1, <1>10, <1>12 DEF m, T, D

LEMMA SeqFacts ==
  ASSUME NEW S
  PROVE  /\ <<>> \in Seq(S)
         /\ \A s \in Seq(S) : <<>> \o s = s /\ s \o <<>> = s
         /\ \A s, t \in Seq(S) : s \o t \in Seq(S)
         /\ \A x, y, z \in Seq(S) : (x \o y) \o z = x \o (y \o z)
<1>1. <<>> \in Seq(S) BY EmptySeq
<1>2. ASSUME NEW s \in Seq(S) PROVE <<>> \o s = s /\ s \o <<>> = s
  BY ConcatEmptySeq
<1>3. ASSUME NEW s \in Seq(S), NEW t \in Seq(S) PROVE s \o t \in Seq(S)
  BY ConcatProperties
<1>4. ASSUME NEW x \in Seq(S), NEW y \in Seq(S), NEW z \in Seq(S)
      PROVE  (x \o y) \o z = x \o (y \o z)
  BY ConcatAssociative
<1> QED BY <1>1, <1>2, <1>3, <1>4

\* A row handed on, and a chunk taken, leave the order of the rows alone.
LEMMA RowHandedOn ==
  ASSUME NEW S, NEW s \in Seq(S), NEW c \in Seq(S), NEW r \in Seq(S), c # <<>>
  PROVE  Append(s, Head(c)) \o (Tail(c) \o r) = s \o (c \o r)
<1>1. Head(c) \in S /\ Tail(c) \in Seq(S) /\ <<Head(c)>> \in Seq(S)
  BY HeadTailProperties
<1>2. Append(s, Head(c)) = s \o <<Head(c)>>
  BY <1>1, AppendIsConcat
<1>3. Tail(c) \o r \in Seq(S)
  BY <1>1, ConcatProperties
<1>4. <<Head(c)>> \o Tail(c) = c
  <2>1. Len(c) \in Nat \ {0} /\ 1 \in 1..Len(c) /\ Len(c) \in 1..Len(c)
    BY EmptySeq
  <2>2. SubSeq(c, 1, Len(c)) = <<c[1]>> \o SubSeq(c, 1 + 1, Len(c))
    BY <2>1, SubSeqRecursiveFirst
  <2>3. Head(c) = c[1] /\ Tail(c) = SubSeq(c, 2, Len(c)) /\ SubSeq(c, 1, Len(c)) = c
    BY <2>1, TailIsSubSeq, SubSeqFull
  <2> QED BY <2>2, <2>3
<1>5. \A x, y, z \in Seq(S) : (x \o y) \o z = x \o (y \o z)
  BY SeqFacts
<1>6. (s \o <<Head(c)>>) \o (Tail(c) \o r) = s \o (<<Head(c)>> \o (Tail(c) \o r))
  BY <1>1, <1>3, <1>5, Zenon
<1>7. (<<Head(c)>> \o Tail(c)) \o r = <<Head(c)>> \o (Tail(c) \o r)
  BY <1>1, <1>5, Zenon
<1> QED BY <1>2, <1>4, <1>6, <1>7

LEMMA ChunkTaken ==
  ASSUME NEW S, NEW s \in Seq(S), NEW n \in 1..Len(s)
  PROVE  SubSeq(s, 1, n) \o SubSeq(s, n + 1, Len(s)) = s
<1>1. Len(s) \in Nat BY LenProperties
<1>2. SubSeq(s, 1, n) \o SubSeq(s, n + 1, Len(s)) = SubSeq(s, 1, Len(s))
  BY <1>1, ConcatAdjacentSubSeq
<1> QED BY <1>2, SubSeqFull
-----------------------------------------------------------------------------
LEMMA InitSelects ==
  ASSUME ConstantsAssumption, Init
  PROVE  Untouched /\ Selects
<1> QED BY DEF Init, Untouched, Selects

LEMMA StartSelects ==
  ASSUME ConstantsAssumption, SelInv, GetGlobalSinkState
  PROVE  Untouched' /\ Selects'
<1>1. /\ pc = "init" /\ next = 0 /\ stmt' = stmt /\ original' = original
      /\ UNCHANGED <<next, source, chunk, values, sunk>>
  BY DEF GetGlobalSinkState, SelInv, Selects
<1>2. values = <<>> /\ sunk = <<>> /\ chunk = <<>> /\ source = <<>> /\ table = original
  BY <1>1 DEF SelInv, Untouched, IInv, Fresh
<1>3. Untouched'
  BY <1>1, <1>2 DEF GetGlobalSinkState, Raise, Untouched, Base
<1>4. Selection(stmt, original)[0] = <<>>
  BY SelectionSteps DEF SelInv, IInv, Typed
<1>5. <<>> \o (<<>> \o <<>>) = <<>>
  BY SeqFacts
<1>6. pc' \in {"running", "failed"}
  BY DEF GetGlobalSinkState, Raise
<1> QED BY <1>1, <1>2, <1>3, <1>4, <1>5, <1>6 DEF Selects

LEMMA OpenSelects ==
  ASSUME ConstantsAssumption, ScansFirst, SelInv, OpenSource
  PROVE  Untouched' /\ Selects'
<1> DEFINE U == Tuples(stmt.width)
           from == Selection(stmt, original)
           src == stmt.sources[next + 1]
<1>1. /\ pc = "running" /\ pc' = pc /\ next < Len(stmt.sources) /\ next' = next + 1
      /\ chunk = <<>> /\ source = <<>> /\ source' = Delivers(src, table)
      /\ UNCHANGED <<stmt, original, table, chunk, values, sunk>>
  BY DEF OpenSource
<1>2. /\ stmt \in Inserts /\ original \in Seq(Row) /\ sunk \in Seq(U)
      /\ next \in 0..Len(stmt.sources) /\ source' \in Seq(U)
  <2>1. SelInv => IInv BY DEF SelInv
  <2>2. IInv' BY <2>1, OtherStepsPreserve
  <2> QED BY <1>1, <2>1, <2>2 DEF IInv, Typed
<1>3. Len(stmt.sources) \in Nat /\ next + 1 \in 1..Len(stmt.sources)
  BY <1>1, <1>2, SelectionSteps
<1>4. from[next + 1] = from[next] \o Delivers(src, original)
  <2>1. (next + 1) - 1 = next BY <1>2, <1>3
  <2>2. from[next + 1] = from[(next + 1) - 1] \o Delivers(src, original)
    BY <1>2, <1>3, SelectionSteps
  <2> QED BY <2>1, <2>2
<1>5. source' = Delivers(src, original)
  <2>1. CASE src.scan
    <3>1. next + 1 \in DOMAIN stmt.sources
      BY <1>2, <1>3, SourcesOf
    <3>2. next + 1 = 1 /\ ~stmt.create
      BY <1>2, <2>1, <3>1 DEF ScansFirst
    <3>3. next = 0 BY <1>2, <3>2
    <3>4. table = original
      BY <1>1, <3>2, <3>3 DEF SelInv, Untouched, Base
    <3> QED BY <1>1, <3>4
  <2>2. CASE ~src.scan
    BY <1>1, <2>2 DEF Delivers
  <2> QED BY <2>1, <2>2
<1>6. sunk = from[next]
  <2>1. sunk \o (<<>> \o <<>>) = from[next] BY <1>1 DEF SelInv, Selects
  <2> HIDE DEF U, from
  <2> QED BY <1>2, <2>1, SeqFacts
<1>7. sunk' \o (chunk' \o source') = from[next']
  <2>1. chunk' \o source' = source'
    <3> HIDE DEF U
    <3> QED BY <1>1, <1>2, SeqFacts
  <2> QED BY <1>1, <1>4, <1>5, <1>6, <2>1
<1>8. next' # 0 BY <1>1, <1>2
<1> QED BY <1>1, <1>7, <1>8 DEF Untouched, Selects

LEMMA SinkSelects ==
  ASSUME ConstantsAssumption, SelInv, Sink
  PROVE  Untouched' /\ Selects'
<1> DEFINE U == Tuples(stmt.width)
<1>1. PICK n \in 1..VectorSize :
        /\ n <= Len(source)
        /\ chunk' = SubSeq(source, 1, n)
        /\ source' = SubSeq(source, n + 1, Len(source))
  BY DEF Sink
<1>2. /\ pc = "running" /\ pc' = pc /\ chunk = <<>> /\ source # <<>>
      /\ UNCHANGED <<stmt, original, table, next, values, sunk>>
  BY DEF Sink
<1>3. source \in Seq(U) /\ n \in 1..Len(source)
  BY <1>1 DEF SelInv, IInv, Typed, ConstantsAssumption
<1>4. chunk' \o source' = chunk \o source
  <2> HIDE DEF U
  <2>1. chunk' \o source' = source BY <1>1, <1>3, ChunkTaken
  <2> QED BY <1>2, <1>3, <2>1, SeqFacts
<1>5. next # 0 BY <1>2 DEF SelInv, Untouched
<1> QED BY <1>2, <1>4, <1>5 DEF SelInv, Untouched, Selects

LEMMA RowSelects ==
  ASSUME ConstantsAssumption, SelInv, SinkRow
  PROVE  Untouched' /\ Selects'
<1> DEFINE U == Tuples(stmt.width)
<1>1. /\ pc = "running" /\ chunk # <<>> /\ chunk' = Tail(chunk)
      /\ sunk' = Append(sunk, Head(chunk))
      /\ UNCHANGED <<stmt, original, next, source>>
  BY DEF SinkRow
<1>2. sunk \in Seq(U) /\ chunk \in Seq(U) /\ source \in Seq(U)
  BY DEF SelInv, IInv, Typed
<1>3. sunk' \o (chunk' \o source') = sunk \o (chunk \o source)
  <2> HIDE DEF U
  <2> QED BY <1>1, <1>2, RowHandedOn
<1>4. next # 0 BY <1>1 DEF SelInv, Untouched
<1>5. pc' \in {"running", "failed"}
  BY <1>1 DEF SinkRow, AppendRow, Raise
<1> QED BY <1>1, <1>3, <1>4, <1>5 DEF SelInv, Untouched, Selects

LEMMA FinalizeSelects ==
  ASSUME ConstantsAssumption, SelInv, Finalize
  PROVE  Untouched' /\ Selects'
<1> DEFINE U == Tuples(stmt.width)
<1>1. /\ pc = "running" /\ chunk = <<>> /\ source = <<>> /\ next = Len(stmt.sources)
      /\ pc' \in {"done", "failed"}
      /\ UNCHANGED <<stmt, original, next, source, chunk, values, sunk>>
  BY DEF Finalize, AllSunk, Raise
<1>2. sunk = Selection(stmt, original)[next]
  <2>1. sunk \in Seq(U) BY DEF SelInv, IInv, Typed
  <2>2. sunk \o (<<>> \o <<>>) = Selection(stmt, original)[next]
    BY <1>1 DEF SelInv, Selects
  <2> HIDE DEF U
  <2> QED BY <2>1, <2>2, SeqFacts
<1> QED BY <1>1, <1>2 DEF SelInv, Untouched, Selects

LEMMA OtherSelects ==
  ASSUME ConstantsAssumption, SelInv, EndSink \/ ChildFails \/ Rollback \/ UNCHANGED vars
  PROVE  Untouched' /\ Selects'
<1>1. UNCHANGED <<stmt, original, next, source, chunk, values, sunk>>
  BY DEF EndSink, ChildFails, Rollback, vars
<1>2. CASE EndSink \/ UNCHANGED vars
  <2>1. pc' = pc /\ table' = table BY <1>2 DEF EndSink, vars
  <2> QED BY <1>1, <2>1 DEF SelInv, Untouched, Selects, Base
<1>3. CASE ChildFails \/ Rollback
  <2>1. /\ pc' \in {"failed", "rolled_back"}
        /\ pc' = "rolled_back" /\ ~stmt'.create => table' = original'
    BY <1>1, <1>3 DEF ChildFails, Rollback, Raise
  <2> QED BY <1>1, <2>1 DEF SelInv, Untouched, Selects
<1> QED BY <1>2, <1>3

LEMMA SelInvariance ==
  ASSUME ConstantsAssumption, ScansFirst
  PROVE  Spec => []SelInv
<1>1. Init => SelInv
  BY InitIInv, InitSelects DEF SelInv
<1>2. SelInv /\ [Next]_vars => SelInv'
  <2> SUFFICES ASSUME SelInv, [Next]_vars PROVE Untouched' /\ Selects'
    BY NextIInv DEF SelInv
  <2> QED BY StartSelects, OpenSelects, SinkSelects, RowSelects, FinalizeSelects,
             OtherSelects DEF Next
<1> QED BY <1>1, <1>2, PTL DEF Spec

(***************************************************************************)
(* A statement that succeeded has added what its query selects from the    *)
(* target as it was, one that failed and was rolled back nothing, however  *)
(* the pipelines, chunks and flushes fall (ScansFirst).                    *)
(***************************************************************************)
THEOREM SelectionIsInserted == ScansFirst => (Spec => []InsertsSelection)
<1> SUFFICES ASSUME ScansFirst PROVE Spec => []InsertsSelection
  OBVIOUS
<1>1. SelInv => InsertsSelection
  <2> SUFFICES ASSUME SelInv PROVE InsertsSelection
    OBVIOUS
  <2>1. pc = "done" => table = Base \o RowsOf(sunk)
    BY DEF SelInv, IInv, Placed
  <2> QED BY <2>1 DEF SelInv, Selects, InsertsSelection
<1>2. Spec => []SelInv BY SelInvariance, ConstantsAssumption
<1> QED BY <1>1, <1>2, PTL
=============================================================================
