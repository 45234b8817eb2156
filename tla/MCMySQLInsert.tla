---------------------------- MODULE MCMySQLInsert ----------------------------
(***************************************************************************)
(* Statements for MySQLInsert: a table of two columns, every list of its   *)
(* columns, and pipelines over constants or over the table itself.         *)
(***************************************************************************)
EXTENDS MySQLInsert

CONSTANTS OneValue, OtherValue

Maps == {m \in [Columns -> 0..NumColumns] :
           /\ Specified(m) # {}
           /\ {m[c] : c \in Specified(m)} = 1..Cardinality(Specified(m))}

Width(map) == IF map = <<>> THEN NumColumns ELSE Cardinality(Specified(map))

Constants(w, n) ==
  [scan |-> FALSE, select |-> [k \in 1..w |-> k],
   tuples |-> [i \in 1..n |-> [k \in 1..w |-> IF (i + k) % 2 = 0 THEN OneValue ELSE OtherValue]]]

ReadsTarget(select) == [scan |-> TRUE, select |-> select, tuples |-> <<>>]

Insert(create, map, sources) ==
  [create |-> create, map |-> map, width |-> Width(map), sources |-> sources]

\* A scan of the target is only ever the first pipeline.
SafeInserts ==
  UNION {{Insert(FALSE, map, <<Constants(Width(map), 3)>>)}
           \cup {Insert(FALSE, map, <<ReadsTarget(select), Constants(Width(map), 2)>>) :
                   select \in [1..Width(map) -> Columns]} : map \in {<<>>} \cup Maps}
    \cup {Insert(TRUE, <<>>, <<Constants(NumColumns, 2), Constants(NumColumns, 1)>>)}

OneRow   == [c \in Columns |-> IF c = 1 THEN OneValue ELSE OtherValue]
Contents == {<<>>, <<OneRow>>, <<OneRow, [OneRow EXCEPT ![1] = OtherValue]>>}
=============================================================================
