-------------------------- MODULE MCMySQLCatalogSet --------------------------
(***************************************************************************)
(* Statements for MySQLCatalogSet: "tables" are the names used for base    *)
(* tables, "views" those used for views.                                   *)
(***************************************************************************)
EXTENDS MySQLCatalogSet, TLC

CONSTANTS TableNames, ViewNames

Kinds == [n \in Names |-> (IF n \in TableNames THEN BaseTables ELSE {})
                          \cup (IF n \in ViewNames THEN Views ELSE {})]

Conflicts == {"error", "ignore", "replace"}

Statement(kind, view, names, tos, definitions, conflicts) ==
  {[kind |-> kind, view |-> view, schema |-> s, name |-> n, to |-> m,
    definition |-> d, conflict |-> c] :
      s \in Schemas, n \in names, m \in tos, d \in definitions, c \in conflicts}

Lookups == Statement("lookup", FALSE, Names, {CHOOSE n \in Names : TRUE}, {NoColumns}, {"error"})
Clears  == Statement("clear", FALSE, {CHOOSE n \in Names : TRUE},
                     {CHOOSE n \in Names : TRUE}, {NoColumns}, {"error"})

Creates(view, names, definitions, conflicts) ==
  UNION {Statement("create", view, {n}, {n}, definitions, conflicts) : n \in names}
Drops(view, names) ==
  UNION {Statement("drop", view, {n}, {n}, {NoColumns}, {"error", "ignore"}) : n \in names}
Alters(names) ==
  UNION {Statement("alter", FALSE, {n}, {n}, BaseTables, {"error"}) : n \in names}
Renames(names) ==
  UNION {Statement("alter", FALSE, {n}, names \ {n}, {NoColumns}, {"error"}) : n \in names}

\* Every statement, each name used for one kind of object.
SerialStatements ==
  Lookups \cup Clears
    \cup Creates(FALSE, TableNames, BaseTables, Conflicts) \cup Drops(FALSE, TableNames)
    \cup Creates(TRUE, ViewNames, Views, Conflicts) \cup Drops(TRUE, ViewNames)
    \cup Alters(TableNames) \cup Renames(TableNames)

GrowingStatements ==
  Lookups \cup Creates(FALSE, TableNames, BaseTables, {"error"})
          \cup Creates(TRUE, ViewNames, Views, {"error", "ignore"})

ShrinkingStatements == Lookups \cup Drops(FALSE, TableNames)
=============================================================================
