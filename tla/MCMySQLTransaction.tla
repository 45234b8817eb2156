-------------------------- MODULE MCMySQLTransaction --------------------------
(***************************************************************************)
(* Values for the constants of MySQLTransaction.                           *)
(***************************************************************************)
EXTENDS MySQLTransaction, TLC

Plan(scans, queries, writes, ddl, calls) ==
  [scans |-> scans, queries |-> queries, writes |-> writes,
   ddl |-> ddl, calls |-> calls]

ScanOne    == Plan(1, 0, 0, 0, 0)
ScanTwo    == Plan(2, 0, 0, 0, 0)
QueryOnly  == Plan(0, 1, 0, 0, 0)
ScanQuery  == Plan(1, 1, 0, 0, 0)
Insert     == Plan(0, 0, 2, 0, 0)
InsertScan == Plan(1, 0, 1, 0, 0)
CreateAs   == Plan(1, 0, 1, 1, 0)
Call       == Plan(0, 0, 0, 0, 1)

AllPlans   == {ScanOne, ScanTwo, QueryOnly, ScanQuery, Insert, InsertScan,
               CreateAs, Call}
ReadPlans  == {ScanOne, QueryOnly, Call}
CancelPlans == {ScanOne, Insert}

TxnSymmetry     == Permutations(Txns)
SessionSymmetry == Permutations(Sessions)
WriteSymmetry   == Permutations(Writes)
AllSymmetry     == TxnSymmetry \cup SessionSymmetry \cup WriteSymmetry
=============================================================================
