-------------------------- MODULE AtomicTransactions --------------------------
(***************************************************************************)
(* What README.md ("Transactions") promises of a transaction on an         *)
(* attached MySQL database, without sessions, statements or results: its   *)
(* changes reach the store all together when it commits, or never.  A      *)
(* transaction may lose that protection (DDL commits it early, a cancelled *)
(* query replaces its session); from then on its own changes come and go,  *)
(* but those of the others are still protected.                            *)
(***************************************************************************)
CONSTANTS Txns, Writes

VARIABLES
  outcome,     \* what the client was told of each transaction
  work,        \* the changes it made
  store,       \* the changes that are durable
  unprotected  \* is the transaction past its protection

avars == <<outcome, work, store, unprotected>>

Of(t, ws) == {t} \X ws

AInit ==
  /\ outcome = [t \in Txns |-> "absent"]
  /\ work = [t \in Txns |-> {}]
  /\ store = {}
  /\ unprotected = [t \in Txns |-> FALSE]

Start(t) ==
  /\ outcome[t] = "absent"
  /\ outcome' = [outcome EXCEPT ![t] = "alive"]
  /\ UNCHANGED <<work, store, unprotected>>

Change(t) ==
  /\ outcome[t] = "alive" /\ ~unprotected[t]
  /\ \E w \in Writes : work' = [work EXCEPT ![t] = @ \cup {w}]
  /\ UNCHANGED <<outcome, store, unprotected>>

\* The client is told; the store has all of the work or none of it, and it
\* is known which unless the commit itself failed.
Finish(t) ==
  /\ outcome[t] = "alive" /\ ~unprotected[t]
  /\ \/ /\ outcome' = [outcome EXCEPT ![t] = "committed"]
        /\ store' = store \cup Of(t, work[t])
     \/ /\ outcome' = [outcome EXCEPT ![t] = "rolled_back"]
        /\ UNCHANGED store
     \/ /\ outcome' = [outcome EXCEPT ![t] = "failed"]
        /\ store' \in {store, store \cup Of(t, work[t])}
  /\ UNCHANGED <<work, unprotected>>

\* Past its protection, a transaction can only add changes of its own.
Unprotected(t) ==
  /\ outcome[t] = "alive"
  /\ unprotected' = [unprotected EXCEPT ![t] = TRUE]
  /\ \E o \in {"alive", "committed", "rolled_back", "failed"} :
       outcome' = [outcome EXCEPT ![t] = o]
  /\ \E ws \in SUBSET Writes : work' = [work EXCEPT ![t] = @ \cup ws]
  /\ \E ws \in SUBSET Writes : store' = store \cup Of(t, ws)

ANext == \E t \in Txns : Start(t) \/ Change(t) \/ Finish(t) \/ Unprotected(t)

ASpec == AInit /\ [][ANext]_avars
=============================================================================
