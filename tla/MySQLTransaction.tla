--------------------------- MODULE MySQLTransaction ---------------------------
(***************************************************************************)
(* MySQLTransactionManager, MySQLTransaction, MySQLConnection and          *)
(* MySQLResult of src/src: how a DuckDB transaction is carried by one      *)
(* MySQL session, opened with the transaction, started lazily by its first *)
(* command, swapped for another session when a streaming result is         *)
(* abandoned, and closed when the transaction ends.                        *)
(*                                                                         *)
(* Each transaction runs on one thread; transactions interleave with each  *)
(* other and with the server at every command.  A command and its reply    *)
(* are one step.  MySQLServer says what a command does to a session.       *)
(***************************************************************************)
EXTENDS MySQLServer

CONSTANTS
  Txns,            \* the DuckDB transactions on one attached catalog
  Sessions,        \* the MySQL connection ids, each used once
  NoSession,
  Writes,          \* the row changes a transaction can make
  Statements,      \* the plans a client runs: a set of PlanType records
  QueryTexts,      \* subset of {"select", "write"}: texts given to mysql_query
  MaxRows,         \* bound: the rows of a streaming result
  AccessMode,      \* "READ_ONLY" or "READ_WRITE": how the catalog is attached
  SessionTimeZone, \* is the setting mysql_session_time_zone not empty
  Faults           \* subset of FaultKinds: what may go wrong

(***************************************************************************)
(* What a plan asks of the transaction: table scans (mysql_scan),          *)
(* mysql_query calls, the write commands of its sink (INSERT flushes,      *)
(* UPDATE, DELETE), DDL commands and mysql_execute calls.                  *)
(***************************************************************************)
PlanType ==
  [scans : Nat, queries : Nat, writes : Nat, ddl : Nat, calls : Nat]

FaultKinds ==
  {"refuse",       \* mysql_real_connect fails
   "lose",         \* the server drops a session
   "reject",       \* a command fails and changes nothing
   "deadlock",     \* a command fails and the server rolls the work back
   "reply_lost",   \* a command takes effect but its reply is lost
   "stream_error"} \* the server fails in the middle of a result

ASSUME ConstantsAssumption ==
  /\ NoSession \notin Sessions
  /\ Statements \subseteq PlanType
  /\ QueryTexts \subseteq {"select", "write"}
  /\ MaxRows \in Nat
  /\ AccessMode \in {"READ_ONLY", "READ_WRITE"}
  /\ SessionTimeZone \in BOOLEAN
  /\ Faults \subseteq FaultKinds

VARIABLES
  session,          \* the server's sessions and their client handles
  database,         \* the changes that are durable and visible to everyone
  phase,            \* what DuckDB knows of the transaction
  transactions,     \* MySQLTransactionManager::transactions
  transactionState, \* MySQLTransaction::transaction_state
  connection,       \* MySQLTransaction::connection (the session behind it)
  pc,               \* where the thread of the transaction is
  stmt,             \* what the running statement has left to do
  streaming,        \* may the scans of the statement stream
  stream,           \* the streaming MySQLResult of the statement
  left,             \* the rows of it that were not delivered
  helper,           \* the second connection TryCancelQuery opens
  failure,          \* the exception that invalidated the transaction
  issued,           \* auxiliary: the changes whose commands succeeded
  detached          \* auxiliary: the session left the transaction behind

serverVars == <<session, database>>
txnVars    == <<phase, transactions, transactionState, connection>>
stmtVars   == <<pc, stmt, streaming, failure>>
resultVars == <<stream, left, helper>>
auxVars    == <<issued, detached>>
vars == <<session, database, phase, transactions, transactionState, connection,
          pc, stmt, streaming, stream, left, helper, failure, issued, detached>>

Effects == Txns \X Writes
NoWork  == [scans |-> 0, queries |-> 0, writes |-> 0, ddl |-> 0, calls |-> 0]

TypeOK ==
  /\ session \in [Sessions -> Session(Effects)]
  /\ database \subseteq Effects
  /\ phase \in [Txns -> {"absent", "alive", "committed", "rolled_back", "failed"}]
  /\ transactions \subseteq Txns
  /\ transactionState \in [Txns -> {"NOT_YET_STARTED", "STARTED", "FINISHED"}]
  /\ connection \in [Txns -> Sessions \cup {NoSession}]
  /\ pc \in [Txns -> {"idle", "running", "closing", "cancelling", "killing", "draining"}]
  /\ stmt \in [Txns -> PlanType]
  /\ streaming \in [Txns -> BOOLEAN]
  /\ stream \in [Txns -> {"none", "open", "exhausted"}]
  /\ left \in [Txns -> Nat]
  /\ helper \in [Txns -> Sessions \cup {NoSession}]
  /\ failure \in [Txns -> {"none", "duckdb", "server", "out_of_sync"}]
  /\ issued \in [Txns -> SUBSET Writes]
  /\ detached \in [Txns -> BOOLEAN]

Init ==
  /\ session = [s \in Sessions |-> NotConnected]
  /\ database = {}
  /\ phase = [t \in Txns |-> "absent"]
  /\ transactions = {}
  /\ transactionState = [t \in Txns |-> "NOT_YET_STARTED"]
  /\ connection = [t \in Txns |-> NoSession]
  /\ pc = [t \in Txns |-> "idle"]
  /\ stmt = [t \in Txns |-> NoWork]
  /\ streaming = [t \in Txns |-> FALSE]
  /\ stream = [t \in Txns |-> "none"]
  /\ left = [t \in Txns |-> 0]
  /\ helper = [t \in Txns |-> NoSession]
  /\ failure = [t \in Txns |-> "none"]
  /\ issued = [t \in Txns |-> {}]
  /\ detached = [t \in Txns |-> FALSE]
-----------------------------------------------------------------------------
\* The session behind a transaction's connection.
Sess(t) == session[connection[t]]

\* The effect of the next command on the session of t is s.
SetSess(t, s) == session' = [session EXCEPT ![connection[t]] = s]

Alive(t)  == t \in transactions /\ phase[t] = "alive"
Usable(t) == Alive(t) /\ pc[t] = "idle" /\ failure[t] = "none"

\* mysql_real_query reaches the server: the connection is up, and no
\* unbuffered result is in the way.
Sends(t) == Open(Sess(t)) /\ ~Sess(t).busy

(***************************************************************************)
(* mysql_real_query returns an error (or MySQLExecute cannot fetch the     *)
(* result): what it was and what it did to the session.                    *)
(***************************************************************************)
SendFails(t, why) ==
  \/ /\ Sess(t).busy
     /\ why = "out_of_sync"
     /\ UNCHANGED session
  \/ /\ ~Sess(t).busy
     /\ why = "server"
     /\ \/ ~Open(Sess(t)) /\ UNCHANGED session
        \/ Open(Sess(t)) /\ "reject" \in Faults /\ UNCHANGED session
        \/ Open(Sess(t)) /\ "deadlock" \in Faults /\ SetSess(t, Ended(Sess(t)))

\* Mutant of Raise: the error is dropped, the transaction stays usable.
SwallowException(t, why) ==
  /\ stmt' = [stmt EXCEPT ![t] = NoWork]
  /\ pc' = [pc EXCEPT ![t] = IF stream[t] = "none" THEN "idle" ELSE "closing"]
  /\ UNCHANGED <<streaming, failure>>

(***************************************************************************)
(* An exception ends the statement; DuckDB destroys its scan states, and   *)
(* only lets the transaction be rolled back.                               *)
(***************************************************************************)
Raise(t, why) ==
  /\ failure' = [failure EXCEPT ![t] = why]
  /\ stmt' = [stmt EXCEPT ![t] = NoWork]
  /\ pc' = [pc EXCEPT ![t] = IF stream[t] = "none" THEN "idle" ELSE "closing"]
  /\ UNCHANGED streaming

\* The statement has done one of its commands of that kind.
Done(t, kind) ==
  /\ stmt' = [stmt EXCEPT ![t][kind] = @ - 1]
  /\ UNCHANGED <<pc, streaming, failure>>

\* Mutant of AllowStreaming: MaterializeMySQLScans is not called.
StreamUnderWrites(p) == p.scans = 1 /\ p.queries = 0

(***************************************************************************)
(* MySQLOptimizer::Optimize lets a plan stream when it holds exactly one   *)
(* scan of the catalog, and only table scans stream; MaterializeMySQLScans *)
(* takes that back for INSERT, UPDATE, DELETE and CREATE TABLE AS.         *)
(* mysql_execute is not counted.                                           *)
(***************************************************************************)
AllowStreaming(p) ==
  p.scans = 1 /\ p.queries = 0 /\ p.writes = 0 /\ p.ddl = 0
-----------------------------------------------------------------------------
(***************************************************************************)
(* MySQLTransactionManager::StartTransaction: the constructor opens the    *)
(* connection and sets its time zone.  If it throws, nothing is registered *)
(* and the connection closes with the half-built object.                   *)
(***************************************************************************)
StartTransaction(t) ==
  /\ phase[t] = "absent"
  /\ \E s \in Sessions :
       /\ session[s].status = "unused"
       /\ \/ /\ session' = [session EXCEPT ![s] = WithTimeZone(Connected, SessionTimeZone)]
             /\ connection' = [connection EXCEPT ![t] = s]
             /\ phase' = [phase EXCEPT ![t] = "alive"]
             /\ transactionState' = [transactionState EXCEPT ![t] = "NOT_YET_STARTED"]
             /\ transactions' = transactions \cup {t}
          \/ /\ SessionTimeZone /\ "reject" \in Faults
             /\ session' = [session EXCEPT ![s] = Closed(Connected)]
             /\ UNCHANGED txnVars
  /\ UNCHANGED <<database, stmtVars, resultVars, auxVars>>

\* A client runs the next statement; the optimizer has decided on streaming.
BeginStatement(t) ==
  /\ Usable(t)
  /\ \E p \in Statements :
       /\ AccessMode = "READ_ONLY" => p.writes = 0 /\ p.ddl = 0
       /\ stmt' = [stmt EXCEPT ![t] = p]
       /\ streaming' = [streaming EXCEPT ![t] = AllowStreaming(p)]
  /\ pc' = [pc EXCEPT ![t] = "running"]
  /\ UNCHANGED <<serverVars, txnVars, resultVars, failure, auxVars>>

\* Mutants of StartOnServer: nothing is sent; READ ONLY is left out.
NotStarted(t) == UNCHANGED session

StartReadWrite(t) == SetSess(t, Begun(Sess(t), FALSE))

\* The START TRANSACTION a transaction sends: READ ONLY on a catalog that
\* was attached so.
StartOnServer(t) == SetSess(t, Begun(Sess(t), AccessMode = "READ_ONLY"))

(***************************************************************************)
(* GetConnection and Query set STARTED and then send START TRANSACTION     *)
(* [READ ONLY] before the first command; catalog loads at bind time come   *)
(* through here too.                                                       *)
(***************************************************************************)
GetConnection(t) ==
  /\ pc[t] = "running"
  /\ transactionState[t] = "NOT_YET_STARTED"
  /\ transactionState' = [transactionState EXCEPT ![t] = "STARTED"]
  /\ \/ /\ Sends(t)
        /\ StartOnServer(t)
        /\ UNCHANGED stmtVars
     \/ \E why \in {"server", "out_of_sync"} : SendFails(t, why) /\ Raise(t, why)
  /\ UNCHANGED <<database, phase, transactions, connection, resultVars, auxVars>>

Started(t) == pc[t] = "running" /\ transactionState[t] = "STARTED"

\* Any command the running statement has left can fail.
CommandFails(t) ==
  /\ Started(t)
  /\ stmt[t] # NoWork
  /\ \E why \in {"server", "out_of_sync"} : SendFails(t, why) /\ Raise(t, why)
  /\ UNCHANGED <<database, txnVars, resultVars, auxVars>>

(***************************************************************************)
(* MySQLInitGlobalState sends the SELECT: mysql_use_result leaves its rows *)
(* on the connection, mysql_store_result fetches them all.                 *)
(***************************************************************************)
OpenScan(t) ==
  /\ Started(t)
  /\ stmt[t].scans > 0
  /\ Sends(t)
  /\ \/ /\ streaming[t]
        /\ \E n \in 0..MaxRows : left' = [left EXCEPT ![t] = n]
        /\ stream' = [stream EXCEPT ![t] = "open"]
        /\ SetSess(t, Reading(Sess(t), TRUE))
     \/ /\ ~streaming[t]
        /\ UNCHANGED <<left, stream, session>>
  /\ Done(t, "scans")
  /\ UNCHANGED <<database, txnVars, helper, auxVars>>

(***************************************************************************)
(* One MySQLResult::Next of MySQLScan.  mysql_fetch_row returns NULL at    *)
(* the end of the result and also on an error, which Next does not look    *)
(* at; either way the handle is ready for the next command.                *)
(***************************************************************************)
FetchFails(t) == ~Open(Sess(t)) \/ "stream_error" \in Faults

Fetch(t) ==
  /\ pc[t] = "running"
  /\ stream[t] = "open"
  /\ \/ /\ Open(Sess(t)) /\ left[t] > 0
        /\ left' = [left EXCEPT ![t] = @ - 1]
        /\ UNCHANGED <<stream, session>>
     \/ /\ left[t] = 0 \/ FetchFails(t)
        /\ stream' = [stream EXCEPT ![t] = "exhausted"]
        /\ SetSess(t, Reading(Sess(t), FALSE))
        /\ UNCHANGED left
  /\ UNCHANGED <<database, txnVars, stmtVars, helper, auxVars>>

\* The server executes a change sent on the session of t.
Perform(t, w) ==
  IF Sess(t).inTxn
  THEN SetSess(t, Wrote(Sess(t), <<t, w>>)) /\ UNCHANGED database
  ELSE database' = database \cup {<<t, w>>} /\ UNCHANGED session

\* A write of the sink (MySQLInsert::Sink and Finalize,
\* MySQLExecuteQuery::Finalize) or of mysql_execute.
Write(t, kind) ==
  /\ Started(t)
  /\ stmt[t][kind] > 0
  /\ Sends(t)
  /\ kind = "calls" => AccessMode # "READ_ONLY"
  /\ \E w \in Writes :
       /\ Perform(t, w)
       /\ issued' = [issued EXCEPT ![t] = @ \cup {w}]
  /\ Done(t, kind)
  /\ UNCHANGED <<txnVars, resultVars, detached>>

(***************************************************************************)
(* MySQLQueryBind: the text runs, and one without a result set raises an   *)
(* exception after it has run.                                             *)
(***************************************************************************)
Query(t) ==
  /\ Started(t)
  /\ stmt[t].queries > 0
  /\ Sends(t)
  /\ \/ /\ "select" \in QueryTexts
        /\ Done(t, "queries")
        /\ UNCHANGED <<serverVars, issued>>
     \/ /\ "write" \in QueryTexts
        /\ IF Rejects(Sess(t))
           THEN UNCHANGED <<serverVars, issued>> /\ Raise(t, "server")
           ELSE /\ \E w \in Writes :
                     /\ Perform(t, w)
                     /\ issued' = [issued EXCEPT ![t] = @ \cup {w}]
                /\ Raise(t, "duckdb")
  /\ UNCHANGED <<txnVars, resultVars, detached>>

\* The server commits the open transaction before it executes DDL, be it
\* the catalog's own or the text of a mysql_execute.
Ddl(t, kind) ==
  /\ Started(t)
  /\ stmt[t][kind] > 0
  /\ Sends(t)
  /\ AccessMode # "READ_ONLY"
  /\ database' = database \cup Sess(t).work
  /\ SetSess(t, Ended(Sess(t)))
  /\ detached' = [detached EXCEPT ![t] = TRUE]
  /\ \/ Done(t, kind)
     \/ "reply_lost" \in Faults /\ Raise(t, "server")
  /\ UNCHANGED <<txnVars, resultVars, issued>>

\* DuckDB itself raises: a cast fails, the query is interrupted, or
\* mysql_execute is refused on a read-only catalog.
StatementError(t) ==
  /\ pc[t] = "running"
  /\ Raise(t, "duckdb")
  /\ UNCHANGED <<serverVars, txnVars, resultVars, auxVars>>

\* The statement is over; the result it streamed may have rows left (LIMIT
\* above a filter, a client that stops reading).
FinishStatement(t) ==
  /\ pc[t] = "running"
  /\ stmt[t] = NoWork
  /\ pc' = [pc EXCEPT ![t] = IF stream[t] = "none" THEN "idle" ELSE "closing"]
  /\ UNCHANGED <<serverVars, txnVars, stmt, streaming, failure, resultVars, auxVars>>
-----------------------------------------------------------------------------
\* ~MySQLResult is done with the result and frees it.
FreeResult(t) ==
  /\ stream' = [stream EXCEPT ![t] = "none"]
  /\ left' = [left EXCEPT ![t] = 0]
  /\ pc' = [pc EXCEPT ![t] = "idle"]

\* Mutants of FetchInDestructor: a row is fetched past the end; NULL on an
\* error is not taken for the end of the result.
FetchPastTheEnd(t, next) ==
  \/ /\ stream[t] = "open" /\ Open(Sess(t)) /\ left[t] >= 0
     /\ left' = [left EXCEPT ![t] = @ - 1]
     /\ pc' = [pc EXCEPT ![t] = next]
     /\ UNCHANGED <<stream, session>>
  \/ /\ stream[t] = "open" => left[t] = 0 \/ FetchFails(t)
     /\ SetSess(t, Reading(Sess(t), FALSE))
     /\ FreeResult(t)

FetchUntilLastRow(t, next) ==
  \/ /\ stream[t] = "open" /\ Open(Sess(t)) /\ left[t] > 0
     /\ left' = [left EXCEPT ![t] = @ - 1]
     /\ pc' = [pc EXCEPT ![t] = next]
     /\ UNCHANGED <<stream, session>>
  \/ /\ stream[t] = "open" => left[t] = 0
     /\ SetSess(t, Reading(Sess(t), FALSE))
     /\ FreeResult(t)

\* mysql_fetch_row in the destructor: a row, or NULL, after which the
\* handle is ready and the result is freed.
FetchInDestructor(t, next) ==
  \/ /\ stream[t] = "open" /\ Open(Sess(t)) /\ left[t] > 0
     /\ left' = [left EXCEPT ![t] = @ - 1]
     /\ pc' = [pc EXCEPT ![t] = next]
     /\ UNCHANGED <<stream, session>>
  \/ /\ stream[t] = "open" => left[t] = 0 \/ FetchFails(t)
     /\ SetSess(t, Reading(Sess(t), FALSE))
     /\ FreeResult(t)

\* Mutant of CloseResult: the result is freed without being exhausted.
FreeUnread(t) ==
  /\ pc[t] = "closing"
  /\ FreeResult(t)
  /\ UNCHANGED <<serverVars, txnVars, stmt, streaming, failure, helper, auxVars>>

\* ~MySQLResult: "need to exhaust result if we are streaming".
CloseResult(t) ==
  /\ pc[t] = "closing"
  /\ FetchInDestructor(t, "cancelling")
  /\ UNCHANGED <<database, txnVars, stmt, streaming, failure, helper, auxVars>>

\* TryCancelQuery opens a second connection; with none to be had, the
\* exception is swallowed and the destructor drains the result.
OpenHelper(t) ==
  /\ pc[t] = "cancelling"
  /\ \/ \E s \in Sessions :
          /\ session[s].status = "unused"
          /\ session' = [session EXCEPT ![s] = Connected]
          /\ helper' = [helper EXCEPT ![t] = s]
          /\ pc' = [pc EXCEPT ![t] = "killing"]
     \/ /\ "refuse" \in Faults \/ \A s \in Sessions : session[s].status # "unused"
        /\ pc' = [pc EXCEPT ![t] = "draining"]
        /\ UNCHANGED <<session, helper>>
  /\ UNCHANGED <<database, txnVars, stmt, streaming, failure, stream, left, auxVars>>

(***************************************************************************)
(* TryCancelQuery sends KILL for the session of t, swaps the handles and   *)
(* lets go of the killed one; or the KILL fails and the helper is closed.  *)
(***************************************************************************)
KillAndSwap(t) ==
  /\ pc[t] = "killing"
  /\ \/ /\ Open(Sess(t)) /\ Open(session[helper[t]])
        /\ SetSess(t, Reading(Closed(Sess(t)), FALSE))
        /\ connection' = [connection EXCEPT ![t] = helper[t]]
        /\ detached' = [detached EXCEPT ![t] = TRUE]
        /\ FreeResult(t)
     \/ /\ ~Open(Sess(t)) \/ ~Open(session[helper[t]]) \/ "reject" \in Faults
        /\ session' = [session EXCEPT ![helper[t]] = Closed(@)]
        /\ pc' = [pc EXCEPT ![t] = "draining"]
        /\ UNCHANGED <<connection, detached, stream, left>>
  /\ helper' = [helper EXCEPT ![t] = NoSession]
  /\ UNCHANGED <<database, phase, transactions, transactionState,
                 stmt, streaming, failure, issued>>

\* "failed to cancel: fetch the remainder of the rows"
Drain(t) ==
  /\ pc[t] = "draining"
  /\ FetchInDestructor(t, "draining")
  /\ UNCHANGED <<database, txnVars, stmt, streaming, failure, helper, auxVars>>
-----------------------------------------------------------------------------
\* Mutant of Erase: the session is not closed with the transaction.
LeakConnection(t) ==
  /\ transactions' = transactions \ {t}
  /\ UNCHANGED session

\* The manager erases the transaction; ~MySQLTransaction closes the session.
Erase(t) ==
  /\ transactions' = transactions \ {t}
  /\ SetSess(t, Closed(Sess(t)))

\* Commit and Rollback: a transaction that started on the server is FINISHED,
\* before the command is sent; one that did not is left as it is.
Finish(t) ==
  transactionState' = [transactionState EXCEPT
    ![t] = IF @ = "STARTED" THEN "FINISHED" ELSE @]

(***************************************************************************)
(* CommitTransaction: FINISHED is set before COMMIT is sent.  An exception *)
(* leaves Commit before the transaction is erased.                         *)
(***************************************************************************)
CommitTransaction(t) ==
  /\ Usable(t)
  /\ Finish(t)
  /\ \/ /\ transactionState[t] # "STARTED"
        /\ phase' = [phase EXCEPT ![t] = "committed"]
        /\ Erase(t)
        /\ UNCHANGED database
     \/ /\ transactionState[t] = "STARTED"
        /\ \/ /\ Sends(t)
              /\ database' = database \cup Sess(t).work
              /\ \/ /\ phase' = [phase EXCEPT ![t] = "committed"]
                    /\ Erase(t)
                 \/ /\ "reply_lost" \in Faults
                    /\ phase' = [phase EXCEPT ![t] = "failed"]
                    /\ SetSess(t, Closed(Sess(t)))
                    /\ UNCHANGED transactions
           \/ /\ \E why \in {"server", "out_of_sync"} : SendFails(t, why)
              /\ phase' = [phase EXCEPT ![t] = "failed"]
              /\ UNCHANGED <<database, transactions>>
  /\ UNCHANGED <<connection, stmtVars, resultVars, auxVars>>

(***************************************************************************)
(* RollbackTransaction: whatever ROLLBACK answers is swallowed, and the    *)
(* transaction is erased; closing the session rolls back what is left.     *)
(***************************************************************************)
RollbackTransaction(t) ==
  /\ Alive(t) /\ pc[t] = "idle"
  /\ Finish(t)
  /\ phase' = [phase EXCEPT ![t] = "rolled_back"]
  /\ Erase(t)
  /\ UNCHANGED <<database, connection, stmtVars, resultVars, auxVars>>

(***************************************************************************)
(* Checkpoint sends CHECKPOINT, which is not a MySQL statement: the server *)
(* answers with a syntax error.                                            *)
(***************************************************************************)
Checkpoint(t) ==
  /\ Usable(t)
  /\ transactionState' = [transactionState EXCEPT ![t] = "STARTED"]
  /\ \/ /\ transactionState[t] = "NOT_YET_STARTED" /\ Sends(t)
        /\ StartOnServer(t)
     \/ UNCHANGED session
  /\ Raise(t, "server")
  /\ UNCHANGED <<database, phase, transactions, connection, resultVars, auxVars>>

\* The server drops a session; its open work is rolled back.
Lose(s) ==
  /\ "lose" \in Faults
  /\ Open(session[s])
  /\ session' = [session EXCEPT ![s] = Closed(@)]
  /\ UNCHANGED <<database, txnVars, stmtVars, resultVars, auxVars>>
-----------------------------------------------------------------------------
Execution(t) ==
  \/ GetConnection(t) \/ CommandFails(t) \/ OpenScan(t) \/ Fetch(t)
  \/ Write(t, "writes") \/ Write(t, "calls") \/ Query(t)
  \/ Ddl(t, "ddl") \/ Ddl(t, "calls") \/ StatementError(t) \/ FinishStatement(t)

Destructor(t) ==
  CloseResult(t) \/ OpenHelper(t) \/ KillAndSwap(t) \/ Drain(t)

Client(t) ==
  \/ StartTransaction(t) \/ BeginStatement(t) \/ Execution(t) \/ Destructor(t)
  \/ CommitTransaction(t) \/ RollbackTransaction(t) \/ Checkpoint(t)

Next ==
  \/ \E t \in Txns : Client(t)
  \/ \E s \in Sessions : Lose(s)

Spec == Init /\ [][Next]_vars

\* A thread that runs a statement or a destructor goes on running it.
FairSpec == Spec /\ \A t \in Txns : WF_vars(Execution(t) \/ Destructor(t))
-----------------------------------------------------------------------------
Written(t) == database \cap ({t} \X Writes)
Issued(t)  == {t} \X issued[t]

(***************************************************************************)
(* A transaction is all or nothing (transaction.cpp, manager.cpp): while   *)
(* it runs and after it rolled back nothing of it is in the database,      *)
(* after it committed everything whose command succeeded is, and after a   *)
(* COMMIT that raised it is one or the other.  Lost sessions, deadlocks,   *)
(* half-run statements and what other transactions do (cancelled queries   *)
(* and DDL included) do not change that.  A transaction that itself ran    *)
(* DDL or had its session swapped is the exception.                        *)
(***************************************************************************)
Atomicity ==
  \A t \in Txns : ~detached[t] =>
    /\ phase[t] \in {"absent", "alive", "rolled_back"} => Written(t) = {}
    /\ phase[t] = "committed" => Written(t) = Issued(t)
    /\ phase[t] = "failed" => Written(t) \in {{}, Issued(t)}

(***************************************************************************)
(* No session is left behind and none is shared: an open session is that   *)
(* of exactly one transaction the manager still holds, as its connection   *)
(* or as the helper of the cancellation in progress, however StartTransac- *)
(* tion, TryCancelQuery, commit or rollback went.                          *)
(***************************************************************************)
SessionsOwned ==
  /\ \A s \in Sessions : Open(session[s]) =>
       \E t \in transactions : s \in {connection[t], helper[t]}
  /\ \A t, u \in transactions : t # u =>
       /\ connection[t] \notin {connection[u], helper[u]}
       /\ helper[t] = helper[u] => helper[t] = NoSession

(***************************************************************************)
(* ~MySQLResult leaves the connection ready: between statements no         *)
(* unbuffered result is unread on it, whether the result was exhausted,    *)
(* drained, cancelled, cut off by the server or dropped by an exception.   *)
(***************************************************************************)
ReadyWhenIdle ==
  \A t \in transactions : pc[t] = "idle" => ~Sess(t).busy

(***************************************************************************)
(* The streaming decision is safe: no command is ever sent while an        *)
(* unbuffered result is unread ("exactly one scan", and none under a       *)
(* write).                                                                 *)
(***************************************************************************)
NoOutOfSync == \A t \in Txns : failure[t] # "out_of_sync"

(***************************************************************************)
(* Once a transaction has started, every command it sends runs inside a    *)
(* transaction of the right mode, on a session with the right time zone:   *)
(* after a lost session, a deadlock or a failed START TRANSACTION no       *)
(* command gets through in autocommit.  A swapped session has neither, and *)
(* DDL ends the transaction.                                               *)
(***************************************************************************)
CommandsAreCovered ==
  \A t \in Txns : Started(t) /\ Open(Sess(t)) /\ ~detached[t] =>
    /\ Sess(t).inTxn
    /\ Sess(t).readOnly <=> AccessMode = "READ_ONLY"
    /\ Sess(t).timeZone = SessionTimeZone

(***************************************************************************)
(* On a read-only catalog mysql_execute is refused, and what mysql_query   *)
(* sends runs inside START TRANSACTION READ ONLY or is rolled back with    *)
(* the exception it raises: nothing changes, unless the session was        *)
(* swapped.                                                                *)
(***************************************************************************)
ReadOnlyHolds ==
  AccessMode = "READ_ONLY" => \A e \in database : detached[e[1]]

(***************************************************************************)
(* A statement and the destructor of its result come to an end, also when  *)
(* the session is lost, the helper cannot be opened or the KILL fails.     *)
(***************************************************************************)
StatementEnds == \A t \in Txns : pc[t] # "idle" ~> pc[t] = "idle"

\* The transactions implement the abstract ones.
Abstract == INSTANCE AtomicTransactions WITH
  outcome <- phase, work <- issued, store <- database, unprotected <- detached

Implements == Abstract!ASpec
-----------------------------------------------------------------------------
(***************************************************************************)
(* What the documentation and the comments say, and the code does not do.  *)
(***************************************************************************)

\* test/sql/attach_transactions.test, "commit insert": what was inserted
\* before a COMMIT that succeeds is there after it.
CommittedIsDurable ==
  \A t \in Txns : phase[t] = "committed" => Issued(t) \subseteq database

\* mysql_scanner.cpp, "exhausted result": when Next returns false every row
\* of the table has been delivered.
ScanDeliversAll == \A t \in Txns : stream[t] = "exhausted" => left[t] = 0
=============================================================================
