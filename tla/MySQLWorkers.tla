----------------------------- MODULE MySQLWorkers -----------------------------
(***************************************************************************)
(* The worker threads of one statement over the one connection of their    *)
(* transaction.  DuckDB runs the pipelines of a plan at once, and every    *)
(* scan of the plan opens its result on the thread that starts its         *)
(* pipeline: MySQLTransaction::GetConnection tests and sets                *)
(* transaction_state without a lock, MySQLConnection::MySQLExecute sends   *)
(* the command and stores the result under query_lock, and QueryInternal   *)
(* reads mysql_field_count after the lock was released.                    *)
(*                                                                         *)
(* A plan with more than one scan never streams (MySQLOptimizer), so that  *)
(* every result here is stored.  mysql_affected_rows, read at the same     *)
(* place, is used by UPDATE and DELETE only, which have no second pipeline. *)
(***************************************************************************)
EXTENDS Naturals, Sequences

CONSTANTS
  Threads,       \* the threads DuckDB runs the pipelines of a statement on
  NoThread,
  Columns,       \* the numbers of columns a scan can have
  MaxStatements, \* bound: the statements of the transaction
  MaxVersion,    \* bound: the states of the database others can commit
  Faults         \* subset of {"reject", "lose", "fetch"}: what may go wrong

ASSUME ConstantsAssumption ==
  /\ NoThread \notin Threads
  /\ Columns \subseteq Nat \ {0}
  /\ MaxStatements \in Nat /\ MaxVersion \in Nat
  /\ Faults \subseteq {"reject", "lose", "fetch"}

VARIABLES
  server,           \* the session: is it up, in a transaction, its snapshot
  version,          \* the committed state of the database, by number
  handle,           \* the MYSQL handle: replies to read, the one being read
  queryLock,        \* MySQLConnection::query_lock
  transactionState, \* MySQLTransaction::transaction_state
  pc,               \* where each thread is
  task,             \* what it runs: a scan of so many columns, or a command
  call,             \* is the command being sent START TRANSACTION or the task
  result,           \* the MYSQL_RES it got
  fieldCount,       \* field_count of its MySQLResult
  delivered,        \* auxiliary: the result whose rows the scan delivered
  statements,       \* statements begun in the transaction
  failed,           \* an exception ended the statement
  seen,             \* auxiliary: the states of the database scans have shown
  raced,            \* auxiliary: the state was tested while a thread was starting
  overlapped,       \* auxiliary: a command was sent before a count was read
  faulted           \* auxiliary: something went wrong at the server

serverVars == <<server, version>>
threadVars == <<pc, task, call, result, fieldCount, delivered>>
auxVars    == <<seen, raced, overlapped, faulted>>
vars == <<server, version, handle, queryLock, transactionState, pc, task, call,
          result, fieldCount, delivered, statements, failed,
          seen, raced, overlapped, faulted>>

\* A command without a result set (mysql_execute) has no columns.
Command == 0
Tasks   == Columns \cup {Command}

Versions == 1..(MaxVersion + 1)
Unset    == 0

\* What the server sends back: to whom, in which statement, and of what.
Reply == [to : Threads, statement : Nat, columns : Tasks,
          version : Versions, error : BOOLEAN]

NoReply == [columns |-> Command]

TypeOK ==
  /\ server \in [open : BOOLEAN, inTxn : BOOLEAN, snapshot : Versions \cup {Unset}]
  /\ version \in Versions
  /\ handle \in [replies : Seq(Reply), current : Reply \cup {NoReply}, fieldCount : Tasks]
  /\ queryLock \in Threads \cup {NoThread}
  /\ transactionState \in {"NOT_YET_STARTED", "STARTED"}
  /\ pc \in [Threads -> {"idle", "testing", "setting", "sending", "receiving",
                         "storing", "counting", "scanning", "done"}]
  /\ task \in [Threads -> Tasks]
  /\ call \in [Threads -> {"start", "task"}]
  /\ result \in [Threads -> Reply \cup {NoReply}]
  /\ fieldCount \in [Threads -> Tasks]
  /\ delivered \in [Threads -> Reply \cup {NoReply}]
  /\ statements \in 0..MaxStatements
  /\ failed \in BOOLEAN
  /\ seen \subseteq Versions
  /\ raced \in BOOLEAN /\ overlapped \in BOOLEAN /\ faulted \in BOOLEAN

Init ==
  /\ server = [open |-> TRUE, inTxn |-> FALSE, snapshot |-> Unset]
  /\ version = 1
  /\ handle = [replies |-> <<>>, current |-> NoReply, fieldCount |-> 0]
  /\ queryLock = NoThread
  /\ transactionState = "NOT_YET_STARTED"
  /\ pc = [t \in Threads |-> "idle"]
  /\ task = [t \in Threads |-> Command]
  /\ call = [t \in Threads |-> "task"]
  /\ result = [t \in Threads |-> NoReply]
  /\ fieldCount = [t \in Threads |-> 0]
  /\ delivered = [t \in Threads |-> NoReply]
  /\ statements = 0
  /\ failed = FALSE
  /\ seen = {}
  /\ raced = FALSE /\ overlapped = FALSE /\ faulted = FALSE
-----------------------------------------------------------------------------
Goto(t, where) == pc' = [pc EXCEPT ![t] = where]

\* The number of columns the reply to the current command of t has.
Expected(t) == IF call[t] = "start" THEN Command ELSE task[t]

\* An exception: the task of the thread is over, and so is the statement.
Raise(t) ==
  /\ failed' = TRUE
  /\ Goto(t, "done")

(***************************************************************************)
(* The executor runs the plan of the next statement.  Pipelines that wait  *)
(* for each other are the behaviours in which the threads take turns.      *)
(***************************************************************************)
BeginStatement ==
  /\ \A t \in Threads : pc[t] = "idle"
  /\ ~failed
  /\ statements < MaxStatements
  /\ statements' = statements + 1
  /\ \E running \in SUBSET Threads \ {{}} :
       /\ pc' = [t \in Threads |-> IF t \in running THEN "testing" ELSE "idle"]
       /\ \E f \in [running -> Tasks] :
            task' = [t \in Threads |-> IF t \in running THEN f[t] ELSE Command]
  /\ UNCHANGED <<serverVars, handle, queryLock, transactionState, call, result,
                 fieldCount, delivered, failed, auxVars>>

EndStatement ==
  /\ \E t \in Threads : pc[t] = "done"
  /\ \A t \in Threads : pc[t] \in {"idle", "done"}
  /\ pc' = [t \in Threads |-> "idle"]
  /\ result' = [t \in Threads |-> NoReply]
  /\ fieldCount' = [t \in Threads |-> 0]
  /\ delivered' = [t \in Threads |-> NoReply]
  /\ UNCHANGED <<serverVars, handle, queryLock, transactionState, task, call,
                 statements, failed, auxVars>>

\* Pipelines that have not started when the statement fails never do.
Skip(t) ==
  /\ pc[t] = "testing" /\ failed
  /\ Goto(t, "done")
  /\ UNCHANGED <<serverVars, handle, queryLock, transactionState, task, call,
                 result, fieldCount, delivered, statements, failed, auxVars>>

\* Another client commits.
OtherCommit ==
  /\ version <= MaxVersion
  /\ version' = version + 1
  /\ UNCHANGED <<server, handle, queryLock, transactionState, threadVars,
                 statements, failed, auxVars>>
-----------------------------------------------------------------------------
\* A thread that has seen NOT_YET_STARTED and not yet sent START TRANSACTION.
Starting(u) == call[u] = "start" /\ pc[u] \in {"setting", "sending"}

\* Mutant of TestState: the state is not consulted.
StartAlways(t) ==
  /\ pc[t] = "testing"
  /\ call' = [call EXCEPT ![t] = "start"]
  /\ Goto(t, "setting")
  /\ raced' = (raced \/ \E u \in Threads \ {t} : Starting(u))
  /\ UNCHANGED <<serverVars, handle, queryLock, transactionState, task, result,
                 fieldCount, delivered, statements, failed, seen, overlapped, faulted>>

\* GetConnection: is the transaction started?
TestState(t) ==
  /\ pc[t] = "testing"
  /\ IF transactionState = "NOT_YET_STARTED"
     THEN call' = [call EXCEPT ![t] = "start"] /\ Goto(t, "setting")
     ELSE call' = [call EXCEPT ![t] = "task"] /\ Goto(t, "sending")
  /\ raced' = (raced \/ \E u \in Threads \ {t} : Starting(u))
  /\ UNCHANGED <<serverVars, handle, queryLock, transactionState, task, result,
                 fieldCount, delivered, statements, failed, seen, overlapped, faulted>>

\* GetConnection sets the state before it sends the command.
SetState(t) ==
  /\ pc[t] = "setting"
  /\ transactionState' = "STARTED"
  /\ Goto(t, "sending")
  /\ UNCHANGED <<serverVars, handle, queryLock, task, call, result, fieldCount,
                 delivered, statements, failed, auxVars>>
-----------------------------------------------------------------------------
(***************************************************************************)
(* What the server does with the command of t.  START TRANSACTION ends an  *)
(* open one; the first SELECT of a transaction takes its snapshot, and one *)
(* outside reads what is committed at that moment.                         *)
(***************************************************************************)
Serve(t) ==
  server' =
    IF call[t] = "start"
    THEN [server EXCEPT !.inTxn = TRUE, !.snapshot = Unset]
    ELSE IF task[t] # Command /\ server.inTxn /\ server.snapshot = Unset
    THEN [server EXCEPT !.snapshot = version]
    ELSE server

Answer(t, error) ==
  [to |-> t, statement |-> statements, columns |-> Expected(t), error |-> error,
   version |-> IF server.inTxn /\ server.snapshot # Unset
               THEN server.snapshot ELSE version]

\* mysql_real_query is refused while a reply is half read.
OutOfSync == handle.current # NoReply

\* Mutant of Send: query_lock is not taken.
SendUnlocked(t) ==
  /\ pc[t] = "sending"
  /\ IF server.open /\ ~OutOfSync
     THEN /\ queryLock' = t
          /\ handle' = [handle EXCEPT !.replies = Append(@, Answer(t, FALSE)),
                                      !.fieldCount = 0]
          /\ Serve(t)
          /\ faulted' = faulted
          /\ overlapped' = (overlapped \/ \E u \in Threads \ {t} : pc[u] = "counting")
          /\ Goto(t, "receiving")
          /\ UNCHANGED failed
     ELSE Raise(t) /\ UNCHANGED <<server, handle, queryLock, overlapped, faulted>>
  /\ UNCHANGED <<version, transactionState, task, call, result, fieldCount,
                 delivered, statements, seen, raced>>

(***************************************************************************)
(* MySQLExecute takes query_lock and sends the command.  libmysql forgets  *)
(* the metadata of the last result, the field count with it.               *)
(***************************************************************************)
Send(t) ==
  /\ pc[t] = "sending"
  /\ queryLock = NoThread
  /\ IF server.open /\ ~OutOfSync
     THEN /\ queryLock' = t
          /\ \/ /\ handle' = [handle EXCEPT !.replies = Append(@, Answer(t, FALSE)),
                                            !.fieldCount = 0]
                /\ Serve(t)
                /\ UNCHANGED faulted
             \/ /\ "reject" \in Faults
                /\ handle' = [handle EXCEPT !.replies = Append(@, Answer(t, TRUE)),
                                            !.fieldCount = 0]
                /\ faulted' = TRUE
                /\ UNCHANGED server
          /\ overlapped' = (overlapped \/ \E u \in Threads \ {t} : pc[u] = "counting")
          /\ Goto(t, "receiving")
          /\ UNCHANGED failed
     ELSE Raise(t) /\ UNCHANGED <<server, handle, queryLock, overlapped, faulted>>
  /\ UNCHANGED <<version, transactionState, task, call, result, fieldCount,
                 delivered, statements, seen, raced>>

\* Mutant of Receive: query_lock is released before the result is stored.
ReceiveAndUnlock(t) ==
  /\ pc[t] = "receiving" /\ handle.replies # <<>>
  /\ LET reply == Head(handle.replies) IN
       /\ handle' = [handle EXCEPT !.replies = Tail(@), !.fieldCount = reply.columns,
                       !.current = IF reply.columns = Command THEN NoReply ELSE reply]
       /\ IF reply.error THEN Raise(t) ELSE Goto(t, "storing") /\ UNCHANGED failed
  /\ queryLock' = NoThread
  /\ UNCHANGED <<serverVars, transactionState, task, call, result, fieldCount,
                 delivered, statements, auxVars>>

\* Mutant of Receive: an error keeps the lock.
ReceiveKeepsLock(t) ==
  /\ pc[t] = "receiving" /\ handle.replies # <<>>
  /\ LET reply == Head(handle.replies) IN
       IF reply.error
       THEN /\ handle' = [handle EXCEPT !.replies = Tail(@)]
            /\ Raise(t)
       ELSE /\ handle' = [handle EXCEPT !.replies = Tail(@), !.fieldCount = reply.columns,
                            !.current = IF reply.columns = Command THEN NoReply ELSE reply]
            /\ Goto(t, "storing")
            /\ UNCHANGED failed
  /\ UNCHANGED <<serverVars, queryLock, transactionState, task, call, result, fieldCount,
                 delivered, statements, auxVars>>

(***************************************************************************)
(* mysql_real_query returns: with an error, because the command was        *)
(* refused or the session is lost, and the exception releases the lock; or *)
(* with the metadata of the result.                                        *)
(***************************************************************************)
Receive(t) ==
  /\ pc[t] = "receiving" /\ handle.replies # <<>>
  /\ LET reply == Head(handle.replies) IN
     \/ /\ ~reply.error
        /\ handle' = [handle EXCEPT !.replies = Tail(@), !.fieldCount = reply.columns,
                        !.current = IF reply.columns = Command THEN NoReply ELSE reply]
        /\ Goto(t, "storing")
        /\ UNCHANGED <<server, queryLock, failed, faulted>>
     \/ /\ reply.error
        /\ handle' = [handle EXCEPT !.replies = Tail(@)]
        /\ queryLock' = NoThread
        /\ Raise(t)
        /\ UNCHANGED <<server, faulted>>
     \/ /\ "lose" \in Faults
        /\ handle' = [handle EXCEPT !.replies = <<>>]
        /\ queryLock' = NoThread
        /\ server' = [open |-> FALSE, inTxn |-> FALSE, snapshot |-> Unset]
        /\ faulted' = TRUE
        /\ Raise(t)
  /\ UNCHANGED <<version, transactionState, task, call, result, fieldCount,
                 delivered, statements, seen, raced, overlapped>>

(***************************************************************************)
(* mysql_store_result, the end of MySQLExecute: the rows, or NULL if there *)
(* is no result set or the session is lost before the last row.            *)
(***************************************************************************)
Store(t) ==
  /\ pc[t] = "storing"
  /\ \/ /\ result' = [result EXCEPT ![t] = handle.current]
        /\ UNCHANGED <<server, faulted>>
     \/ /\ "fetch" \in Faults /\ handle.current # NoReply
        /\ result' = [result EXCEPT ![t] = NoReply]
        /\ server' = [open |-> FALSE, inTxn |-> FALSE, snapshot |-> Unset]
        /\ faulted' = TRUE
  /\ handle' = [handle EXCEPT !.current = NoReply]
  /\ queryLock' = NoThread
  /\ Goto(t, "counting")
  /\ UNCHANGED <<version, transactionState, task, call, fieldCount, delivered,
                 statements, failed, seen, raced, overlapped>>
-----------------------------------------------------------------------------
\* Mutant of ReadFieldCount: the count is one too many.
CountOneTooMany(t) ==
  /\ pc[t] = "counting"
  /\ fieldCount' = [fieldCount EXCEPT ![t] = handle.fieldCount + 1]
  /\ call' = [call EXCEPT ![t] = "task"]
  /\ Goto(t, IF call[t] = "start" THEN "sending"
             ELSE IF task[t] = Command THEN "done" ELSE "scanning")
  /\ UNCHANGED <<serverVars, handle, queryLock, transactionState, task, result,
                 delivered, statements, failed, auxVars>>

(***************************************************************************)
(* QueryInternal reads mysql_field_count without the lock: it belongs to   *)
(* whatever command went over the handle last.  No result although there   *)
(* should be one is an error.  START TRANSACTION is followed by the task.  *)
(***************************************************************************)
ReadFieldCount(t) ==
  /\ pc[t] = "counting"
  /\ fieldCount' = [fieldCount EXCEPT ![t] = handle.fieldCount]
  /\ IF result[t] = NoReply /\ handle.fieldCount # 0
     THEN Raise(t) /\ UNCHANGED call
     ELSE /\ call' = [call EXCEPT ![t] = "task"]
          /\ Goto(t, IF call[t] = "start" THEN "sending"
                     ELSE IF task[t] = Command THEN "done" ELSE "scanning")
          /\ UNCHANGED failed
  /\ UNCHANGED <<serverVars, handle, queryLock, transactionState, task, result,
                 delivered, statements, auxVars>>

(***************************************************************************)
(* MySQLScan: MySQLResult::Next raises without a result, and               *)
(* GetValueInternal for a column beyond the field count; otherwise the     *)
(* scan delivers the rows it has.                                          *)
(***************************************************************************)
Scan(t) ==
  /\ pc[t] = "scanning"
  /\ IF result[t] = NoReply \/ task[t] > fieldCount[t]
     THEN Raise(t) /\ UNCHANGED <<delivered, seen>>
     ELSE /\ delivered' = [delivered EXCEPT ![t] = result[t]]
          /\ seen' = seen \cup {result[t].version}
          /\ Goto(t, "done")
          /\ UNCHANGED failed
  /\ UNCHANGED <<serverVars, handle, queryLock, transactionState, task, call,
                 result, fieldCount, statements, raced, overlapped, faulted>>
-----------------------------------------------------------------------------
Thread(t) ==
  \/ Skip(t) \/ TestState(t) \/ SetState(t) \/ Send(t) \/ Receive(t)
  \/ Store(t) \/ ReadFieldCount(t) \/ Scan(t)

Next ==
  \/ BeginStatement \/ EndStatement \/ OtherCommit
  \/ \E t \in Threads : Thread(t)

Spec == Init /\ [][Next]_vars

\* DuckDB's scheduler runs every task it has started to its end.
FairSpec == Spec /\ \A t \in Threads : WF_vars(Thread(t))
-----------------------------------------------------------------------------
(***************************************************************************)
(* Whatever the threads do to the handle, a scan that delivers rows        *)
(* delivers those of its own command: the unlocked reads can fail a        *)
(* statement, they cannot mix up its results.                              *)
(***************************************************************************)
ResultsAreOwn ==
  \A t \in Threads : delivered[t] # NoReply =>
    /\ delivered[t].to = t
    /\ delivered[t].statement = statements
    /\ delivered[t].columns = task[t]

(***************************************************************************)
(* All scans of a transaction show the same state of the database, unless  *)
(* transaction_state was tested while another thread was starting the      *)
(* transaction (the case GetConnection leaves open) or the statement       *)
(* failed.                                                                 *)
(***************************************************************************)
OneSnapshot ==
  ~raced /\ ~failed => \A v, w \in seen : v = w

(***************************************************************************)
(* A statement fails only because something went wrong at the server, or   *)
(* because a command was sent between the end of MySQLExecute and the read *)
(* of mysql_field_count on another thread.                                 *)
(***************************************************************************)
FailsForACause == failed => faulted \/ overlapped

(***************************************************************************)
(* Every task ends: query_lock is released on every path, and no thread    *)
(* waits for it forever.                                                   *)
(***************************************************************************)
TasksEnd ==
  \A t \in Threads : pc[t] \notin {"idle", "done"} ~> pc[t] = "done"
=============================================================================
