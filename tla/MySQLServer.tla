----------------------------- MODULE MySQLServer -----------------------------
(***************************************************************************)
(* The part of the MySQL server and of libmysql that duckdb-mysql relies   *)
(* on: what one session looks like and what each command does to it.  The  *)
(* server is not part of the repository; each operator states the effect   *)
(* src/ expects of the call it makes.                                      *)
(***************************************************************************)
EXTENDS Naturals

(***************************************************************************)
(* A session and the MYSQL handle on its client side.  "busy" is the       *)
(* handle's MYSQL_STATUS_USE_RESULT: an unbuffered result has not been read *)
(* to its end.  "work" is what the open transaction has written.           *)
(***************************************************************************)
Session(Work) ==
  [status : {"unused", "open", "closed"}, inTxn : BOOLEAN, readOnly : BOOLEAN,
   timeZone : BOOLEAN, busy : BOOLEAN, work : SUBSET Work]

NotConnected ==
  [status |-> "unused", inTxn |-> FALSE, readOnly |-> FALSE,
   timeZone |-> FALSE, busy |-> FALSE, work |-> {}]

\* mysql_real_connect: autocommit, no time zone but the server's own.
Connected == [NotConnected EXCEPT !.status = "open"]

\* SET TIME_ZONE = '...'
WithTimeZone(s, set) == [s EXCEPT !.timeZone = set]

\* START TRANSACTION [READ ONLY]
Begun(s, ro) == [s EXCEPT !.inTxn = TRUE, !.readOnly = ro]

\* COMMIT, ROLLBACK, the implicit commit of DDL and the rollback of a
\* deadlock victim all leave the session in autocommit.
Ended(s) == [s EXCEPT !.inTxn = FALSE, !.readOnly = FALSE, !.work = {}]

\* mysql_close, KILL or a lost connection: open work is rolled back.
Closed(s) == [s EXCEPT !.status = "closed", !.inTxn = FALSE,
                       !.readOnly = FALSE, !.work = {}]

\* A write executed inside the session's transaction.
Wrote(s, w) == [s EXCEPT !.work = @ \cup {w}]

\* mysql_use_result leaves rows to read; the end of the result clears it.
Reading(s, b) == [s EXCEPT !.busy = b]

Open(s)    == s.status = "open"
Rejects(s) == s.inTxn /\ s.readOnly
=============================================================================
