-------------------------- MODULE MySQLSessionProofs --------------------------
(***************************************************************************)
(* More theorems about MySQLTransaction: what becomes of the MySQL session *)
(* behind a transaction.  No session is leaked or shared, the connection   *)
(* is ready again after every statement, commands run in a transaction of  *)
(* the right mode, a plan that streams sends nothing over its stream, and  *)
(* the whole implements AtomicTransactions.                                *)
(* The invariant IInv of MySQLTransactionProofs is used throughout.        *)
(***************************************************************************)
EXTENDS MySQLTransactionProofs

LEMMA IInvAlways == Spec => []IInv
  BY IInvInit, IInvStep, PTL DEF Spec
-----------------------------------------------------------------------------
(***************************************************************************)
(* Every open session has an owner.  Only StartTransaction and OpenHelper  *)
(* open one, and they own it at once; only Erase and KillAndSwap let one   *)
(* go, and they close it.                                                  *)
(***************************************************************************)
Owned(s) == \E t \in transactions : s \in {connection[t], helper[t]}

AllOwned == \A s \in Sessions : Open(session[s]) => Owned(s)

\* The step opens no session.
OpensNone == \A s \in Sessions : Open(session'[s]) => Open(session[s])

LEMMA SetSessOpensNone ==
  ASSUME TypeOK, NEW t \in Txns, NEW x, SetSess(t, x),
         connection[t] \in Sessions => x.status \in {Sess(t).status, "closed"}
  PROVE  OpensNone
  BY DEF TypeOK, SetSess, Sess, OpensNone, Open

\* A step that opens nothing and moves no session keeps the owners.
LEMMA AllOwnedFrame ==
  ASSUME AllOwned, OpensNone, UNCHANGED <<transactions, connection, helper>>
  PROVE  AllOwned'
  BY DEF AllOwned, OpensNone, Owned, Open

LEMMA ExecutionOpensNone ==
  ASSUME Base, NEW t \in Txns, Execution(t)
  PROVE  OpensNone
  <1> USE DEF serverVars, txnVars, stmtVars, resultVars, auxVars
  <1>0. TypeOK /\ connection[t] \in Sessions /\ Sess(t) \in Session(Effects)
    BY ExecutionFrames DEF ExecutionFrame, Base, HasConnection, TypeOK, Sess
  <1>a. ASSUME UNCHANGED session PROVE OpensNone
    BY <1>a DEF OpensNone
  <1>b. /\ SetSess(t, Ended(Sess(t))) => OpensNone
        /\ SetSess(t, Reading(Sess(t), FALSE)) => OpensNone
        /\ SetSess(t, Reading(Sess(t), TRUE)) => OpensNone
        /\ SetSess(t, Begun(Sess(t), AccessMode = "READ_ONLY")) => OpensNone
        /\ \A e : SetSess(t, Wrote(Sess(t), e)) => OpensNone
    <2>1. ASSUME NEW x, SetSess(t, x), x.status = Sess(t).status PROVE OpensNone
      BY <1>0, <2>1, SetSessOpensNone
    <2> QED
      BY <1>0, <2>1, StatusKept
  <1>c. ASSUME NEW why, SendFails(t, why) PROVE OpensNone
    BY <1>a, <1>b, <1>c DEF SendFails
  <1>d. ASSUME NEW w, Perform(t, w) PROVE OpensNone
    BY <1>a, <1>b, <1>d DEF Perform
  <1>1. CASE GetConnection(t)
    BY <1>b, <1>c, <1>1 DEF GetConnection, StartOnServer
  <1>2. CASE CommandFails(t)
    BY <1>c, <1>2 DEF CommandFails
  <1>3. CASE OpenScan(t)
    BY <1>a, <1>b, <1>3 DEF OpenScan
  <1>4. CASE Fetch(t)
    BY <1>a, <1>b, <1>4 DEF Fetch
  <1>5. CASE Write(t, "writes") \/ Write(t, "calls")
    BY <1>d, <1>5 DEF Write
  <1>6. CASE Query(t)
    BY <1>a, <1>d, <1>6 DEF Query
  <1>7. CASE Ddl(t, "ddl") \/ Ddl(t, "calls")
    BY <1>b, <1>7 DEF Ddl
  <1>8. CASE StatementError(t)
    BY <1>a, <1>8 DEF StatementError
  <1>9. CASE FinishStatement(t)
    BY <1>a, <1>9 DEF FinishStatement
  <1> QED
    BY <1>1, <1>2, <1>3, <1>4, <1>5, <1>6, <1>7, <1>8, <1>9 DEF Execution

\* The transaction leaves the manager with its only session closed.
LEMMA EraseOwned ==
  ASSUME IInv, AllOwned, NEW t \in Txns, phase[t] = "alive", pc[t] = "idle",
         UNCHANGED <<connection, helper>>, Erase(t)
  PROVE  AllOwned'
  <1>1. /\ TypeOK /\ connection[t] \in Sessions /\ helper[t] = NoSession
        /\ Sess(t) \in Session(Effects)
    BY DEF IInv, Base, HasConnection, Ownership, TypeOK, Sess
  <1>2. session' = [session EXCEPT ![connection[t]] = Closed(Sess(t))]
    BY DEF Erase, SetSess
  <1>3. ASSUME NEW s \in Sessions, Open(session'[s]) PROVE Owned(s)'
    <2>1. s # connection[t]
      BY <1>1, <1>2, <1>3, StatusKept DEF Open, TypeOK
    <2>2. Open(session[s])
      BY <1>1, <1>2, <1>3, <2>1 DEF TypeOK
    <2>3. PICK u \in transactions : s \in {connection[u], helper[u]}
      BY <2>2 DEF AllOwned, Owned
    <2>4. u # t
      BY <1>1, <2>1, <2>3, ConstantsAssumption
    <2>5. u \in transactions'
      BY <2>3, <2>4 DEF Erase
    <2> QED
      BY <2>3, <2>5 DEF Owned
  <1> QED
    BY <1>3 DEF AllOwned

LEMMA AllOwnedStep == IInv /\ AllOwned /\ [Next]_vars => AllOwned'
  <1> SUFFICES ASSUME IInv, AllOwned, [Next]_vars PROVE AllOwned'
    OBVIOUS
  <1> USE DEF serverVars, txnVars, stmtVars, resultVars, auxVars
  <1>0. Base /\ TypeOK /\ Ownership /\ Life
    BY DEF IInv, Base
  <1>a. ASSUME UNCHANGED session PROVE OpensNone
    BY <1>a DEF OpensNone
  <1>b. ASSUME NEW t \in Txns, connection[t] \in Sessions
        PROVE  /\ SetSess(t, Closed(Sess(t))) => OpensNone
               /\ SetSess(t, Ended(Sess(t))) => OpensNone
               /\ SetSess(t, Reading(Sess(t), FALSE)) => OpensNone
               /\ SetSess(t, Begun(Sess(t), AccessMode = "READ_ONLY")) => OpensNone
    <2>1. Sess(t) \in Session(Effects)
      BY <1>0, <1>b DEF TypeOK, Sess
    <2>2. ASSUME NEW x, SetSess(t, x), x.status \in {Sess(t).status, "closed"}
          PROVE  OpensNone
      BY <1>0, <2>2, SetSessOpensNone
    <2> QED
      BY <2>1, <2>2, StatusKept
  <1>1. ASSUME NEW t \in Txns, StartTransaction(t) PROVE AllOwned'
    <2>1. PICK s \in Sessions :
            /\ session[s].status = "unused"
            /\ \/ /\ session' = [session EXCEPT ![s] = WithTimeZone(Connected, SessionTimeZone)]
                  /\ connection' = [connection EXCEPT ![t] = s]
                  /\ transactions' = transactions \cup {t}
               \/ session' = [session EXCEPT ![s] = Closed(Connected)] /\ UNCHANGED txnVars
      BY <1>1 DEF StartTransaction
    <2>2. helper' = helper /\ t \notin transactions /\ transactions \subseteq Txns
      BY <1>0, <1>1 DEF StartTransaction, Life, TypeOK
    <2>3. CASE /\ connection' = [connection EXCEPT ![t] = s]
               /\ transactions' = transactions \cup {t}
      <3>1. ASSUME NEW r \in Sessions, Open(session'[r]) PROVE Owned(r)'
        <4>1. CASE r = s
          BY <1>0, <2>3, <4>1 DEF Owned, TypeOK
        <4>2. CASE r # s
          <5>1. Open(session[r])
            BY <1>0, <2>1, <3>1, <4>2 DEF TypeOK
          <5>2. PICK u \in transactions : r \in {connection[u], helper[u]}
            BY <5>1 DEF AllOwned, Owned
          <5>3. u \in transactions' /\ connection'[u] = connection[u]
            BY <1>0, <2>2, <2>3, <5>2 DEF TypeOK
          <5> QED
            BY <2>2, <5>2, <5>3 DEF Owned
        <4> QED
          BY <4>1, <4>2
      <3> QED
        BY <3>1 DEF AllOwned
    <2>4. CASE session' = [session EXCEPT ![s] = Closed(Connected)] /\ UNCHANGED txnVars
      <3>1. Closed(Connected).status = "closed"
        BY DEF Closed, Connected, NotConnected
      <3>2. OpensNone
        BY <1>0, <2>4, <3>1 DEF OpensNone, Open, TypeOK
      <3> QED
        BY <2>2, <2>4, <3>2, AllOwnedFrame
    <2> QED
      BY <2>1, <2>3, <2>4
  <1>2. ASSUME NEW t \in Txns, BeginStatement(t) PROVE AllOwned'
    BY <1>2, <1>a, AllOwnedFrame DEF BeginStatement
  <1>3. ASSUME NEW t \in Txns, Execution(t) PROVE AllOwned'
    BY <1>0, <1>3, ExecutionFrames, ExecutionOpensNone, AllOwnedFrame DEF ExecutionFrame
  <1>4. ASSUME NEW t \in Txns, CloseResult(t) \/ Drain(t) PROVE AllOwned'
    <2>1. connection[t] \in Sessions
      BY <1>0, <1>4 DEF CloseResult, Drain, Base, HasConnection
    <2>2. OpensNone
      BY <1>4, <1>a, <1>b, <2>1 DEF CloseResult, Drain, FetchInDestructor
    <2> QED
      BY <1>4, <2>2, AllOwnedFrame DEF CloseResult, Drain
  <1>5. ASSUME NEW t \in Txns, OpenHelper(t) PROVE AllOwned'
    <2>1. UNCHANGED <<transactions, connection>> /\ t \in transactions
      BY <1>0, <1>5 DEF OpenHelper, Life
    <2>2. CASE UNCHANGED <<session, helper>>
      BY <1>a, <2>1, <2>2, AllOwnedFrame
    <2>3. CASE \E s \in Sessions :
                 /\ session' = [session EXCEPT ![s] = Connected]
                 /\ helper' = [helper EXCEPT ![t] = s]
      <3>1. PICK s \in Sessions :
                 /\ session' = [session EXCEPT ![s] = Connected]
                 /\ helper' = [helper EXCEPT ![t] = s]
        BY <2>3
      <3>2. helper[t] = NoSession
        BY <1>0, <1>5 DEF OpenHelper, Ownership
      <3>3. ASSUME NEW r \in Sessions, Open(session'[r]) PROVE Owned(r)'
        <4>1. CASE r = s
          BY <1>0, <2>1, <3>1, <4>1 DEF Owned, TypeOK
        <4>2. CASE r # s
          <5>1. Open(session[r])
            BY <1>0, <3>1, <3>3, <4>2 DEF TypeOK
          <5>2. PICK u \in transactions : r \in {connection[u], helper[u]}
            BY <5>1 DEF AllOwned, Owned
          <5>3. r = connection'[u] \/ r = helper'[u]
            BY <1>0, <2>1, <3>1, <3>2, <5>2, ConstantsAssumption DEF TypeOK
          <5> QED
            BY <2>1, <5>2, <5>3 DEF Owned
        <4> QED
          BY <4>1, <4>2
      <3> QED
        BY <3>3 DEF AllOwned
    <2> QED
      BY <1>5, <2>2, <2>3 DEF OpenHelper
  <1>6. ASSUME NEW t \in Txns, KillAndSwap(t) PROVE AllOwned'
    <2>1. /\ connection[t] \in Sessions /\ helper[t] \in Sessions
          /\ connection[t] # helper[t] /\ transactions \subseteq Txns
          /\ t \in transactions /\ UNCHANGED transactions
          /\ helper' = [helper EXCEPT ![t] = NoSession]
      BY <1>0, <1>6, ConstantsAssumption
         DEF KillAndSwap, Base, HasConnection, HelperOpened, Ownership, Life, TypeOK
    <2>2. \A u \in transactions \ {t} : helper'[u] = helper[u]
      BY <1>0, <2>1 DEF TypeOK
    <2>3. CASE /\ SetSess(t, Reading(Closed(Sess(t)), FALSE))
               /\ connection' = [connection EXCEPT ![t] = helper[t]]
      <3>0. Sess(t) \in Session(Effects)
        BY <1>0, <2>1 DEF TypeOK, Sess
      <3>1. Reading(Closed(Sess(t)), FALSE).status = "closed"
        BY <3>0, StatusKept
      <3>2. ASSUME NEW r \in Sessions, Open(session'[r]) PROVE Owned(r)'
        <4>1. r # connection[t] /\ Open(session[r])
          BY <1>0, <2>1, <2>3, <3>1, <3>2 DEF SetSess, Open, TypeOK
        <4>2. PICK u \in transactions : r \in {connection[u], helper[u]}
          BY <4>1 DEF AllOwned, Owned
        <4>3. CASE u = t
          BY <1>0, <2>1, <2>3, <4>1, <4>2, <4>3 DEF Owned, TypeOK
        <4>4. CASE u # t
          BY <1>0, <2>1, <2>2, <2>3, <4>2, <4>4 DEF Owned, TypeOK
        <4> QED
          BY <4>3, <4>4
      <3> QED
        BY <3>2 DEF AllOwned
    <2>4. CASE /\ session' = [session EXCEPT ![helper[t]] = Closed(@)]
               /\ UNCHANGED connection
      <3>1. Closed(session[helper[t]]).status = "closed"
        BY <1>0, <2>1, StatusKept DEF TypeOK
      <3>2. ASSUME NEW r \in Sessions, Open(session'[r]) PROVE Owned(r)'
        <4>1. r # helper[t] /\ Open(session[r])
          BY <1>0, <2>1, <2>4, <3>1, <3>2 DEF Open, TypeOK
        <4>2. PICK u \in transactions : r \in {connection[u], helper[u]}
          BY <4>1 DEF AllOwned, Owned
        <4> QED
          BY <2>1, <2>2, <2>4, <4>1, <4>2 DEF Owned
      <3> QED
        BY <3>2 DEF AllOwned
    <2> QED
      BY <1>6, <2>3, <2>4 DEF KillAndSwap
  <1>7. ASSUME NEW t \in Txns, CommitTransaction(t) PROVE AllOwned'
    <2>1. /\ phase[t] = "alive" /\ pc[t] = "idle" /\ UNCHANGED <<connection, helper>>
          /\ connection[t] \in Sessions
      BY <1>0, <1>7 DEF CommitTransaction, Finish, Usable, Alive, Base, HasConnection
    <2>2. CASE Erase(t)
      BY <2>1, <2>2, EraseOwned
    <2>3. CASE UNCHANGED transactions /\ OpensNone
      BY <2>1, <2>3, AllOwnedFrame
    <2>4. ASSUME NEW why, SendFails(t, why) PROVE OpensNone
      BY <1>a, <1>b, <2>1, <2>4 DEF SendFails
    <2> QED
      BY <1>7, <1>b, <2>1, <2>2, <2>3, <2>4 DEF CommitTransaction, Finish
  <1>8. ASSUME NEW t \in Txns, RollbackTransaction(t) PROVE AllOwned'
    BY <1>8, EraseOwned DEF RollbackTransaction, Finish, Alive
  <1>9. ASSUME NEW t \in Txns, Checkpoint(t) PROVE AllOwned'
    <2>1. connection[t] \in Sessions
      BY <1>0, <1>9 DEF Checkpoint, Usable, Alive, Base, HasConnection
    <2>2. OpensNone
      BY <1>9, <1>a, <1>b, <2>1 DEF Checkpoint, StartOnServer
    <2> QED
      BY <1>9, <2>2, AllOwnedFrame DEF Checkpoint
  <1>10. ASSUME NEW s \in Sessions, Lose(s) PROVE AllOwned'
    <2>1. Closed(session[s]).status = "closed"
      BY <1>0, StatusKept DEF TypeOK
    <2>2. OpensNone
      BY <1>0, <1>10, <2>1 DEF Lose, OpensNone, Open, TypeOK
    <2> QED
      BY <1>10, <2>2, AllOwnedFrame DEF Lose
  <1>11. CASE UNCHANGED vars
    BY <1>11, <1>a, AllOwnedFrame DEF vars
  <1> QED
    BY <1>1, <1>2, <1>3, <1>4, <1>5, <1>6, <1>7, <1>8, <1>9, <1>10, <1>11
       DEF Next, Client, Destructor

(***************************************************************************)
(* No session is leaked and none is shared, however StartTransaction,      *)
(* TryCancelQuery, Commit and Rollback went: a transaction the manager     *)
(* holds owns each open session, as its connection or as its helper.       *)
(***************************************************************************)
THEOREM SessionsAreOwned == Spec => []SessionsOwned
  <1>1. Init => AllOwned
    BY DEF Init, AllOwned, Open, NotConnected
  <1>2. IInv /\ AllOwned => SessionsOwned
    <2> SUFFICES ASSUME IInv, AllOwned PROVE SessionsOwned
      OBVIOUS
    <2>1. \A t \in transactions : t \in Txns /\ connection[t] \in Sessions
      BY DEF IInv, Base, TypeOK, HasConnection, Life
    <2> QED
      BY <2>1, ConstantsAssumption DEF IInv, Ownership, AllOwned, Owned, SessionsOwned
  <1> QED
    BY <1>1, <1>2, AllOwnedStep, IInvAlways, PTL DEF Spec
-----------------------------------------------------------------------------
(***************************************************************************)
(* What the session of a transaction is like beyond its work: its handle   *)
(* is ready unless a stream is open on it, a transaction open on the       *)
(* server has the mode of the catalog, the time zone is the one set when   *)
(* the session was opened, and a helper is as it was connected.            *)
(***************************************************************************)
Mode(s) == s.inTxn => (s.readOnly <=> AccessMode = "READ_ONLY")

ConnectionFits(t) ==
  connection[t] \in Sessions =>
    /\ stream[t] # "open" => ~Sess(t).busy
    /\ Mode(Sess(t))
    /\ ~detached[t] => Sess(t).timeZone = SessionTimeZone

HelperFits(t) ==
  helper[t] \in Sessions => ~session[helper[t]].busy /\ ~session[helper[t]].inTxn

Fits(t) ==
  /\ ConnectionFits(t)
  /\ HelperFits(t)
  /\ pc[t] = "idle" => stream[t] = "none"

\* s is the session of t after a command that reads no rows.
Serves(t, s) ==
  /\ s.busy = Sess(t).busy
  /\ s.timeZone = Sess(t).timeZone
  /\ Mode(s)

LEMMA HandlesKept ==
  ASSUME NEW s \in Session(Effects), Mode(s)
  PROVE  /\ Ended(s).busy = s.busy /\ Ended(s).timeZone = s.timeZone /\ Mode(Ended(s))
         /\ Closed(s).busy = s.busy /\ Closed(s).timeZone = s.timeZone /\ Mode(Closed(s))
         /\ LET x == Begun(s, AccessMode = "READ_ONLY")
            IN  x.busy = s.busy /\ x.timeZone = s.timeZone /\ Mode(x)
         /\ \A e : LET x == Wrote(s, e)
                  IN  x.busy = s.busy /\ x.timeZone = s.timeZone /\ Mode(x)
         /\ \A b \in BOOLEAN :
              LET x == Reading(s, b)
              IN  x.busy = b /\ x.timeZone = s.timeZone /\ Mode(x)
  BY DEF Session, Mode, Ended, Closed, Begun, Wrote, Reading

\* The state a client step of t starts from, once it has a connection.
Holds(t) ==
  /\ TypeOK /\ Ownership /\ Fits(t)
  /\ connection[t] \in Sessions /\ Sess(t) \in Session(Effects)

LEMMA HoldsIt ==
  ASSUME IInv, NEW t \in Txns, Fits(t), phase[t] # "absent" \/ pc[t] # "idle"
  PROVE  Holds(t)
  BY DEF IInv, Base, HasConnection, TypeOK, Holds, Sess

\* What SetSess may put in the place of the session.
LEMMA ServesIt ==
  ASSUME NEW t \in Txns, Holds(t)
  PROVE  /\ Serves(t, Sess(t)) /\ Serves(t, Ended(Sess(t))) /\ Serves(t, Closed(Sess(t)))
         /\ Serves(t, Begun(Sess(t), AccessMode = "READ_ONLY"))
         /\ \A e : Serves(t, Wrote(Sess(t), e))
  BY HandlesKept DEF Holds, Fits, ConnectionFits, Serves

\* The step changes the session of t as a command that reads no rows does.
CommandStep(t) ==
  UNCHANGED session \/ \E x : SetSess(t, x) /\ Serves(t, x)

LEMMA SendFailsStep ==
  ASSUME NEW t \in Txns, Holds(t), NEW why, SendFails(t, why)
  PROVE  CommandStep(t)
  BY ServesIt DEF SendFails, CommandStep

LEMMA PerformStep ==
  ASSUME NEW t \in Txns, Holds(t), NEW w, Perform(t, w)
  PROVE  CommandStep(t)
  BY ServesIt DEF Perform, CommandStep

LEMMA CommandFits ==
  ASSUME NEW t \in Txns, Holds(t), CommandStep(t),
         UNCHANGED <<connection, helper, stream>>,
         detached[t] => detached'[t],
         pc'[t] = "idle" => stream[t] = "none"
  PROVE  Fits(t)'
  <1>1. helper[t] \in Sessions => session'[helper[t]] = session[helper[t]]
    BY SetSessOthers DEF CommandStep, Holds
  <1>2. CASE UNCHANGED session
    BY <1>2 DEF Holds, Fits, ConnectionFits, HelperFits, Sess
  <1>3. CASE \E x : SetSess(t, x) /\ Serves(t, x)
    <2>1. PICK x : SetSess(t, x) /\ Serves(t, x)
      BY <1>3
    <2>2. session'[connection[t]] = x
      BY <2>1, SetSessOthers DEF Holds
    <2> QED
      BY <1>1, <2>1, <2>2 DEF Holds, Fits, ConnectionFits, HelperFits, Serves, Sess, Mode
  <1> QED
    BY <1>2, <1>3 DEF CommandStep

\* A step that opens a stream or comes to the end of its rows.
LEMMA ReadFits ==
  ASSUME NEW t \in Txns, Holds(t), UNCHANGED <<connection, helper, detached>>,
         NEW b \in BOOLEAN, SetSess(t, Reading(Sess(t), b)),
         b => stream'[t] = "open",
         pc'[t] = "idle" => stream'[t] = "none"
  PROVE  Fits(t)'
  <1>1. /\ session'[connection[t]] = Reading(Sess(t), b)
        /\ helper[t] \in Sessions => session'[helper[t]] = session[helper[t]]
    BY SetSessOthers DEF Holds
  <1> DEFINE x == Reading(Sess(t), b)
  <1>2. x.busy = b /\ x.timeZone = Sess(t).timeZone /\ Mode(x)
    BY HandlesKept DEF Holds, Fits, ConnectionFits
  <1> QED
    BY <1>1, <1>2 DEF Holds, Fits, ConnectionFits, HelperFits, Sess, Mode

LEMMA FetchFits ==
  ASSUME NEW t \in Txns, Holds(t), UNCHANGED <<connection, helper, detached>>,
         NEW next \in {"cancelling", "draining"}, FetchInDestructor(t, next)
  PROVE  Fits(t)'
  <1>1. CASE pc' = [pc EXCEPT ![t] = next] /\ UNCHANGED <<stream, session>>
    BY <1>1, CommandFits DEF CommandStep, Holds, TypeOK
  <1>2. CASE SetSess(t, Reading(Sess(t), FALSE)) /\ FreeResult(t)
    <2>1. stream'[t] = "none"
      BY <1>2 DEF FreeResult, Holds, TypeOK
    <2> QED
      BY <1>2, <2>1, ReadFits
  <1> QED
    BY <1>1, <1>2 DEF FetchInDestructor

LEMMA ExecutionFits ==
  ASSUME NEW t \in Txns, Holds(t), Execution(t)
  PROVE  Fits(t)'
  <1> USE DEF serverVars, txnVars, stmtVars, resultVars, auxVars
  <1>0. /\ TypeOK /\ pc[t] = "running"
        /\ UNCHANGED <<connection, helper>>
    BY ExecutionFrames DEF ExecutionFrame, Holds
  <1>a. ASSUME NEW why, Raise(t, why) PROVE pc'[t] = "idle" => stream[t] = "none"
    BY <1>0, <1>a DEF Raise, TypeOK
  <1>b. ASSUME UNCHANGED session PROVE CommandStep(t)
    BY <1>b DEF CommandStep
  <1>1. CASE GetConnection(t)
    <2>1. CASE StartOnServer(t) /\ UNCHANGED stmtVars
      <3>1. CommandStep(t)
        BY <2>1, ServesIt DEF StartOnServer, CommandStep
      <3> QED
        BY <1>0, <1>1, <2>1, <3>1, CommandFits DEF GetConnection
    <2>2. CASE \E why \in {"server", "out_of_sync"} : SendFails(t, why) /\ Raise(t, why)
      BY <1>1, <1>a, <2>2, SendFailsStep, CommandFits DEF GetConnection
    <2> QED
      BY <1>1, <2>1, <2>2 DEF GetConnection
  <1>2. CASE CommandFails(t)
    BY <1>2, <1>a, SendFailsStep, CommandFits DEF CommandFails
  <1>3. CASE OpenScan(t)
    <2>1. CASE /\ stream' = [stream EXCEPT ![t] = "open"]
               /\ SetSess(t, Reading(Sess(t), TRUE))
      <3>1. stream'[t] = "open" /\ pc'[t] = "running" /\ UNCHANGED <<connection, helper, detached>>
        BY <1>0, <1>3, <2>1 DEF OpenScan, Done, TypeOK
      <3> QED
        BY <2>1, <3>1, ReadFits
    <2>2. CASE UNCHANGED <<left, stream, session>>
      BY <1>0, <1>3, <1>b, <2>2, CommandFits DEF OpenScan, Done
    <2> QED
      BY <1>3, <2>1, <2>2 DEF OpenScan
  <1>4. CASE Fetch(t)
    <2>1. CASE UNCHANGED <<stream, session>>
      BY <1>0, <1>4, <1>b, <2>1, CommandFits DEF Fetch
    <2>2. CASE SetSess(t, Reading(Sess(t), FALSE))
      BY <1>0, <1>4, <2>2, ReadFits DEF Fetch
    <2> QED
      BY <1>4, <2>1, <2>2 DEF Fetch
  <1>5. CASE Write(t, "writes") \/ Write(t, "calls")
    BY <1>0, <1>5, PerformStep, CommandFits DEF Write, Done
  <1>6. CASE Query(t)
    <2>1. CommandStep(t)
      BY <1>6, <1>b, PerformStep DEF Query
    <2>2. pc'[t] = "idle" => stream[t] = "none"
      BY <1>0, <1>6, <1>a DEF Query, Done
    <2> QED
      BY <1>0, <1>6, <2>1, <2>2, CommandFits DEF Query
  <1>7. ASSUME NEW kind, Ddl(t, kind) PROVE Fits(t)'
    <2>1. CommandStep(t)
      BY <1>7, ServesIt DEF Ddl, CommandStep
    <2>2. pc'[t] = "idle" => stream[t] = "none"
      BY <1>0, <1>7, <1>a DEF Ddl, Done
    <2>3. detached'[t]
      BY <1>0, <1>7 DEF Ddl, TypeOK
    <2> QED
      BY <1>0, <1>7, <2>1, <2>2, <2>3, CommandFits DEF Ddl
  <1>8. CASE StatementError(t)
    BY <1>8, <1>a, <1>b, CommandFits DEF StatementError
  <1>9. CASE FinishStatement(t)
    <2>1. pc'[t] = "idle" => stream[t] = "none"
      BY <1>0, <1>9 DEF FinishStatement, TypeOK
    <2> QED
      BY <1>9, <1>b, <2>1, CommandFits DEF FinishStatement
  <1> QED
    BY <1>1, <1>2, <1>3, <1>4, <1>5, <1>6, <1>7, <1>8, <1>9 DEF Execution

LEMMA DestructorFits ==
  ASSUME NEW t \in Txns, Holds(t), HelperOpened, Destructor(t)
  PROVE  Fits(t)'
  <1> USE DEF serverVars, txnVars, stmtVars, resultVars, auxVars
  <1>0. TypeOK
    BY DEF Holds
  <1>1. CASE CloseResult(t) \/ Drain(t)
    BY <1>1, FetchFits DEF CloseResult, Drain
  <1>2. CASE OpenHelper(t)
    <2>1. pc'[t] # "idle" /\ UNCHANGED <<connection, stream, detached>>
      BY <1>0, <1>2 DEF OpenHelper, TypeOK
    <2>2. CASE UNCHANGED <<session, helper>>
      BY <2>1, <2>2, CommandFits DEF CommandStep
    <2>3. CASE \E s \in Sessions :
                 /\ session[s].status = "unused"
                 /\ session' = [session EXCEPT ![s] = Connected]
                 /\ helper' = [helper EXCEPT ![t] = s]
      <3>1. PICK s \in Sessions :
                 /\ session[s].status = "unused"
                 /\ session' = [session EXCEPT ![s] = Connected]
                 /\ helper' = [helper EXCEPT ![t] = s]
        BY <2>3
      <3>2. connection[t] # s
        BY <3>1 DEF Holds, Ownership, Taken
      <3>3. session'[connection[t]] = session[connection[t]] /\ session'[helper'[t]] = Connected
        BY <1>0, <3>1, <3>2 DEF TypeOK
      <3>4. ~Connected.busy /\ ~Connected.inTxn
        BY DEF Connected, NotConnected
      <3> QED
        BY <2>1, <3>3, <3>4 DEF Holds, Fits, ConnectionFits, HelperFits, Sess
    <2> QED
      BY <1>2, <2>2, <2>3 DEF OpenHelper
  <1>3. CASE KillAndSwap(t)
    <2>1. helper[t] \in Sessions /\ helper'[t] = NoSession /\ connection[t] # helper[t]
      BY <1>0, <1>3, ConstantsAssumption DEF KillAndSwap, HelperOpened, Holds, Ownership, TypeOK
    <2>2. CASE /\ SetSess(t, Reading(Closed(Sess(t)), FALSE))
               /\ connection' = [connection EXCEPT ![t] = helper[t]]
               /\ detached' = [detached EXCEPT ![t] = TRUE]
               /\ FreeResult(t)
      <3>1. session'[helper[t]] = session[helper[t]]
        BY <2>1, <2>2, SetSessOthers DEF Holds
      <3>2. connection'[t] = helper[t] /\ detached'[t] /\ stream'[t] = "none"
        BY <1>0, <2>2 DEF FreeResult, TypeOK
      <3>3. ~session[helper[t]].busy /\ ~session[helper[t]].inTxn
        BY <2>1 DEF Holds, Fits, HelperFits
      <3> QED
        BY <2>1, <3>1, <3>2, <3>3, ConstantsAssumption
           DEF Fits, ConnectionFits, HelperFits, Sess, Mode
    <2>3. CASE /\ session' = [session EXCEPT ![helper[t]] = Closed(@)]
               /\ pc' = [pc EXCEPT ![t] = "draining"]
               /\ UNCHANGED <<connection, detached, stream, left>>
      <3>1. session'[connection[t]] = session[connection[t]] /\ pc'[t] # "idle"
        BY <1>0, <2>1, <2>3 DEF TypeOK
      <3> QED
        BY <2>1, <2>3, <3>1, ConstantsAssumption
           DEF Holds, Fits, ConnectionFits, HelperFits, Sess
    <2> QED
      BY <1>3, <2>2, <2>3 DEF KillAndSwap
  <1> QED
    BY <1>1, <1>2, <1>3 DEF Destructor

LEMMA StartFits ==
  ASSUME IInv, NEW t \in Txns, Fits(t), StartTransaction(t)
  PROVE  Fits(t)'
  <1> USE DEF serverVars, txnVars, stmtVars, resultVars, auxVars
  <1>0. /\ TypeOK /\ Ownership /\ phase[t] = "absent" /\ connection[t] = NoSession
        /\ UNCHANGED <<helper, stream, pc, detached>>
    BY DEF IInv, Base, Ownership, StartTransaction
  <1>1. pc[t] = "idle" /\ stream[t] = "none"
    BY <1>0 DEF IInv, Life, Fits
  <1>2. PICK s \in Sessions :
          /\ session[s].status = "unused"
          /\ \/ /\ session' = [session EXCEPT ![s] = WithTimeZone(Connected, SessionTimeZone)]
                /\ connection' = [connection EXCEPT ![t] = s]
             \/ session' = [session EXCEPT ![s] = Closed(Connected)] /\ UNCHANGED txnVars
    BY DEF StartTransaction
  <1>3. helper[t] # s
    BY <1>0, <1>2 DEF Ownership, Taken
  <1>4. helper[t] \in Sessions => session'[helper[t]] = session[helper[t]]
    BY <1>0, <1>2, <1>3 DEF TypeOK
  <1>5. HelperFits(t)'
    BY <1>0, <1>4 DEF Fits, HelperFits
  <1>6. CASE /\ session' = [session EXCEPT ![s] = WithTimeZone(Connected, SessionTimeZone)]
             /\ connection' = [connection EXCEPT ![t] = s]
    <2>1. connection'[t] = s /\ session'[s] = WithTimeZone(Connected, SessionTimeZone)
      BY <1>0, <1>6 DEF TypeOK
    <2> DEFINE x == WithTimeZone(Connected, SessionTimeZone)
    <2>2. ~x.busy /\ ~x.inTxn /\ x.timeZone = SessionTimeZone
      BY DEF WithTimeZone, Connected, NotConnected
    <2> QED
      BY <1>0, <1>1, <1>5, <2>1, <2>2 DEF Fits, ConnectionFits, Sess, Mode
  <1>7. CASE UNCHANGED txnVars
    BY <1>0, <1>1, <1>5, <1>7, ConstantsAssumption DEF Fits, ConnectionFits
  <1> QED
    BY <1>2, <1>6, <1>7

LEMMA OwnFits ==
  ASSUME IInv, NEW t \in Txns, Fits(t), Client(t)
  PROVE  Fits(t)'
  <1> USE DEF serverVars, txnVars, stmtVars, resultVars, auxVars
  <1>0. TypeOK /\ HelperOpened
    BY DEF IInv, Base
  <1>1. CASE StartTransaction(t)
    BY <1>1, StartFits
  <1>2. CASE BeginStatement(t)
    <2>1. Holds(t) /\ pc'[t] # "idle"
      BY <1>0, <1>2, HoldsIt DEF BeginStatement, Usable, Alive, TypeOK
    <2> QED
      BY <1>2, <2>1, CommandFits DEF BeginStatement, CommandStep
  <1>3. CASE Execution(t)
    <2>1. Holds(t)
      BY <1>3, ExecutionFrames, HoldsIt DEF ExecutionFrame
    <2> QED
      BY <1>3, <2>1, ExecutionFits
  <1>4. CASE Destructor(t)
    <2>1. Holds(t)
      BY <1>4, HoldsIt DEF Destructor, CloseResult, OpenHelper, KillAndSwap, Drain
    <2> QED
      BY <1>0, <1>4, <2>1, DestructorFits
  <1>5. CASE CommitTransaction(t)
    <2>1. Holds(t) /\ stream[t] = "none"
      BY <1>5, HoldsIt DEF CommitTransaction, Finish, Usable, Alive, Fits
    <2>2. CommandStep(t)
      <3>1. CASE SetSess(t, Closed(Sess(t)))
        BY <2>1, <3>1, ServesIt DEF CommandStep
      <3>2. CASE \E why \in {"server", "out_of_sync"} : SendFails(t, why)
        BY <2>1, <3>2, SendFailsStep
      <3> QED
        BY <1>5, <3>1, <3>2 DEF CommitTransaction, Finish, Erase
    <2> QED
      BY <1>5, <2>1, <2>2, CommandFits DEF CommitTransaction, Finish
  <1>6. CASE RollbackTransaction(t)
    <2>1. Holds(t) /\ stream[t] = "none"
      BY <1>6, HoldsIt DEF RollbackTransaction, Finish, Alive, Fits
    <2>2. CommandStep(t)
      BY <1>6, <2>1, ServesIt DEF RollbackTransaction, Finish, Erase, CommandStep
    <2> QED
      BY <1>6, <2>1, <2>2, CommandFits DEF RollbackTransaction, Finish
  <1>7. CASE Checkpoint(t)
    <2>1. Holds(t) /\ stream[t] = "none"
      BY <1>7, HoldsIt DEF Checkpoint, Usable, Alive, Fits
    <2>2. CommandStep(t)
      BY <1>7, <2>1, ServesIt DEF Checkpoint, StartOnServer, CommandStep
    <2> QED
      BY <1>7, <2>1, <2>2, CommandFits DEF Checkpoint
  <1> QED
    BY <1>1, <1>2, <1>3, <1>4, <1>5, <1>6, <1>7 DEF Client

\* A client step of t moves the thread and the result of no other.
SameStatement(u) ==
  /\ pc'[u] = pc[u] /\ stmt'[u] = stmt[u]
  /\ streaming'[u] = streaming[u] /\ stream'[u] = stream[u]

LEMMA OthersSameStatement ==
  ASSUME TypeOK, NEW t \in Txns, Client(t)
  PROVE  \A u \in Txns \ {t} : SameStatement(u)
  <1> USE DEF serverVars, txnVars, stmtVars, resultVars, auxVars, SameStatement, TypeOK
  <1>a. ASSUME NEW why, Raise(t, why) PROVE
          /\ UNCHANGED streaming
          /\ \A u \in Txns \ {t} : pc'[u] = pc[u] /\ stmt'[u] = stmt[u]
    BY <1>a DEF Raise
  <1>b. ASSUME NEW kind, Done(t, kind) PROVE
          /\ UNCHANGED <<streaming, pc>>
          /\ \A u \in Txns \ {t} : stmt'[u] = stmt[u]
    BY <1>b DEF Done
  <1>1. CASE StartTransaction(t)
    BY <1>1 DEF StartTransaction
  <1>2. CASE BeginStatement(t)
    BY <1>2 DEF BeginStatement
  <1>3. CASE GetConnection(t)
    BY <1>3, <1>a DEF GetConnection
  <1>4. CASE CommandFails(t)
    BY <1>4, <1>a DEF CommandFails
  <1>5. CASE OpenScan(t)
    BY <1>5, <1>b DEF OpenScan
  <1>6. CASE Fetch(t)
    BY <1>6 DEF Fetch
  <1>7. CASE Write(t, "writes") \/ Write(t, "calls")
    BY <1>7, <1>b DEF Write
  <1>8. CASE Query(t)
    BY <1>8, <1>a, <1>b DEF Query
  <1>9. CASE Ddl(t, "ddl") \/ Ddl(t, "calls")
    BY <1>9, <1>a, <1>b DEF Ddl
  <1>10. CASE StatementError(t)
    BY <1>10, <1>a DEF StatementError
  <1>11. CASE FinishStatement(t)
    BY <1>11 DEF FinishStatement
  <1>12. CASE CloseResult(t) \/ Drain(t)
    BY <1>12 DEF CloseResult, Drain, FetchInDestructor, FreeResult
  <1>13. CASE OpenHelper(t)
    BY <1>13 DEF OpenHelper
  <1>14. CASE KillAndSwap(t)
    BY <1>14 DEF KillAndSwap, FreeResult
  <1>15. CASE CommitTransaction(t) \/ RollbackTransaction(t)
    BY <1>15 DEF CommitTransaction, RollbackTransaction, Finish
  <1>16. CASE Checkpoint(t)
    BY <1>16, <1>a DEF Checkpoint
  <1> QED
    BY <1>1, <1>2, <1>3, <1>4, <1>5, <1>6, <1>7, <1>8, <1>9, <1>10, <1>11, <1>12,
       <1>13, <1>14, <1>15, <1>16 DEF Client, Execution, Destructor

LEMMA OthersFit ==
  ASSUME NEW u, Fits(u), SameState(u), SameStatement(u), SessionsOf(u)
  PROVE  Fits(u)'
  BY DEF Fits, ConnectionFits, HelperFits, SameState, SameStatement, SessionsOf, Sess

\* A lost session is closed on the server; the handle keeps its state.
LEMMA LoseFits ==
  ASSUME TypeOK, NEW s \in Sessions, Lose(s), NEW t \in Txns, Fits(t)
  PROVE  Fits(t)'
  <1>1. /\ UNCHANGED <<connection, helper, stream, pc, detached>>
        /\ session' = [session EXCEPT ![s] = Closed(session[s])]
    BY DEF Lose, txnVars, stmtVars, resultVars, auxVars
  <1> DEFINE x == Closed(session[s])
  <1>2. /\ x.busy = session[s].busy /\ x.timeZone = session[s].timeZone
        /\ ~x.inTxn
    BY DEF TypeOK, Session, Closed
  <1>3. ASSUME NEW r \in Sessions
        PROVE  /\ session'[r].busy = session[r].busy
               /\ session'[r].timeZone = session[r].timeZone
               /\ session'[r] = session[r] \/ ~session'[r].inTxn
    BY <1>1, <1>2 DEF TypeOK
  <1>4. ConnectionFits(t)'
    BY <1>1, <1>3 DEF Fits, ConnectionFits, Sess, Mode
  <1>5. HelperFits(t)'
    BY <1>1, <1>3 DEF Fits, HelperFits
  <1> QED
    BY <1>1, <1>4, <1>5 DEF Fits

AllFit == \A t \in Txns : Fits(t)

LEMMA AllFitStep == IInv /\ AllFit /\ [Next]_vars => AllFit'
  <1> SUFFICES ASSUME IInv, AllFit, [Next]_vars, NEW u \in Txns PROVE Fits(u)'
    BY DEF AllFit
  <1>1. ASSUME NEW t \in Txns, Client(t) PROVE Fits(u)'
    <2>1. CASE u = t
      BY <1>1, <2>1, OwnFits DEF AllFit
    <2>2. CASE u # t
      <3>1. SameState(u) /\ SameStatement(u) /\ SessionsOf(u)
        BY <1>1, <2>2, OthersSameState, OthersSameStatement, OthersSessions DEF IInv, Base
      <3> QED
        BY <3>1, OthersFit DEF AllFit
    <2> QED
      BY <2>1, <2>2
  <1>2. ASSUME NEW s \in Sessions, Lose(s) PROVE Fits(u)'
    BY <1>2, LoseFits DEF IInv, Base, AllFit
  <1>3. CASE UNCHANGED vars
    BY <1>3 DEF vars, AllFit, Fits, ConnectionFits, HelperFits, Sess
  <1> QED
    BY <1>1, <1>2, <1>3 DEF Next

LEMMA AllFitInit == Init => AllFit
  BY ConstantsAssumption DEF Init, AllFit, Fits, ConnectionFits, HelperFits

(***************************************************************************)
(* Between two statements the handle is ready for a command: ~MySQLResult  *)
(* has exhausted, drained or swapped away whatever the statement left,     *)
(* also when an exception or a lost session ended it.                      *)
(***************************************************************************)
THEOREM ConnectionsAreReady == Spec => []ReadyWhenIdle
  <1>1. IInv /\ AllFit => ReadyWhenIdle
    <2> SUFFICES ASSUME IInv, AllFit, NEW t \in transactions, pc[t] = "idle"
                 PROVE  ~Sess(t).busy
      BY DEF ReadyWhenIdle
    <2>1. t \in Txns /\ connection[t] \in Sessions
      BY DEF IInv, Base, TypeOK, HasConnection, Life
    <2> QED
      BY <2>1 DEF AllFit, Fits, ConnectionFits
  <1> QED
    BY <1>1, AllFitInit, AllFitStep, IInvAlways, PTL DEF Spec

(***************************************************************************)
(* Once a transaction has started, a command it gets through runs inside a *)
(* transaction of the catalog's access mode and under the time zone the    *)
(* user set, unless DDL ended that transaction or the session was swapped. *)
(***************************************************************************)
THEOREM CommandsRunInTransactions == Spec => []CommandsAreCovered
  <1>1. IInv /\ AllFit => CommandsAreCovered
    <2> SUFFICES ASSUME IInv, AllFit, NEW t \in Txns,
                        Started(t), Open(Sess(t)), ~detached[t]
                 PROVE  /\ Sess(t).inTxn
                        /\ Sess(t).readOnly <=> AccessMode = "READ_ONLY"
                        /\ Sess(t).timeZone = SessionTimeZone
      BY DEF CommandsAreCovered
    <2>1. connection[t] \in Sessions /\ phase[t] = "alive" /\ failure[t] = "none"
      BY DEF IInv, Base, HasConnection, Life, Started
    <2>2. Sess(t).inTxn
      BY <2>1 DEF IInv, Keeps, WorkOf, Started
    <2> QED
      BY <2>1, <2>2 DEF AllFit, Fits, ConnectionFits, Mode
  <1> QED
    BY <1>1, AllFitInit, AllFitStep, IInvAlways, PTL DEF Spec
-----------------------------------------------------------------------------
(***************************************************************************)
(* A read-only catalog.  No statement writes, no session holds work, and a *)
(* transaction that keeps its session leaves nothing in the database: what *)
(* mysql_query sends meets START TRANSACTION READ ONLY.                    *)
(***************************************************************************)
Quiet(t) ==
  /\ stmt[t].writes = 0 /\ stmt[t].ddl = 0
  /\ connection[t] \in Sessions => Sess(t).work = {}
  /\ ~detached[t] => Written(t) = {}

AllQuiet == AccessMode = "READ_ONLY" => \A t \in Txns : Quiet(t)

\* The session of t holds no more work than before.
NoMoreWork(t) ==
  UNCHANGED session \/ \E x : SetSess(t, x) /\ x.work \subseteq Sess(t).work

LEMMA NoMoreWorkIt ==
  ASSUME NEW t \in Txns, Holds(t)
  PROVE  /\ \A why : SendFails(t, why) => NoMoreWork(t)
         /\ SetSess(t, Closed(Sess(t))) => NoMoreWork(t)
         /\ StartOnServer(t) => NoMoreWork(t)
         /\ \A b \in BOOLEAN : SetSess(t, Reading(Sess(t), b)) => NoMoreWork(t)
  BY FieldsKept DEF Holds, SendFails, StartOnServer, NoMoreWork

LEMMA QuietFrame ==
  ASSUME NEW t \in Txns, Holds(t), Quiet(t), NoMoreWork(t),
         UNCHANGED <<connection, database>>, detached[t] => detached'[t],
         stmt'[t].writes = 0 /\ stmt'[t].ddl = 0
  PROVE  Quiet(t)'
  <1>1. CASE UNCHANGED session
    BY <1>1 DEF Quiet, Written, Sess
  <1>2. CASE \E x : SetSess(t, x) /\ x.work \subseteq Sess(t).work
    <2>1. PICK x : SetSess(t, x) /\ x.work \subseteq Sess(t).work
      BY <1>2
    <2>2. session'[connection[t]] = x
      BY <2>1, SetSessOthers DEF Holds
    <2> QED
      BY <2>1, <2>2 DEF Holds, Quiet, Written, Sess
  <1> QED
    BY <1>1, <1>2 DEF NoMoreWork

LEMMA NoWorkIsQuiet == NoWork.writes = 0 /\ NoWork.ddl = 0
  BY DEF NoWork

LEMMA ExecutionQuiet ==
  ASSUME AccessMode = "READ_ONLY", IInv, NEW t \in Txns, Holds(t), Quiet(t), Execution(t)
  PROVE  Quiet(t)'
  <1> USE DEF serverVars, txnVars, stmtVars, resultVars, auxVars
  <1>0. /\ TypeOK /\ pc[t] = "running" /\ stmt[t] \in PlanType
        /\ UNCHANGED <<connection, helper>>
    BY ExecutionFrames DEF ExecutionFrame, Holds, TypeOK
  <1>a. ASSUME NEW why, Raise(t, why) PROVE stmt'[t].writes = 0 /\ stmt'[t].ddl = 0
    BY <1>0, <1>a, NoWorkIsQuiet DEF Raise, TypeOK
  <1>b. ASSUME NEW kind \in {"scans", "queries", "calls"}, Done(t, kind)
        PROVE  stmt'[t].writes = 0 /\ stmt'[t].ddl = 0
    <2>1. stmt'[t] = [stmt[t] EXCEPT ![kind] = @ - 1]
      BY <1>0, <1>b DEF Done, TypeOK
    <2>2. stmt'[t].writes = stmt[t].writes /\ stmt'[t].ddl = stmt[t].ddl
      BY <1>0, <2>1 DEF PlanType
    <2> QED
      BY <2>2 DEF Quiet
  <1>c. ASSUME UNCHANGED session PROVE NoMoreWork(t)
    BY <1>c DEF NoMoreWork
  <1>1. CASE GetConnection(t)
    <2>1. NoMoreWork(t)
      BY <1>1, NoMoreWorkIt DEF GetConnection
    <2>2. stmt'[t].writes = 0 /\ stmt'[t].ddl = 0
      BY <1>1, <1>a DEF GetConnection, Quiet
    <2> QED
      BY <1>1, <2>1, <2>2, QuietFrame DEF GetConnection
  <1>2. CASE CommandFails(t)
    BY <1>2, <1>a, NoMoreWorkIt, QuietFrame DEF CommandFails
  <1>3. CASE OpenScan(t)
    <2>1. NoMoreWork(t)
      BY <1>3, <1>c, NoMoreWorkIt DEF OpenScan
    <2> QED
      BY <1>3, <1>b, <2>1, QuietFrame DEF OpenScan
  <1>4. CASE Fetch(t)
    <2>1. NoMoreWork(t)
      BY <1>4, <1>c, NoMoreWorkIt DEF Fetch
    <2> QED
      BY <1>4, <2>1, QuietFrame DEF Fetch, Quiet
  <1>5. CASE Write(t, "writes") \/ Write(t, "calls")
    BY <1>0, <1>5 DEF Write, Quiet
  <1>6. CASE Query(t)
    <2>1. stmt'[t].writes = 0 /\ stmt'[t].ddl = 0
      BY <1>6, <1>a, <1>b DEF Query
    <2>2. CASE UNCHANGED <<session, database>>
      BY <1>6, <1>c, <2>1, <2>2, QuietFrame DEF Query
    <2>3. CASE ~Rejects(Sess(t)) /\ \E w \in Writes : Perform(t, w)
      <3>1. ~Sess(t).inTxn
        BY <2>3 DEF Rejects, Holds, Fits, ConnectionFits, Mode
      <3>2. detached[t]
        BY <1>6, <3>1 DEF IInv, Keeps, WorkOf, Query, Started, Sends, Life
      <3>3. UNCHANGED <<session, detached>>
        BY <1>6, <2>3, <3>1 DEF Perform, Query
      <3> QED
        BY <1>0, <2>1, <3>2, <3>3 DEF Quiet, Sess
    <2> QED
      BY <1>6, <2>2, <2>3 DEF Query
  <1>7. CASE Ddl(t, "ddl") \/ Ddl(t, "calls")
    BY <1>7 DEF Ddl
  <1>8. CASE StatementError(t)
    BY <1>8, <1>a, <1>c, QuietFrame DEF StatementError
  <1>9. CASE FinishStatement(t)
    BY <1>9, <1>c, QuietFrame DEF FinishStatement, Quiet
  <1> QED
    BY <1>1, <1>2, <1>3, <1>4, <1>5, <1>6, <1>7, <1>8, <1>9 DEF Execution

LEMMA OwnQuiet ==
  ASSUME AccessMode = "READ_ONLY", IInv, NEW t \in Txns, Fits(t), Quiet(t), Client(t)
  PROVE  Quiet(t)'
  <1> USE DEF serverVars, txnVars, stmtVars, resultVars, auxVars
  <1>0. TypeOK /\ HelperOpened
    BY DEF IInv, Base
  <1>c. ASSUME UNCHANGED session PROVE NoMoreWork(t)
    BY <1>c DEF NoMoreWork
  <1>1. CASE StartTransaction(t)
    <2>1. UNCHANGED <<database, stmt, detached>> /\ connection[t] = NoSession
      BY <1>1 DEF StartTransaction, IInv, Ownership
    <2>2. PICK s \in Sessions :
            \/ /\ session' = [session EXCEPT ![s] = WithTimeZone(Connected, SessionTimeZone)]
               /\ connection' = [connection EXCEPT ![t] = s]
            \/ UNCHANGED connection
      BY <1>1 DEF StartTransaction
    <2>3. WithTimeZone(Connected, SessionTimeZone).work = {}
      BY DEF WithTimeZone, Connected, NotConnected
    <2>4. connection'[t] \in Sessions => session'[connection'[t]].work = {}
      BY <1>0, <2>1, <2>2, <2>3, ConstantsAssumption DEF TypeOK
    <2> QED
      BY <2>1, <2>4 DEF Quiet, Written, Sess
  <1>2. CASE BeginStatement(t)
    <2>1. Holds(t)
      BY <1>2, HoldsIt DEF BeginStatement, Usable, Alive
    <2>2. stmt'[t].writes = 0 /\ stmt'[t].ddl = 0
      BY <1>0, <1>2 DEF BeginStatement, TypeOK
    <2> QED
      BY <1>2, <1>c, <2>1, <2>2, QuietFrame DEF BeginStatement
  <1>3. CASE Execution(t)
    <2>1. Holds(t)
      BY <1>3, ExecutionFrames, HoldsIt DEF ExecutionFrame
    <2> QED
      BY <1>3, <2>1, ExecutionQuiet
  <1>4. CASE CloseResult(t) \/ Drain(t)
    <2>1. Holds(t)
      BY <1>4, HoldsIt DEF CloseResult, Drain
    <2>2. NoMoreWork(t)
      BY <1>4, <1>c, <2>1, NoMoreWorkIt DEF CloseResult, Drain, FetchInDestructor
    <2> QED
      BY <1>4, <2>1, <2>2, QuietFrame DEF CloseResult, Drain, Quiet
  <1>5. CASE OpenHelper(t)
    <2>1. /\ UNCHANGED <<database, stmt, connection, detached>>
          /\ connection[t] \in Sessions => session'[connection[t]] = session[connection[t]]
      BY <1>0, <1>5 DEF OpenHelper, IInv, Ownership, Taken, TypeOK
    <2> QED
      BY <2>1 DEF Quiet, Written, Sess
  <1>6. CASE KillAndSwap(t)
    <2>1. /\ helper[t] \in Sessions /\ connection[t] \in Sessions
          /\ connection[t] # helper[t] /\ session[helper[t]].work = {}
          /\ UNCHANGED <<database, stmt>>
      BY <1>0, <1>6, ConstantsAssumption
         DEF KillAndSwap, HelperOpened, IInv, Base, HasConnection, Ownership, Keeps, WorkOf
    <2>2. CASE /\ SetSess(t, Reading(Closed(Sess(t)), FALSE))
               /\ connection' = [connection EXCEPT ![t] = helper[t]]
               /\ detached' = [detached EXCEPT ![t] = TRUE]
      <3>1. connection'[t] = helper[t] /\ detached'[t]
        BY <1>0, <2>2 DEF TypeOK
      <3>2. session'[helper[t]] = session[helper[t]]
        BY <1>0, <2>1, <2>2, SetSessOthers DEF IInv
      <3> QED
        BY <2>1, <3>1, <3>2 DEF Quiet, Sess
    <2>3. CASE /\ session' = [session EXCEPT ![helper[t]] = Closed(@)]
               /\ UNCHANGED <<connection, detached>>
      <3>1. session'[connection[t]] = session[connection[t]]
        BY <1>0, <2>1, <2>3 DEF TypeOK
      <3> QED
        BY <2>1, <2>3, <3>1 DEF Quiet, Written, Sess
    <2> QED
      BY <1>6, <2>2, <2>3 DEF KillAndSwap
  <1>7. CASE CommitTransaction(t)
    <2>1. Holds(t) /\ UNCHANGED <<stmt, connection, detached>>
      BY <1>7, HoldsIt DEF CommitTransaction, Finish, Usable, Alive
    <2>2. UNCHANGED database
      BY <1>7, <2>1 DEF CommitTransaction, Finish, Quiet, Holds
    <2>3. NoMoreWork(t)
      BY <1>7, <2>1, NoMoreWorkIt DEF CommitTransaction, Finish, Erase
    <2> QED
      BY <2>1, <2>2, <2>3, QuietFrame DEF Quiet
  <1>8. CASE RollbackTransaction(t)
    <2>1. Holds(t)
      BY <1>8, HoldsIt DEF RollbackTransaction, Finish, Alive
    <2>2. NoMoreWork(t)
      BY <1>8, <2>1, NoMoreWorkIt DEF RollbackTransaction, Finish, Erase
    <2> QED
      BY <1>8, <2>1, <2>2, QuietFrame DEF RollbackTransaction, Finish, Quiet
  <1>9. CASE Checkpoint(t)
    <2>1. Holds(t)
      BY <1>9, HoldsIt DEF Checkpoint, Usable, Alive
    <2>2. NoMoreWork(t)
      BY <1>9, <1>c, <2>1, NoMoreWorkIt DEF Checkpoint
    <2>3. stmt'[t].writes = 0 /\ stmt'[t].ddl = 0
      BY <1>0, <1>9, NoWorkIsQuiet DEF Checkpoint, Raise, TypeOK
    <2> QED
      BY <1>9, <2>1, <2>2, <2>3, QuietFrame DEF Checkpoint
  <1> QED
    BY <1>1, <1>2, <1>3, <1>4, <1>5, <1>6, <1>7, <1>8, <1>9 DEF Client, Destructor

LEMMA AllQuietStep == IInv /\ AllFit /\ AllQuiet /\ [Next]_vars => AllQuiet'
  <1> SUFFICES ASSUME IInv, AllFit, AllQuiet, [Next]_vars,
                      AccessMode = "READ_ONLY", NEW u \in Txns
               PROVE  Quiet(u)'
    BY DEF AllQuiet
  <1>0. Quiet(u) /\ TypeOK
    BY DEF AllQuiet, IInv, Base
  <1>1. ASSUME NEW t \in Txns, Client(t) PROVE Quiet(u)'
    <2>1. CASE u = t
      BY <1>0, <1>1, <2>1, OwnQuiet DEF AllFit
    <2>2. CASE u # t
      <3>1. SameStatement(u) /\ Untouched(u)
        BY <1>0, <1>1, <2>2, OthersSameStatement, OthersUntouched DEF IInv, Keeps
      <3> QED
        BY <1>0, <3>1 DEF Quiet, SameStatement, Untouched, SessionsOf, Sess
    <2> QED
      BY <2>1, <2>2
  <1>2. ASSUME NEW s \in Sessions, Lose(s) PROVE Quiet(u)'
    <2>1. /\ UNCHANGED <<connection, database, stmt, detached>>
          /\ session' = [session EXCEPT ![s] = Closed(session[s])]
      BY <1>2 DEF Lose, txnVars, stmtVars, resultVars, auxVars
    <2>2. Closed(session[s]).work = {}
      BY <1>0, FieldsKept DEF TypeOK
    <2> QED
      BY <1>0, <2>1, <2>2 DEF Quiet, Written, Sess, TypeOK
  <1>3. CASE UNCHANGED vars
    BY <1>0, <1>3 DEF vars, Quiet, Written, Sess
  <1> QED
    BY <1>1, <1>2, <1>3 DEF Next

(***************************************************************************)
(* On a catalog attached READ_ONLY nothing changes in the database, by     *)
(* mysql_execute or by the text of a mysql_query, except on a session that *)
(* TryCancelQuery put in the place of the transaction's own.               *)
(***************************************************************************)
THEOREM ReadOnlyIsKept == Spec => []ReadOnlyHolds
  <1>1. Init => AllQuiet
    BY NoWorkIsQuiet, ConstantsAssumption DEF Init, AllQuiet, Quiet, Written
  <1>2. IInv /\ AllQuiet => ReadOnlyHolds
    <2> SUFFICES ASSUME IInv, AllQuiet, AccessMode = "READ_ONLY", NEW e \in database
                 PROVE  detached[e[1]]
      BY DEF ReadOnlyHolds
    <2>1. e \in Effects
      BY DEF IInv, Base, TypeOK
    <2>2. PICK u \in Txns, w \in Writes : e = <<u, w>>
      BY <2>1 DEF Effects
    <2>3. e \in Written(u)
      BY <2>2 DEF Written
    <2> QED
      BY <2>2, <2>3 DEF AllQuiet, Quiet
  <1> QED
    BY <1>1, <1>2, AllFitInit, AllFitStep, AllQuietStep, IInvAlways, PTL DEF Spec
-----------------------------------------------------------------------------
(***************************************************************************)
(* The streaming decision.  A plan that may stream has one command, the    *)
(* scan, so a stream is open only when nothing is left to send.  This      *)
(* needs the plans to keep mysql_execute away from a single scan, which    *)
(* MySQLOptimizer does not see to.                                         *)
(***************************************************************************)
CallsKeepAway == \A p \in Statements : AllowStreaming(p) => p.calls = 0

AtMostOneScan(p) ==
  p.scans \in {0, 1} /\ p.queries = 0 /\ p.writes = 0 /\ p.ddl = 0 /\ p.calls = 0

Alone(t) ==
  /\ stream[t] = "open" => stmt[t] = NoWork /\ transactionState[t] # "NOT_YET_STARTED"
  /\ streaming[t] => AtMostOneScan(stmt[t])
  /\ failure[t] # "out_of_sync"

AllAlone == \A t \in Txns : Alone(t)

LEMMA NoWorkIsAlone == AtMostOneScan(NoWork)
  BY DEF AtMostOneScan, NoWork

LEMMA PlanFields ==
  ASSUME NEW p \in PlanType
  PROVE  p = [scans |-> p.scans, queries |-> p.queries, writes |-> p.writes,
              ddl |-> p.ddl, calls |-> p.calls]
  BY DEF PlanType

\* The scan of a streaming plan is its last command.
LEMMA ScanIsLast ==
  ASSUME NEW p \in PlanType, AtMostOneScan(p), p.scans > 0
  PROVE  [p EXCEPT !["scans"] = @ - 1] = NoWork
  <1> DEFINE q == [p EXCEPT !["scans"] = @ - 1]
  <1>1. q \in PlanType
    BY DEF PlanType, AtMostOneScan
  <1>2. q.scans = 0 /\ q.queries = 0 /\ q.writes = 0 /\ q.ddl = 0 /\ q.calls = 0
    BY DEF PlanType, AtMostOneScan
  <1>3. q = [scans |-> q.scans, queries |-> q.queries, writes |-> q.writes,
             ddl |-> q.ddl, calls |-> q.calls]
    BY <1>1, PlanFields
  <1> QED
    BY <1>2, <1>3 DEF NoWork

LEMMA ExecutionAlone ==
  ASSUME NEW t \in Txns, Holds(t), Alone(t), Execution(t)
  PROVE  Alone(t)'
  <1> USE DEF serverVars, txnVars, stmtVars, resultVars, auxVars
  <1>0. /\ TypeOK /\ pc[t] = "running" /\ stmt[t] \in PlanType
    BY ExecutionFrames DEF ExecutionFrame, Holds, TypeOK
  <1>a. ASSUME NEW why \in {"duckdb", "server"}, Raise(t, why),
               UNCHANGED stream,
               stream[t] = "open" => transactionState'[t] # "NOT_YET_STARTED"
        PROVE  Alone(t)'
    BY <1>0, <1>a, NoWorkIsAlone DEF Raise, Alone, TypeOK
  <1>b. ASSUME NEW why, SendFails(t, why), stream[t] # "open" PROVE why = "server"
    BY <1>b DEF SendFails, Holds, Fits, ConnectionFits
  <1>c. ASSUME NEW kind \in {"queries", "writes", "ddl", "calls"}, stmt[t][kind] > 0,
               Done(t, kind), UNCHANGED <<stream, transactionState>>
        PROVE  Alone(t)'
    <2>1. ~streaming[t] /\ stmt[t] # NoWork
      BY <1>c DEF Alone, AtMostOneScan, NoWork
    <2> QED
      BY <1>c, <2>1 DEF Alone, Done
  <1>1. CASE GetConnection(t)
    <2>1. stream[t] # "open"
      BY <1>1 DEF GetConnection, Alone
    <2>2. CASE UNCHANGED stmtVars
      BY <1>1, <2>1, <2>2 DEF GetConnection, Alone
    <2>3. CASE \E why \in {"server", "out_of_sync"} : SendFails(t, why) /\ Raise(t, why)
      BY <1>1, <1>a, <1>b, <2>1, <2>3 DEF GetConnection
    <2> QED
      BY <1>1, <2>2, <2>3 DEF GetConnection
  <1>2. CASE CommandFails(t)
    <2>1. stream[t] # "open"
      BY <1>2 DEF CommandFails, Alone
    <2> QED
      BY <1>2, <1>a, <1>b, <2>1 DEF CommandFails
  <1>3. CASE OpenScan(t)
    <2>1. /\ stmt'[t] = [stmt[t] EXCEPT !["scans"] = @ - 1]
          /\ UNCHANGED <<streaming, failure, transactionState>>
      BY <1>0, <1>3 DEF OpenScan, Done, TypeOK
    <2>2. CASE streaming[t]
      <3>1. stmt'[t] = NoWork
        BY <1>0, <1>3, <2>1, <2>2, ScanIsLast DEF OpenScan, Alone
      <3> QED
        BY <1>3, <2>1, <3>1, NoWorkIsAlone DEF OpenScan, Started, Alone
    <2>3. CASE ~streaming[t]
      <3>1. UNCHANGED stream
        BY <1>3, <2>3 DEF OpenScan
      <3>2. NoWork.scans = 0
        BY DEF NoWork
      <3>3. stmt[t] # NoWork
        BY <1>3, <3>2 DEF OpenScan
      <3> QED
        BY <2>1, <2>3, <3>1, <3>3 DEF Alone
    <2> QED
      BY <2>2, <2>3
  <1>4. CASE Fetch(t)
    BY <1>0, <1>4 DEF Fetch, Alone, TypeOK
  <1>5. CASE Write(t, "writes") \/ Write(t, "calls")
    BY <1>5, <1>c DEF Write
  <1>6. CASE Query(t)
    BY <1>6, <1>a, <1>c DEF Query, Started
  <1>7. CASE Ddl(t, "ddl") \/ Ddl(t, "calls")
    BY <1>7, <1>a, <1>c DEF Ddl, Started
  <1>8. CASE StatementError(t)
    BY <1>8, <1>a DEF StatementError, Alone
  <1>9. CASE FinishStatement(t)
    BY <1>9 DEF FinishStatement, Alone
  <1> QED
    BY <1>1, <1>2, <1>3, <1>4, <1>5, <1>6, <1>7, <1>8, <1>9 DEF Execution

LEMMA OwnAlone ==
  ASSUME CallsKeepAway, IInv, NEW t \in Txns, Fits(t), Alone(t), Client(t)
  PROVE  Alone(t)'
  <1> USE DEF serverVars, txnVars, stmtVars, resultVars, auxVars
  <1>0. TypeOK
    BY DEF IInv, Base
  <1>1. CASE StartTransaction(t)
    <2>1. stream[t] # "open" /\ UNCHANGED <<stream, stmt, streaming, failure>>
      BY <1>1 DEF StartTransaction, IInv, Life, Fits
    <2> QED
      BY <2>1 DEF Alone
  <1>2. CASE BeginStatement(t)
    <2>1. stream[t] # "open" /\ UNCHANGED <<stream, failure>>
      BY <1>2 DEF BeginStatement, Usable, Fits
    <2>2. PICK p \in Statements : /\ stmt' = [stmt EXCEPT ![t] = p]
                                  /\ streaming' = [streaming EXCEPT ![t] = AllowStreaming(p)]
      BY <1>2 DEF BeginStatement
    <2>3. AllowStreaming(p) => AtMostOneScan(p)
      BY DEF CallsKeepAway, AllowStreaming, AtMostOneScan
    <2>4. stmt'[t] = p /\ streaming'[t] = AllowStreaming(p)
      BY <1>0, <2>2 DEF TypeOK
    <2> QED
      BY <2>1, <2>3, <2>4 DEF Alone
  <1>3. CASE Execution(t)
    <2>1. Holds(t)
      BY <1>3, ExecutionFrames, HoldsIt DEF ExecutionFrame
    <2> QED
      BY <1>3, <2>1, ExecutionAlone
  <1>4. CASE Destructor(t)
    <2>1. UNCHANGED <<stmt, streaming, failure, transactionState>>
      BY <1>4 DEF Destructor, CloseResult, OpenHelper, KillAndSwap, Drain
    <2>2. stream'[t] = "open" => stream[t] = "open"
      BY <1>0, <1>4 DEF Destructor, CloseResult, OpenHelper, KillAndSwap, Drain,
                        FetchInDestructor, FreeResult, TypeOK
    <2> QED
      BY <2>1, <2>2 DEF Alone
  <1>5. CASE CommitTransaction(t) \/ RollbackTransaction(t)
    <2>1. stream[t] # "open" /\ UNCHANGED <<stream, stmt, streaming, failure>>
      BY <1>5 DEF CommitTransaction, RollbackTransaction, Finish, Usable, Fits
    <2> QED
      BY <2>1 DEF Alone
  <1>6. CASE Checkpoint(t)
    <2>1. stream[t] # "open" /\ UNCHANGED stream
      BY <1>6 DEF Checkpoint, Usable, Fits
    <2>2. stmt'[t] = NoWork /\ failure'[t] = "server"
      BY <1>0, <1>6 DEF Checkpoint, Raise, TypeOK
    <2> QED
      BY <2>1, <2>2, NoWorkIsAlone DEF Alone
  <1> QED
    BY <1>1, <1>2, <1>3, <1>4, <1>5, <1>6 DEF Client

LEMMA AllAloneStep ==
  ASSUME CallsKeepAway
  PROVE  IInv /\ AllFit /\ AllAlone /\ [Next]_vars => AllAlone'
  <1> SUFFICES ASSUME IInv, AllFit, AllAlone, [Next]_vars, NEW u \in Txns
               PROVE  Alone(u)'
    BY DEF AllAlone
  <1>1. ASSUME NEW t \in Txns, Client(t) PROVE Alone(u)'
    <2>1. CASE u = t
      BY <1>1, <2>1, OwnAlone DEF AllFit, AllAlone
    <2>2. CASE u # t
      <3>1. SameState(u) /\ SameStatement(u)
        BY <1>1, <2>2, OthersSameState, OthersSameStatement DEF IInv, Base
      <3> QED
        BY <3>1 DEF AllAlone, Alone, SameState, SameStatement
    <2> QED
      BY <2>1, <2>2
  <1>2. ASSUME NEW s \in Sessions, Lose(s) PROVE Alone(u)'
    BY <1>2 DEF Lose, AllAlone, Alone, txnVars, stmtVars, resultVars
  <1>3. CASE UNCHANGED vars
    BY <1>3 DEF vars, AllAlone, Alone
  <1> QED
    BY <1>1, <1>2, <1>3 DEF Next

(***************************************************************************)
(* No command is sent over an unread stream, whatever plans are run: one   *)
(* scan streams, two do not, nor does a scan under a write.  The           *)
(* assumption is what MySQLOptimizer leaves open, a mysql_execute in the   *)
(* plan of a single scan.                                                  *)
(***************************************************************************)
THEOREM StreamsStandAlone ==
  ASSUME CallsKeepAway
  PROVE  Spec => []NoOutOfSync
  <1>1. Init => AllAlone
    BY NoWorkIsAlone DEF Init, AllAlone, Alone
  <1>2. AllAlone => NoOutOfSync
    BY DEF AllAlone, Alone, NoOutOfSync
  <1>3. IInv /\ AllFit /\ AllAlone /\ [Next]_vars => AllAlone'
    BY AllAloneStep
  <1> QED
    BY <1>1, <1>2, <1>3, AllFitInit, AllFitStep, IInvAlways, PTL DEF Spec
-----------------------------------------------------------------------------
(***************************************************************************)
(* MySQLTransaction implements AtomicTransactions: the initial states map  *)
(* to the abstract one, and every step of a client, a destructor or the    *)
(* server to an abstract step of the same transaction or to none.          *)
(***************************************************************************)
(***************************************************************************)
(* What a client step of t, other than opening its connection, may do to   *)
(* the variables the abstraction looks at.                                 *)
(***************************************************************************)
Shape(t) ==
  /\ phase[t] = "alive" /\ phase'[t] # "absent"
  /\ detached[t] => detached'[t]
  /\ \/ issued' = issued
     \/ /\ phase'[t] = "alive"
        /\ \E w \in Writes : issued' = [issued EXCEPT ![t] = @ \cup {w}]

LEMMA ExecutionShape ==
  ASSUME IInv, NEW t \in Txns, Execution(t)
  PROVE  Shape(t)
  <1> USE DEF serverVars, txnVars, stmtVars, resultVars, auxVars, Shape
  <1>0. TypeOK /\ phase[t] = "alive" /\ phase' = phase
    BY ExecutionFrames DEF ExecutionFrame, IInv, Base, Life
  <1>1. CASE GetConnection(t) \/ CommandFails(t) \/ OpenScan(t) \/ Fetch(t)
    BY <1>0, <1>1 DEF GetConnection, CommandFails, OpenScan, Fetch
  <1>2. CASE Write(t, "writes") \/ Write(t, "calls")
    BY <1>0, <1>2 DEF Write
  <1>3. CASE Query(t)
    BY <1>0, <1>3 DEF Query
  <1>4. CASE Ddl(t, "ddl") \/ Ddl(t, "calls")
    BY <1>0, <1>4 DEF Ddl, TypeOK
  <1>5. CASE StatementError(t) \/ FinishStatement(t)
    BY <1>0, <1>5 DEF StatementError, FinishStatement
  <1> QED
    BY <1>1, <1>2, <1>3, <1>4, <1>5 DEF Execution

LEMMA ClientShape ==
  ASSUME IInv, NEW t \in Txns, Client(t), ~StartTransaction(t)
  PROVE  Shape(t)
  <1> USE DEF serverVars, txnVars, stmtVars, resultVars, auxVars, Shape
  <1>0. TypeOK /\ Life
    BY DEF IInv, Base
  <1>1. CASE BeginStatement(t) \/ Checkpoint(t)
    BY <1>0, <1>1 DEF BeginStatement, Checkpoint, Usable, Alive
  <1>2. CASE Execution(t)
    BY <1>2, ExecutionShape
  <1>3. CASE CloseResult(t) \/ OpenHelper(t) \/ Drain(t)
    <2>1. pc[t] # "idle" /\ UNCHANGED <<phase, issued, detached>>
      BY <1>3 DEF CloseResult, OpenHelper, Drain
    <2> QED
      BY <1>0, <2>1 DEF Life
  <1>4. CASE KillAndSwap(t)
    <2>1. pc[t] # "idle" /\ UNCHANGED <<phase, issued>>
      BY <1>4 DEF KillAndSwap
    <2>2. detached[t] => detached'[t]
      BY <1>0, <1>4 DEF KillAndSwap, TypeOK
    <2> QED
      BY <1>0, <2>1, <2>2 DEF Life
  <1>5. CASE CommitTransaction(t)
    <2>1. /\ phase[t] = "alive" /\ UNCHANGED <<issued, detached>>
          /\ \/ phase' = [phase EXCEPT ![t] = "committed"]
             \/ phase' = [phase EXCEPT ![t] = "failed"]
      BY <1>5 DEF CommitTransaction, Finish, Usable, Alive
    <2> QED
      BY <1>0, <2>1 DEF TypeOK
  <1>6. CASE RollbackTransaction(t)
    <2>1. /\ phase[t] = "alive" /\ UNCHANGED <<issued, detached>>
          /\ phase' = [phase EXCEPT ![t] = "rolled_back"]
      BY <1>6 DEF RollbackTransaction, Finish, Alive
    <2> QED
      BY <1>0, <2>1 DEF TypeOK
  <1> QED
    BY <1>1, <1>2, <1>3, <1>4, <1>5, <1>6 DEF Client, Destructor

\* At the other transactions nothing the abstraction looks at changes.
LEMMA MapsAt ==
  ASSUME TypeOK, TypeOK', NEW t \in Txns, Client(t)
  PROVE  /\ phase' = [phase EXCEPT ![t] = phase'[t]]
         /\ issued' = [issued EXCEPT ![t] = issued'[t]]
         /\ detached' = [detached EXCEPT ![t] = detached'[t]]
  <1>1. \A u \in Txns \ {t} :
          phase'[u] = phase[u] /\ issued'[u] = issued[u] /\ detached'[u] = detached[u]
    BY OthersSameState DEF SameState
  <1>2. phase' = [phase EXCEPT ![t] = phase'[t]]
    BY <1>1 DEF TypeOK
  <1>3. issued' = [issued EXCEPT ![t] = issued'[t]]
    BY <1>1 DEF TypeOK
  <1>4. detached' = [detached EXCEPT ![t] = detached'[t]]
    BY <1>1 DEF TypeOK
  <1> QED
    BY <1>2, <1>3, <1>4

\* Past its protection, whatever t does is its own.
LEMMA DetachedMaps ==
  ASSUME IInv, IInv', NEW t \in Txns, Client(t), Shape(t), detached'[t]
  PROVE  Abstract!Unprotected(t)
  <1>0. TypeOK /\ TypeOK' /\ WorkOf(t)
    BY DEF IInv, Base, Keeps
  <1>1. /\ phase' = [phase EXCEPT ![t] = phase'[t]]
        /\ issued' = [issued EXCEPT ![t] = issued'[t]]
        /\ detached' = [detached EXCEPT ![t] = TRUE]
    BY <1>0, MapsAt
  <1>2. phase'[t] \in {"alive", "committed", "rolled_back", "failed"}
    BY <1>0 DEF Shape, TypeOK
  <1>3. \E ws \in SUBSET Writes : issued' = [issued EXCEPT ![t] = @ \cup ws]
    <2>1. issued'[t] \in SUBSET Writes /\ issued[t] \subseteq issued'[t]
      BY <1>0 DEF Shape, TypeOK
    <2>2. issued' = [issued EXCEPT ![t] = @ \cup issued'[t]]
      <3>1. issued[t] \cup issued'[t] = issued'[t]
        BY <2>1
      <3> QED
        BY <1>1, <3>1
    <2> QED
      BY <2>1, <2>2
  <1>4. \E ws \in SUBSET Writes : database' = database \cup ({t} \X ws)
    <2>1. PICK D \in SUBSET ({t} \X Writes) : database' = database \cup D
      BY <1>0, ClientAddsOwn DEF AddsOwn, IInv
    <2> DEFINE ws == {w \in Writes : <<t, w>> \in D}
    <2>2. D = {t} \X ws
      BY <2>1
    <2> QED
      BY <2>1, <2>2
  <1> QED
    BY <1>1, <1>2, <1>3, <1>4 DEF Shape, Abstract!Unprotected, Abstract!Of

\* A transaction still protected: the database has what AtomicOf says.
LEMMA ProtectedMaps ==
  ASSUME IInv, IInv', NEW t \in Txns, Client(t), Shape(t), ~detached'[t]
  PROVE  \/ Abstract!Change(t)
         \/ Abstract!Finish(t)
         \/ UNCHANGED Abstract!avars
  <1>0. TypeOK /\ TypeOK' /\ ~detached[t] /\ AtomicOf(t) /\ AtomicOf(t)' /\ phase[t] = "alive"
    BY DEF IInv, Base, Keeps, Shape
  <1>1. /\ phase' = [phase EXCEPT ![t] = phase'[t]]
        /\ UNCHANGED detached
    <2>1. detached' = [detached EXCEPT ![t] = detached[t]]
      <3>1. detached[t] = FALSE /\ detached'[t] = FALSE
        BY <1>0 DEF TypeOK
      <3> QED
        BY <1>0, <3>1, MapsAt
    <2> QED
      BY <1>0, <2>1, MapsAt DEF TypeOK
  <1>2. /\ Written(t) = {}
        /\ database' = database \cup Written(t)'
    <2>1. Written(t) = {}
      BY <1>0 DEF AtomicOf
    <2>2. PICK D \in SUBSET ({t} \X Writes) : database' = database \cup D
      BY <1>0, ClientAddsOwn DEF AddsOwn, IInv, Keeps
    <2>3. Written(t)' = D
      BY <2>1, <2>2, WrittenOthers
    <2> QED
      BY <2>1, <2>2, <2>3
  <1>3. CASE phase'[t] = "alive"
    <2>1. UNCHANGED <<phase, database>>
      <3>1. Written(t)' = {}
        BY <1>0, <1>3 DEF AtomicOf
      <3>2. phase' = phase
        BY <1>0, <1>1, <1>3 DEF TypeOK
      <3> QED
        BY <1>2, <3>1, <3>2
    <2>2. CASE issued' = issued
      BY <1>1, <2>1, <2>2 DEF Abstract!avars
    <2>3. CASE \E w \in Writes : issued' = [issued EXCEPT ![t] = @ \cup {w}]
      BY <1>0, <1>1, <2>1, <2>3 DEF Abstract!Change
    <2> QED
      BY <2>2, <2>3 DEF Shape
  <1>4. CASE phase'[t] # "alive"
    <2>1. UNCHANGED issued /\ phase'[t] \in {"committed", "rolled_back", "failed"}
      BY <1>0, <1>4 DEF Shape, TypeOK
    <2>2. Issued(t)' = {t} \X issued[t]
      BY <2>1 DEF Issued
    <2>3. CASE phase'[t] = "committed"
      <3>1. Written(t)' = {t} \X issued[t]
        BY <1>0, <2>2, <2>3 DEF AtomicOf
      <3> QED
        BY <1>0, <1>1, <1>2, <2>1, <2>3, <3>1 DEF Abstract!Finish, Abstract!Of
    <2>4. CASE phase'[t] = "rolled_back"
      <3>1. UNCHANGED database
        BY <1>0, <1>2, <2>4 DEF AtomicOf
      <3> QED
        BY <1>0, <1>1, <2>1, <2>4, <3>1 DEF Abstract!Finish
    <2>5. CASE phase'[t] = "failed"
      <3>1. database' \in {database, database \cup ({t} \X issued[t])}
        BY <1>0, <1>2, <2>2, <2>5 DEF AtomicOf
      <3> QED
        BY <1>0, <1>1, <2>1, <2>5, <3>1 DEF Abstract!Finish, Abstract!Of
    <2> QED
      BY <2>1, <2>3, <2>4, <2>5
  <1> QED
    BY <1>3, <1>4

LEMMA StepMaps == IInv /\ IInv' /\ [Next]_vars => [Abstract!ANext]_(Abstract!avars)
  <1> SUFFICES ASSUME IInv, IInv', [Next]_vars, ~UNCHANGED Abstract!avars
               PROVE  Abstract!ANext
    OBVIOUS
  <1> USE DEF serverVars, txnVars, stmtVars, resultVars, auxVars
  <1>1. ASSUME NEW t \in Txns, Client(t) PROVE Abstract!ANext
    <2>1. CASE StartTransaction(t)
      <3>1. CASE UNCHANGED txnVars
        BY <2>1, <3>1 DEF StartTransaction, Abstract!avars
      <3>2. CASE phase' = [phase EXCEPT ![t] = "alive"]
        BY <2>1, <3>2 DEF StartTransaction, Abstract!Start, Abstract!ANext
      <3> QED
        BY <2>1, <3>1, <3>2 DEF StartTransaction
    <2>2. CASE ~StartTransaction(t)
      BY <1>1, <2>2, ClientShape, DetachedMaps, ProtectedMaps DEF Abstract!ANext
    <2> QED
      BY <2>1, <2>2
  <1>2. ASSUME NEW s \in Sessions, Lose(s) PROVE FALSE
    BY <1>2 DEF Lose, Abstract!avars
  <1>3. CASE UNCHANGED vars
    BY <1>3 DEF vars, Abstract!avars
  <1> QED
    BY <1>1, <1>2, <1>3 DEF Next

(***************************************************************************)
(* The README's promise ("Transactions"): seen from the client and the     *)
(* database, the sessions, statements, results, cancellations and failures *)
(* of the extension amount to transactions that are all or nothing.        *)
(***************************************************************************)
THEOREM TransactionsImplement == Spec => Implements
  <1>1. Init => Abstract!AInit
    BY DEF Init, Abstract!AInit
  <1> QED
    BY <1>1, IInvInit, IInvStep, StepMaps, PTL DEF Spec, Implements, Abstract!ASpec
=============================================================================
