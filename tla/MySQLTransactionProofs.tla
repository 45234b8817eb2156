------------------------ MODULE MySQLTransactionProofs ------------------------
(***************************************************************************)
(* Theorems about MySQLTransaction, for every set of transactions,         *)
(* sessions, writes and statements, every fault and both access modes.     *)
(***************************************************************************)
EXTENDS MySQLTransaction, TLAPS

(***************************************************************************)
(* What the operators of MySQLServer return and which fields they change.  *)
(***************************************************************************)
LEMMA FreshTypes ==
  ASSUME NEW b \in BOOLEAN
  PROVE  /\ NotConnected \in Session(Effects)
         /\ Connected \in Session(Effects)
         /\ Closed(Connected) \in Session(Effects)
         /\ WithTimeZone(Connected, b) \in Session(Effects)
  BY DEF Session, NotConnected, WithTimeZone, Connected, Closed

LEMMA SessionTypes ==
  ASSUME NEW s \in Session(Effects)
  PROVE  /\ Ended(s) \in Session(Effects)
         /\ Closed(s) \in Session(Effects)
         /\ \A b \in BOOLEAN : /\ Begun(s, b) \in Session(Effects)
                               /\ Reading(s, b) \in Session(Effects)
                               /\ Reading(Closed(s), b) \in Session(Effects)
         /\ \A e \in Effects : Wrote(s, e) \in Session(Effects)
  BY DEF Session, Begun, Ended, Closed, Wrote, Reading

LEMMA InitTypeOK == Init => TypeOK
  <1> SUFFICES ASSUME Init PROVE TypeOK
    OBVIOUS
  <1>1. NotConnected \in Session(Effects)
    BY DEF NotConnected, Session
  <1>2. NoWork \in PlanType
    BY DEF NoWork, PlanType
  <1> QED
    BY <1>1, <1>2 DEF Init, TypeOK

(***************************************************************************)
(* Type correctness, one step per action.                                  *)
(***************************************************************************)
LEMMA SetSessType ==
  ASSUME TypeOK, NEW t \in Txns, NEW x,
         connection[t] \in Sessions => x \in Session(Effects),
         SetSess(t, x)
  PROVE  session' \in [Sessions -> Session(Effects)]
  BY ConstantsAssumption DEF TypeOK, SetSess

LEMMA SendFailsType ==
  ASSUME TypeOK, NEW t \in Txns, NEW why, SendFails(t, why)
  PROVE  session' \in [Sessions -> Session(Effects)]
  <1>1. connection[t] \in Sessions => Sess(t) \in Session(Effects)
    BY DEF TypeOK, Sess
  <1>2. CASE SetSess(t, Ended(Sess(t)))
    BY <1>1, <1>2, SessionTypes, SetSessType
  <1>3. CASE UNCHANGED session
    BY <1>3 DEF TypeOK
  <1> QED
    BY <1>2, <1>3 DEF SendFails

LEMMA PerformType ==
  ASSUME TypeOK, NEW t \in Txns, NEW w \in Writes, Perform(t, w)
  PROVE  /\ session' \in [Sessions -> Session(Effects)]
         /\ database' \subseteq Effects
  <1>0. <<t, w>> \in Effects
    BY DEF Effects
  <1>1. connection[t] \in Sessions => Wrote(Sess(t), <<t, w>>) \in Session(Effects)
    BY <1>0, SessionTypes DEF TypeOK, Sess
  <1>2. CASE Sess(t).inTxn
    BY <1>1, <1>2, SetSessType DEF Perform, TypeOK
  <1>3. CASE ~Sess(t).inTxn
    BY <1>0, <1>3 DEF Perform, TypeOK
  <1> QED
    BY <1>2, <1>3

LEMMA RaiseType ==
  ASSUME TypeOK, NEW t \in Txns, NEW why \in {"duckdb", "server", "out_of_sync"},
         Raise(t, why)
  PROVE  /\ pc' \in [Txns -> {"idle", "running", "closing", "cancelling", "killing", "draining"}]
         /\ stmt' \in [Txns -> PlanType]
         /\ streaming' \in [Txns -> BOOLEAN]
         /\ failure' \in [Txns -> {"none", "duckdb", "server", "out_of_sync"}]
  BY DEF TypeOK, Raise, NoWork, PlanType

LEMMA DoneType ==
  ASSUME TypeOK, NEW t \in Txns,
         NEW kind \in {"scans", "queries", "writes", "ddl", "calls"},
         stmt[t][kind] > 0, Done(t, kind)
  PROVE  stmt' \in [Txns -> PlanType]
  <1>1. stmt[t] \in PlanType
    BY DEF TypeOK
  <1>2. [stmt[t] EXCEPT ![kind] = @ - 1] \in PlanType
    <2>1. CASE kind = "scans"
      BY <1>1, <2>1 DEF PlanType
    <2>2. CASE kind = "queries"
      BY <1>1, <2>2 DEF PlanType
    <2>3. CASE kind = "writes"
      BY <1>1, <2>3 DEF PlanType
    <2>4. CASE kind = "ddl"
      BY <1>1, <2>4 DEF PlanType
    <2>5. CASE kind = "calls"
      BY <1>1, <2>5 DEF PlanType
    <2> QED
      BY <2>1, <2>2, <2>3, <2>4, <2>5
  <1>3. stmt' = [stmt EXCEPT ![t] = [stmt[t] EXCEPT ![kind] = @ - 1]]
    BY DEF Done
  <1> QED
    BY <1>2, <1>3 DEF TypeOK

\* A transaction that has begun has a connection.
HasConnection ==
  \A t \in Txns : phase[t] # "absent" \/ pc[t] # "idle" => connection[t] \in Sessions

\* The types of the variables an action groups under one name.
TxnTypes ==
  /\ phase \in [Txns -> {"absent", "alive", "committed", "rolled_back", "failed"}]
  /\ transactions \subseteq Txns
  /\ transactionState \in [Txns -> {"NOT_YET_STARTED", "STARTED", "FINISHED"}]
  /\ connection \in [Txns -> Sessions \cup {NoSession}]

LEMMA FetchInDestructorType ==
  ASSUME TypeOK, NEW t \in Txns, NEW next \in {"cancelling", "draining"},
         FetchInDestructor(t, next)
  PROVE  /\ session' \in [Sessions -> Session(Effects)]
         /\ stream' \in [Txns -> {"none", "open", "exhausted"}]
         /\ left' \in [Txns -> Nat]
         /\ pc' \in [Txns -> {"idle", "running", "closing", "cancelling", "killing", "draining"}]
  <1>1. connection[t] \in Sessions => Reading(Sess(t), FALSE) \in Session(Effects)
    BY SessionTypes DEF TypeOK, Sess
  <1>2. CASE SetSess(t, Reading(Sess(t), FALSE)) /\ FreeResult(t)
    <2>1. session' \in [Sessions -> Session(Effects)]
      BY <1>1, <1>2, SetSessType
    <2> QED
      BY <1>2, <2>1 DEF FreeResult, TypeOK
  <1>3. CASE /\ left[t] > 0
             /\ left' = [left EXCEPT ![t] = @ - 1]
             /\ pc' = [pc EXCEPT ![t] = next]
             /\ UNCHANGED <<stream, session>>
    BY <1>3 DEF TypeOK
  <1> QED
    BY <1>2, <1>3 DEF FetchInDestructor

LEMMA EraseType ==
  ASSUME TypeOK, NEW t \in Txns, Erase(t)
  PROVE  /\ session' \in [Sessions -> Session(Effects)]
         /\ transactions' \subseteq Txns
  <1>1. connection[t] \in Sessions => Closed(Sess(t)) \in Session(Effects)
    BY SessionTypes DEF TypeOK, Sess
  <1> QED
    BY <1>1, SetSessType DEF Erase, TypeOK

LEMMA StartOnServerType ==
  ASSUME TypeOK, NEW t \in Txns, StartOnServer(t)
  PROVE  session' \in [Sessions -> Session(Effects)]
  <1>1. (AccessMode = "READ_ONLY") \in BOOLEAN
    OBVIOUS
  <1>2. connection[t] \in Sessions =>
          Begun(Sess(t), AccessMode = "READ_ONLY") \in Session(Effects)
    BY <1>1, SessionTypes DEF TypeOK, Sess
  <1> QED
    BY <1>2, SetSessType DEF StartOnServer

LEMMA TypeOKStep == TypeOK /\ HasConnection /\ [Next]_vars => TypeOK'
  <1> SUFFICES ASSUME TypeOK, HasConnection, [Next]_vars PROVE TypeOK'
    OBVIOUS
  <1> USE DEF serverVars, txnVars, stmtVars, resultVars, auxVars
  <1>1. ASSUME NEW t \in Txns, StartTransaction(t) PROVE TypeOK'
    <2>1. PICK s \in Sessions :
            \/ session' = [session EXCEPT ![s] = WithTimeZone(Connected, SessionTimeZone)]
            \/ session' = [session EXCEPT ![s] = Closed(Connected)]
      BY <1>1 DEF StartTransaction
    <2>2. session' \in [Sessions -> Session(Effects)]
      BY <2>1, FreshTypes, ConstantsAssumption DEF TypeOK
    <2>3. TxnTypes'
      BY <1>1 DEF StartTransaction, TypeOK, TxnTypes
    <2> QED
      BY <1>1, <2>2, <2>3 DEF StartTransaction, TypeOK, TxnTypes
  <1>2. ASSUME NEW t \in Txns, BeginStatement(t) PROVE TypeOK'
    <2>1. PICK p \in Statements : /\ stmt' = [stmt EXCEPT ![t] = p]
                                  /\ streaming' = [streaming EXCEPT ![t] = AllowStreaming(p)]
      BY <1>2 DEF BeginStatement
    <2>2. p \in PlanType /\ AllowStreaming(p) \in BOOLEAN
      BY ConstantsAssumption DEF AllowStreaming
    <2> QED
      BY <1>2, <2>1, <2>2 DEF BeginStatement, TypeOK
  <1>3. ASSUME NEW t \in Txns, GetConnection(t) PROVE TypeOK'
    <2>1. CASE StartOnServer(t) /\ UNCHANGED stmtVars
      BY <1>3, <2>1, StartOnServerType DEF GetConnection, TypeOK
    <2>2. CASE \E why \in {"server", "out_of_sync"} : SendFails(t, why) /\ Raise(t, why)
      BY <1>3, <2>2, SendFailsType, RaiseType DEF GetConnection, TypeOK
    <2> QED
      BY <1>3, <2>1, <2>2 DEF GetConnection
  <1>4. ASSUME NEW t \in Txns, CommandFails(t) PROVE TypeOK'
    BY <1>4, SendFailsType, RaiseType DEF CommandFails, TypeOK
  <1>5. ASSUME NEW t \in Txns, OpenScan(t) PROVE TypeOK'
    <2>1. stmt' \in [Txns -> PlanType] /\ UNCHANGED <<pc, streaming, failure>>
      BY <1>5, DoneType DEF OpenScan, Done
    <2>2. CASE SetSess(t, Reading(Sess(t), TRUE))
      <3>1. connection[t] \in Sessions => Reading(Sess(t), TRUE) \in Session(Effects)
        BY SessionTypes DEF TypeOK, Sess
      <3>2. session' \in [Sessions -> Session(Effects)]
        BY <2>2, <3>1, SetSessType
      <3>3. stream' \in [Txns -> {"none", "open", "exhausted"}]
        BY <1>5 DEF OpenScan, TypeOK
      <3>4. ASSUME \E n \in 0..MaxRows : left' = [left EXCEPT ![t] = n]
            PROVE  left' \in [Txns -> Nat]
        <4>1. PICK n \in 0..MaxRows : left' = [left EXCEPT ![t] = n]
          BY <3>4
        <4>2. n \in Nat
          BY ConstantsAssumption
        <4> QED
          BY <4>1, <4>2 DEF TypeOK
      <3>5. left' \in [Txns -> Nat]
        BY <1>5, <3>4 DEF OpenScan, TypeOK
      <3> QED
        BY <1>5, <2>1, <3>2, <3>3, <3>5 DEF OpenScan, TypeOK
    <2>3. CASE UNCHANGED <<left, stream, session>>
      BY <1>5, <2>1, <2>3 DEF OpenScan, TypeOK
    <2> QED
      BY <1>5, <2>2, <2>3 DEF OpenScan
  <1>6. ASSUME NEW t \in Txns, Fetch(t) PROVE TypeOK'
    <2>1. CASE left[t] > 0 /\ left' = [left EXCEPT ![t] = @ - 1] /\ UNCHANGED <<stream, session>>
      BY <1>6, <2>1 DEF Fetch, TypeOK
    <2>2. CASE /\ stream' = [stream EXCEPT ![t] = "exhausted"]
               /\ SetSess(t, Reading(Sess(t), FALSE))
               /\ UNCHANGED left
      <3>1. connection[t] \in Sessions => Reading(Sess(t), FALSE) \in Session(Effects)
        BY SessionTypes DEF TypeOK, Sess
      <3>2. session' \in [Sessions -> Session(Effects)]
        BY <2>2, <3>1, SetSessType
      <3> QED
        BY <1>6, <2>2, <3>2 DEF Fetch, TypeOK
    <2> QED
      BY <1>6, <2>1, <2>2 DEF Fetch
  <1>7. ASSUME NEW t \in Txns, NEW kind \in {"writes", "calls"}, Write(t, kind)
        PROVE  TypeOK'
    <2>1. stmt' \in [Txns -> PlanType] /\ UNCHANGED <<pc, streaming, failure>>
      BY <1>7, DoneType DEF Write, Done
    <2>2. PICK w \in Writes : /\ Perform(t, w)
                              /\ issued' = [issued EXCEPT ![t] = @ \cup {w}]
      BY <1>7 DEF Write
    <2>3. session' \in [Sessions -> Session(Effects)] /\ database' \subseteq Effects
      BY <2>2, PerformType
    <2>4. issued' \in [Txns -> SUBSET Writes]
      BY <2>2 DEF TypeOK
    <2> QED
      BY <1>7, <2>1, <2>3, <2>4 DEF Write, TypeOK
  <1>8. ASSUME NEW t \in Txns, Query(t) PROVE TypeOK'
    <2>1. CASE Done(t, "queries") /\ UNCHANGED <<serverVars, issued>>
      BY <1>8, <2>1, DoneType DEF Query, Done, TypeOK
    <2>2. CASE UNCHANGED <<serverVars, issued>> /\ Raise(t, "server")
      BY <1>8, <2>2, RaiseType DEF Query, TypeOK
    <2>3. CASE /\ \E w \in Writes :
                     Perform(t, w) /\ issued' = [issued EXCEPT ![t] = @ \cup {w}]
               /\ Raise(t, "duckdb")
      <3>1. /\ session' \in [Sessions -> Session(Effects)]
            /\ database' \subseteq Effects
            /\ issued' \in [Txns -> SUBSET Writes]
        BY <2>3, PerformType DEF TypeOK
      <3> QED
        BY <1>8, <2>3, <3>1, RaiseType DEF Query, TypeOK
    <2> QED
      BY <1>8, <2>1, <2>2, <2>3 DEF Query
  <1>9. ASSUME NEW t \in Txns, NEW kind \in {"ddl", "calls"}, Ddl(t, kind)
        PROVE  TypeOK'
    <2>1. connection[t] \in Sessions => Sess(t) \in Session(Effects) /\ Ended(Sess(t)) \in Session(Effects)
      BY SessionTypes DEF TypeOK, Sess
    <2>2. session' \in [Sessions -> Session(Effects)]
      BY <1>9, <2>1, SetSessType DEF Ddl
    <2>3. database' \subseteq Effects
      <3>1. Sess(t) \in Session(Effects)
        BY <1>9, <2>1 DEF HasConnection, Ddl, Started
      <3>2. Sess(t).work \subseteq Effects
        BY <3>1 DEF Session
      <3> QED
        BY <1>9, <3>2 DEF Ddl, TypeOK
    <2>4. CASE Done(t, kind)
      BY <1>9, <2>2, <2>3, <2>4, DoneType DEF Ddl, Done, TypeOK
    <2>5. CASE Raise(t, "server")
      BY <1>9, <2>2, <2>3, <2>5, RaiseType DEF Ddl, TypeOK
    <2> QED
      BY <1>9, <2>4, <2>5 DEF Ddl
  <1>10. ASSUME NEW t \in Txns, StatementError(t) PROVE TypeOK'
    BY <1>10, RaiseType DEF StatementError, TypeOK
  <1>11. ASSUME NEW t \in Txns, FinishStatement(t) PROVE TypeOK'
    BY <1>11 DEF FinishStatement, TypeOK
  <1>12. ASSUME NEW t \in Txns, CloseResult(t) PROVE TypeOK'
    BY <1>12, FetchInDestructorType DEF CloseResult, TypeOK
  <1>13. ASSUME NEW t \in Txns, OpenHelper(t) PROVE TypeOK'
    <2>1. CASE \E s \in Sessions :
                 /\ session' = [session EXCEPT ![s] = Connected]
                 /\ helper' = [helper EXCEPT ![t] = s]
                 /\ pc' = [pc EXCEPT ![t] = "killing"]
      BY <1>13, <2>1, FreshTypes DEF OpenHelper, TypeOK
    <2>2. CASE pc' = [pc EXCEPT ![t] = "draining"] /\ UNCHANGED <<session, helper>>
      BY <1>13, <2>2 DEF OpenHelper, TypeOK
    <2> QED
      BY <1>13, <2>1, <2>2 DEF OpenHelper
  <1>14. ASSUME NEW t \in Txns, KillAndSwap(t) PROVE TypeOK'
    <2>1. CASE /\ SetSess(t, Reading(Closed(Sess(t)), FALSE))
               /\ connection' = [connection EXCEPT ![t] = helper[t]]
               /\ detached' = [detached EXCEPT ![t] = TRUE]
               /\ FreeResult(t)
      <3>1. connection[t] \in Sessions => Reading(Closed(Sess(t)), FALSE) \in Session(Effects)
        BY SessionTypes DEF TypeOK, Sess
      <3>2. session' \in [Sessions -> Session(Effects)]
        BY <2>1, <3>1, SetSessType
      <3> QED
        BY <1>14, <2>1, <3>2 DEF KillAndSwap, FreeResult, TypeOK
    <2>2. CASE /\ session' = [session EXCEPT ![helper[t]] = Closed(@)]
               /\ pc' = [pc EXCEPT ![t] = "draining"]
               /\ UNCHANGED <<connection, detached, stream, left>>
      <3>1. helper[t] \in Sessions => Closed(session[helper[t]]) \in Session(Effects)
        BY SessionTypes DEF TypeOK
      <3>2. session' \in [Sessions -> Session(Effects)]
        BY <2>2, <3>1, ConstantsAssumption DEF TypeOK
      <3> QED
        BY <1>14, <2>2, <3>2 DEF KillAndSwap, TypeOK
    <2> QED
      BY <1>14, <2>1, <2>2 DEF KillAndSwap
  <1>15. ASSUME NEW t \in Txns, Drain(t) PROVE TypeOK'
    BY <1>15, FetchInDestructorType DEF Drain, TypeOK
  <1>16. ASSUME NEW t \in Txns, CommitTransaction(t) PROVE TypeOK'
    <2>1. phase' \in [Txns -> {"absent", "alive", "committed", "rolled_back", "failed"}]
      BY <1>16 DEF CommitTransaction, Finish, TypeOK
    <2>2. transactionState' \in [Txns -> {"NOT_YET_STARTED", "STARTED", "FINISHED"}]
      BY <1>16 DEF CommitTransaction, Finish, TypeOK
    <2>3. database' \subseteq Effects
      <3>1. CASE UNCHANGED database
        BY <3>1 DEF TypeOK
      <3>2. CASE Sends(t) /\ database' = database \cup Sess(t).work
        <4>1. Sess(t) \in Session(Effects)
          BY <1>16 DEF HasConnection, CommitTransaction, Finish, Usable, Alive, TypeOK, Sess
        <4>2. Sess(t).work \subseteq Effects
          BY <4>1 DEF Session
        <4> QED
          BY <3>2, <4>2 DEF TypeOK
      <3> QED
        BY <1>16, <3>1, <3>2 DEF CommitTransaction, Finish
    <2>4. session' \in [Sessions -> Session(Effects)] /\ transactions' \subseteq Txns
      <3>1. CASE Erase(t)
        BY <3>1, EraseType
      <3>2. CASE SetSess(t, Closed(Sess(t))) /\ UNCHANGED transactions
        <4>1. connection[t] \in Sessions => Closed(Sess(t)) \in Session(Effects)
          BY SessionTypes DEF TypeOK, Sess
        <4> QED
          BY <3>2, <4>1, SetSessType DEF TypeOK
      <3>3. CASE (\E why \in {"server", "out_of_sync"} : SendFails(t, why)) /\ UNCHANGED transactions
        BY <3>3, SendFailsType DEF TypeOK
      <3> QED
        BY <1>16, <3>1, <3>2, <3>3 DEF CommitTransaction, Finish
    <2> QED
      BY <1>16, <2>1, <2>2, <2>3, <2>4 DEF CommitTransaction, Finish, TypeOK
  <1>17. ASSUME NEW t \in Txns, RollbackTransaction(t) PROVE TypeOK'
    BY <1>17, EraseType DEF RollbackTransaction, Finish, TypeOK
  <1>18. ASSUME NEW t \in Txns, Checkpoint(t) PROVE TypeOK'
    <2>1. session' \in [Sessions -> Session(Effects)]
      BY <1>18, StartOnServerType DEF Checkpoint, TypeOK
    <2> QED
      BY <1>18, <2>1, RaiseType DEF Checkpoint, TypeOK
  <1>19. ASSUME NEW s \in Sessions, Lose(s) PROVE TypeOK'
    <2>1. Closed(session[s]) \in Session(Effects)
      BY SessionTypes DEF TypeOK
    <2> QED
      BY <1>19, <2>1 DEF Lose, TypeOK
  <1>20. CASE UNCHANGED vars
    BY <1>20 DEF vars, TypeOK
  <1> QED
    BY <1>1, <1>2, <1>3, <1>4, <1>5, <1>6, <1>7, <1>8, <1>9, <1>10, <1>11, <1>12,
       <1>13, <1>14, <1>15, <1>16, <1>17, <1>18, <1>19, <1>20
       DEF Next, Client, Execution, Destructor

\* Only a killing thread takes its connection from the helper.
HelperOpened == \A t \in Txns : pc[t] = "killing" => helper[t] \in Sessions

\* A step of a running statement leaves the transaction and the helpers
\* alone, and either goes on, ends the statement or turns to its result.
ExecutionFrame(t) ==
  /\ pc[t] = "running"
  /\ UNCHANGED <<phase, transactions, connection, helper>>
  /\ \/ pc' = pc
     \/ pc' = [pc EXCEPT ![t] = "idle"]
     \/ pc' = [pc EXCEPT ![t] = "closing"]

LEMMA ExecutionFrames ==
  ASSUME NEW t \in Txns, Execution(t)
  PROVE  ExecutionFrame(t)
  <1> USE DEF serverVars, txnVars, stmtVars, resultVars, auxVars, ExecutionFrame,
              Raise, Done, Started
  <1>1. CASE GetConnection(t)
    BY <1>1 DEF GetConnection
  <1>2. CASE CommandFails(t)
    BY <1>2 DEF CommandFails
  <1>3. CASE OpenScan(t)
    BY <1>3 DEF OpenScan
  <1>4. CASE Fetch(t)
    BY <1>4 DEF Fetch
  <1>5. CASE Write(t, "writes") \/ Write(t, "calls")
    BY <1>5 DEF Write
  <1>6. CASE Query(t)
    BY <1>6 DEF Query
  <1>7. CASE Ddl(t, "ddl") \/ Ddl(t, "calls")
    BY <1>7 DEF Ddl
  <1>8. CASE StatementError(t)
    BY <1>8 DEF StatementError
  <1>9. CASE FinishStatement(t)
    BY <1>9 DEF FinishStatement
  <1> QED
    BY <1>1, <1>2, <1>3, <1>4, <1>5, <1>6, <1>7, <1>8, <1>9 DEF Execution

LEMMA HasConnectionStep ==
  TypeOK /\ HasConnection /\ HelperOpened /\ [Next]_vars => HasConnection' /\ HelperOpened'
  <1> SUFFICES ASSUME TypeOK, HasConnection, HelperOpened, [Next]_vars
               PROVE  HasConnection' /\ HelperOpened'
    OBVIOUS
  <1> USE DEF serverVars, txnVars, stmtVars, resultVars, auxVars, TypeOK,
              HasConnection, HelperOpened
  <1>1. ASSUME NEW t \in Txns, StartTransaction(t) PROVE HasConnection' /\ HelperOpened'
    BY <1>1 DEF StartTransaction
  <1>2. ASSUME NEW t \in Txns, BeginStatement(t) PROVE HasConnection' /\ HelperOpened'
    BY <1>2 DEF BeginStatement, Usable, Alive
  <1>3. ASSUME NEW t \in Txns, Execution(t) PROVE HasConnection' /\ HelperOpened'
    BY <1>3, ExecutionFrames DEF ExecutionFrame
  <1>4. ASSUME NEW t \in Txns, CloseResult(t) PROVE HasConnection' /\ HelperOpened'
    BY <1>4 DEF CloseResult, FetchInDestructor, FreeResult
  <1>5. ASSUME NEW t \in Txns, OpenHelper(t) PROVE HasConnection' /\ HelperOpened'
    BY <1>5 DEF OpenHelper
  <1>6. ASSUME NEW t \in Txns, KillAndSwap(t) PROVE HasConnection' /\ HelperOpened'
    BY <1>6 DEF KillAndSwap, FreeResult
  <1>7. ASSUME NEW t \in Txns, Drain(t) PROVE HasConnection' /\ HelperOpened'
    BY <1>7 DEF Drain, FetchInDestructor, FreeResult
  <1>8. ASSUME NEW t \in Txns, CommitTransaction(t) PROVE HasConnection' /\ HelperOpened'
    BY <1>8 DEF CommitTransaction, Finish, Usable, Alive
  <1>9. ASSUME NEW t \in Txns, RollbackTransaction(t) PROVE HasConnection' /\ HelperOpened'
    BY <1>9 DEF RollbackTransaction, Finish, Alive
  <1>10. ASSUME NEW t \in Txns, Checkpoint(t) PROVE HasConnection' /\ HelperOpened'
    BY <1>10 DEF Checkpoint, Usable, Alive, Raise
  <1>11. ASSUME NEW s \in Sessions, Lose(s) PROVE HasConnection' /\ HelperOpened'
    BY <1>11 DEF Lose
  <1>12. CASE UNCHANGED vars
    BY <1>12 DEF vars
  <1> QED
    BY <1>1, <1>2, <1>3, <1>4, <1>5, <1>6, <1>7, <1>8, <1>9, <1>10, <1>11, <1>12
       DEF Next, Client, Destructor

(***************************************************************************)
(* Every variable keeps its type: in particular the rows left of a result  *)
(* and the commands left of a statement are never counted below zero.      *)
(***************************************************************************)
THEOREM TypeCorrect == Spec => []TypeOK
  <1>1. Init => TypeOK /\ HasConnection /\ HelperOpened
    BY InitTypeOK DEF Init, HasConnection, HelperOpened
  <1>2. TypeOK /\ HasConnection /\ HelperOpened /\ [Next]_vars
          => TypeOK' /\ HasConnection' /\ HelperOpened'
    BY TypeOKStep, HasConnectionStep
  <1> QED
    BY <1>1, <1>2, PTL DEF Spec
-----------------------------------------------------------------------------
(***************************************************************************)
(* Who holds which session.  A session id is taken from the unused ones    *)
(* and never becomes unused again, so no two holders ever share one.       *)
(***************************************************************************)
Taken(s) == s \in Sessions => session[s].status # "unused"

Ownership ==
  /\ \A t \in Txns : Taken(connection[t]) /\ Taken(helper[t])
  /\ \A t, u \in Txns : t # u /\ connection[t] = connection[u] => connection[t] = NoSession
  /\ \A t, u \in Txns : helper[t] = connection[u] => helper[t] = NoSession
  /\ \A t, u \in Txns : t # u /\ helper[t] = helper[u] => helper[t] = NoSession
  /\ \A t \in Txns : helper[t] # NoSession => pc[t] = "killing"
  /\ \A t \in Txns : phase[t] = "absent" => connection[t] = NoSession

\* Where a transaction is in its life.
Life ==
  /\ \A t \in Txns : t \in transactions <=> phase[t] \in {"alive", "failed"}
  /\ \A t \in Txns : pc[t] # "idle" => phase[t] = "alive"
  /\ \A t \in Txns : pc[t] = "running" => failure[t] = "none"
  /\ \A t \in Txns : phase[t] = "absent" => transactionState[t] = "NOT_YET_STARTED"
  /\ \A t \in Txns : phase[t] = "alive" => transactionState[t] # "FINISHED"

Base == TypeOK /\ HasConnection /\ HelperOpened

LEMMA BaseStep == Base /\ [Next]_vars => Base'
  BY TypeOKStep, HasConnectionStep DEF Base

\* No operator on an open session makes it unused.
LEMMA StatusKept ==
  ASSUME NEW s \in Session(Effects)
  PROVE  /\ Ended(s).status = s.status
         /\ Closed(s).status = "closed"
         /\ \A b : /\ Begun(s, b).status = s.status
                  /\ Reading(s, b).status = s.status
                  /\ Reading(Closed(s), b).status = "closed"
         /\ \A e : Wrote(s, e).status = s.status
  BY DEF Session, Ended, Closed, Begun, Reading, Wrote

\* No step gives a session back to the unused ones.
SessionsStayTaken ==
  \A s \in Sessions : session[s].status # "unused" => session'[s].status # "unused"

LEMMA SetSessTaken ==
  ASSUME TypeOK, NEW t \in Txns, NEW x, SetSess(t, x),
         connection[t] \in Sessions /\ Sess(t).status # "unused" => x.status # "unused"
  PROVE  SessionsStayTaken
  BY DEF TypeOK, SetSess, Sess, SessionsStayTaken

LEMMA TakenStep ==
  Base /\ [Next]_vars => SessionsStayTaken
  <1> SUFFICES ASSUME Base, [Next]_vars PROVE SessionsStayTaken
    OBVIOUS
  <1> USE DEF serverVars, txnVars, stmtVars, resultVars, auxVars, Base
  <1>0. ASSUME UNCHANGED session PROVE SessionsStayTaken
    BY <1>0 DEF SessionsStayTaken
  <1>a. ASSUME NEW t \in Txns, connection[t] \in Sessions
        PROVE  /\ Sess(t) \in Session(Effects)
               /\ SetSess(t, Ended(Sess(t))) => SessionsStayTaken
               /\ SetSess(t, Closed(Sess(t))) => SessionsStayTaken
               /\ SetSess(t, Reading(Sess(t), FALSE)) => SessionsStayTaken
               /\ SetSess(t, Reading(Sess(t), TRUE)) => SessionsStayTaken
               /\ SetSess(t, Reading(Closed(Sess(t)), FALSE)) => SessionsStayTaken
               /\ SetSess(t, Begun(Sess(t), AccessMode = "READ_ONLY")) => SessionsStayTaken
               /\ \A e : SetSess(t, Wrote(Sess(t), e)) => SessionsStayTaken
    <2>1. Sess(t) \in Session(Effects)
      BY <1>a DEF TypeOK, Sess
    <2>2. ASSUME NEW x, SetSess(t, x), x.status = Sess(t).status \/ x.status = "closed"
          PROVE  SessionsStayTaken
      BY <1>a, <2>2, SetSessTaken
    <2>3. SetSess(t, Ended(Sess(t))) => SessionsStayTaken
      BY <2>1, <2>2, StatusKept
    <2>4. SetSess(t, Closed(Sess(t))) => SessionsStayTaken
      BY <2>1, <2>2, StatusKept
    <2>5. /\ SetSess(t, Reading(Sess(t), FALSE)) => SessionsStayTaken
          /\ SetSess(t, Reading(Sess(t), TRUE)) => SessionsStayTaken
      BY <2>1, <2>2, StatusKept
    <2>6. SetSess(t, Reading(Closed(Sess(t)), FALSE)) => SessionsStayTaken
      BY <2>1, <2>2, StatusKept
    <2>7. SetSess(t, Begun(Sess(t), AccessMode = "READ_ONLY")) => SessionsStayTaken
      BY <2>1, <2>2, StatusKept
    <2>8. ASSUME NEW e, SetSess(t, Wrote(Sess(t), e)) PROVE SessionsStayTaken
      BY <2>1, <2>2, <2>8, StatusKept
    <2> QED
      BY <2>1, <2>3, <2>4, <2>5, <2>6, <2>7, <2>8
  <1>b. ASSUME NEW t \in Txns, connection[t] \in Sessions, NEW why, SendFails(t, why)
        PROVE  SessionsStayTaken
    BY <1>0, <1>a, <1>b DEF SendFails
  <1>c. ASSUME NEW t \in Txns, connection[t] \in Sessions, NEW w, Perform(t, w)
        PROVE  SessionsStayTaken
    BY <1>0, <1>a, <1>c DEF Perform
  <1>1. ASSUME NEW t \in Txns, StartTransaction(t) PROVE SessionsStayTaken
    BY <1>1 DEF StartTransaction, SessionsStayTaken, TypeOK
  <1>2. ASSUME NEW t \in Txns, BeginStatement(t) PROVE SessionsStayTaken
    BY <1>2, <1>0 DEF BeginStatement
  <1>3. ASSUME NEW t \in Txns, Execution(t) PROVE SessionsStayTaken
    <2>1. connection[t] \in Sessions
      BY <1>3, ExecutionFrames DEF ExecutionFrame, HasConnection
    <2>2. CASE GetConnection(t)
      BY <1>a, <1>b, <2>1, <2>2 DEF GetConnection, StartOnServer
    <2>3. CASE CommandFails(t)
      BY <1>b, <2>1, <2>3 DEF CommandFails
    <2>4. CASE OpenScan(t)
      BY <1>0, <1>a, <2>1, <2>4 DEF OpenScan
    <2>5. CASE Fetch(t)
      BY <1>0, <1>a, <2>1, <2>5 DEF Fetch
    <2>6. CASE Write(t, "writes") \/ Write(t, "calls")
      BY <1>c, <2>1, <2>6 DEF Write
    <2>7. CASE Query(t)
      BY <1>0, <1>c, <2>1, <2>7 DEF Query
    <2>8. CASE Ddl(t, "ddl") \/ Ddl(t, "calls")
      BY <1>a, <2>1, <2>8 DEF Ddl
    <2>9. CASE StatementError(t)
      BY <1>0, <2>9 DEF StatementError
    <2>10. CASE FinishStatement(t)
      BY <1>0, <2>10 DEF FinishStatement
    <2> QED
      BY <1>3, <2>2, <2>3, <2>4, <2>5, <2>6, <2>7, <2>8, <2>9, <2>10 DEF Execution
  <1>4. ASSUME NEW t \in Txns, CloseResult(t) PROVE SessionsStayTaken
    BY <1>0, <1>a, <1>4 DEF CloseResult, FetchInDestructor, HasConnection
  <1>5. ASSUME NEW t \in Txns, OpenHelper(t) PROVE SessionsStayTaken
    BY <1>0, <1>5 DEF OpenHelper, SessionsStayTaken, TypeOK
  <1>6. ASSUME NEW t \in Txns, KillAndSwap(t) PROVE SessionsStayTaken
    <2>1. connection[t] \in Sessions /\ helper[t] \in Sessions
      BY <1>6 DEF KillAndSwap, HasConnection, HelperOpened
    <2>2. CASE SetSess(t, Reading(Closed(Sess(t)), FALSE))
      BY <1>a, <2>1, <2>2
    <2>3. CASE session' = [session EXCEPT ![helper[t]] = Closed(@)]
      <3>1. Closed(session[helper[t]]).status = "closed"
        BY <2>1, StatusKept DEF TypeOK
      <3> QED
        BY <2>1, <2>3, <3>1 DEF SessionsStayTaken, TypeOK
    <2> QED
      BY <1>6, <2>2, <2>3 DEF KillAndSwap
  <1>7. ASSUME NEW t \in Txns, Drain(t) PROVE SessionsStayTaken
    BY <1>0, <1>a, <1>7 DEF Drain, FetchInDestructor, HasConnection
  <1>8. ASSUME NEW t \in Txns, CommitTransaction(t) PROVE SessionsStayTaken
    BY <1>a, <1>b, <1>8 DEF CommitTransaction, Finish, Usable, Alive, HasConnection, Erase
  <1>9. ASSUME NEW t \in Txns, RollbackTransaction(t) PROVE SessionsStayTaken
    BY <1>a, <1>9 DEF RollbackTransaction, Finish, Alive, HasConnection, Erase
  <1>10. ASSUME NEW t \in Txns, Checkpoint(t) PROVE SessionsStayTaken
    BY <1>0, <1>a, <1>10 DEF Checkpoint, Usable, Alive, HasConnection, StartOnServer
  <1>11. ASSUME NEW s \in Sessions, Lose(s) PROVE SessionsStayTaken
    <2>1. Closed(session[s]).status = "closed"
      BY StatusKept DEF TypeOK
    <2> QED
      BY <1>11, <2>1 DEF Lose, SessionsStayTaken, TypeOK
  <1>12. CASE UNCHANGED vars
    BY <1>0, <1>12 DEF vars
  <1> QED
    BY <1>1, <1>2, <1>3, <1>4, <1>5, <1>6, <1>7, <1>8, <1>9, <1>10, <1>11, <1>12
       DEF Next, Client, Destructor

\* Steps that move no session around keep the owners.
LEMMA OwnershipFrame ==
  ASSUME Base, Ownership, SessionsStayTaken, UNCHANGED <<connection, helper>>,
         \A t \in Txns : phase'[t] = "absent" => phase[t] = "absent",
         \A t \in Txns : pc[t] = "killing" => pc'[t] = "killing"
  PROVE  Ownership'
  BY DEF Ownership, Taken, SessionsStayTaken

LEMMA OwnershipStep == Base /\ Ownership /\ [Next]_vars => Ownership'
  <1> SUFFICES ASSUME Base, Ownership, [Next]_vars PROVE Ownership'
    OBVIOUS
  <1> USE DEF serverVars, txnVars, stmtVars, resultVars, auxVars
  <1>0. SessionsStayTaken /\ TypeOK
    BY TakenStep DEF Base
  <1>1. ASSUME NEW t \in Txns, StartTransaction(t) PROVE Ownership'
    <2>1. CASE UNCHANGED txnVars
      BY <1>0, <1>1, <2>1, OwnershipFrame DEF StartTransaction
    <2>2. CASE \E s \in Sessions :
                 /\ session[s].status = "unused"
                 /\ session' = [session EXCEPT ![s] = WithTimeZone(Connected, SessionTimeZone)]
                 /\ connection' = [connection EXCEPT ![t] = s]
                 /\ phase' = [phase EXCEPT ![t] = "alive"]
      <3>1. PICK s \in Sessions :
              /\ session[s].status = "unused"
              /\ session' = [session EXCEPT ![s] = WithTimeZone(Connected, SessionTimeZone)]
              /\ connection' = [connection EXCEPT ![t] = s]
              /\ phase' = [phase EXCEPT ![t] = "alive"]
        BY <2>2
      <3>2. \A u \in Txns : connection[u] # s /\ helper[u] # s
        BY <3>1 DEF Ownership, Taken
      <3>3. WithTimeZone(Connected, SessionTimeZone).status # "unused"
        BY DEF WithTimeZone, Connected, NotConnected
      <3>4. session'[s].status # "unused"
        BY <1>0, <3>1, <3>3 DEF TypeOK
      <3>5. UNCHANGED <<helper, pc>>
        BY <1>1 DEF StartTransaction
      <3> QED
        BY <1>0, <3>1, <3>2, <3>4, <3>5, ConstantsAssumption
           DEF Ownership, Taken, SessionsStayTaken, TypeOK
    <2> QED
      BY <1>1, <2>1, <2>2 DEF StartTransaction
  <1>2. ASSUME NEW t \in Txns, BeginStatement(t) PROVE Ownership'
    BY <1>0, <1>2, OwnershipFrame DEF BeginStatement, Usable, Alive, TypeOK
  <1>3. ASSUME NEW t \in Txns, Execution(t) PROVE Ownership'
    BY <1>0, <1>3, ExecutionFrames, OwnershipFrame DEF ExecutionFrame, TypeOK
  <1>4. ASSUME NEW t \in Txns, CloseResult(t) PROVE Ownership'
    BY <1>0, <1>4, OwnershipFrame DEF CloseResult, FetchInDestructor, FreeResult, TypeOK
  <1>5. ASSUME NEW t \in Txns, OpenHelper(t) PROVE Ownership'
    <2>1. CASE UNCHANGED <<session, helper>>
      BY <1>0, <1>5, <2>1, OwnershipFrame DEF OpenHelper, TypeOK
    <2>2. CASE \E s \in Sessions :
                 /\ session[s].status = "unused"
                 /\ session' = [session EXCEPT ![s] = Connected]
                 /\ helper' = [helper EXCEPT ![t] = s]
                 /\ pc' = [pc EXCEPT ![t] = "killing"]
      <3>1. PICK s \in Sessions :
              /\ session[s].status = "unused"
              /\ session' = [session EXCEPT ![s] = Connected]
              /\ helper' = [helper EXCEPT ![t] = s]
              /\ pc' = [pc EXCEPT ![t] = "killing"]
        BY <2>2
      <3>2. \A u \in Txns : connection[u] # s /\ helper[u] # s
        BY <3>1 DEF Ownership, Taken
      <3>3. session'[s].status # "unused"
        BY <1>0, <3>1 DEF TypeOK, Connected, NotConnected
      <3>4. UNCHANGED <<connection, phase>>
        BY <1>5 DEF OpenHelper
      <3> QED
        BY <1>0, <3>1, <3>2, <3>3, <3>4, ConstantsAssumption
           DEF Ownership, Taken, SessionsStayTaken, TypeOK
    <2> QED
      BY <1>5, <2>1, <2>2 DEF OpenHelper
  <1>6. ASSUME NEW t \in Txns, KillAndSwap(t) PROVE Ownership'
    <2>1. helper' = [helper EXCEPT ![t] = NoSession]
      BY <1>6 DEF KillAndSwap
    <2>2. \/ connection' = connection
          \/ connection' = [connection EXCEPT ![t] = helper[t]]
      BY <1>6 DEF KillAndSwap
    <2>3. UNCHANGED phase
      BY <1>6 DEF KillAndSwap
    <2>4. \A u \in Txns \ {t} : pc'[u] = pc[u]
      BY <1>0, <1>6 DEF KillAndSwap, FreeResult, TypeOK
    <2>5. phase[t] # "absent"
      <3>1. connection[t] \in Sessions
        BY <1>6 DEF KillAndSwap, Base, HasConnection
      <3>2. phase[t] = "absent" => connection[t] = NoSession
        BY DEF Ownership
      <3> QED
        BY <3>1, <3>2, ConstantsAssumption
    <2> QED
      BY <1>0, <2>1, <2>2, <2>3, <2>4, <2>5, ConstantsAssumption
         DEF Ownership, Taken, SessionsStayTaken, TypeOK
  <1>7. ASSUME NEW t \in Txns, Drain(t) PROVE Ownership'
    BY <1>0, <1>7, OwnershipFrame DEF Drain, FetchInDestructor, FreeResult, TypeOK
  <1>8. ASSUME NEW t \in Txns, CommitTransaction(t) PROVE Ownership'
    BY <1>0, <1>8, OwnershipFrame DEF CommitTransaction, Finish, TypeOK
  <1>9. ASSUME NEW t \in Txns, RollbackTransaction(t) PROVE Ownership'
    BY <1>0, <1>9, OwnershipFrame DEF RollbackTransaction, Finish, TypeOK
  <1>10. ASSUME NEW t \in Txns, Checkpoint(t) PROVE Ownership'
    BY <1>0, <1>10, OwnershipFrame DEF Checkpoint, Usable, Raise, TypeOK
  <1>11. ASSUME NEW s \in Sessions, Lose(s) PROVE Ownership'
    BY <1>0, <1>11, OwnershipFrame DEF Lose
  <1>12. CASE UNCHANGED vars
    BY <1>0, <1>12, OwnershipFrame DEF vars
  <1> QED
    BY <1>1, <1>2, <1>3, <1>4, <1>5, <1>6, <1>7, <1>8, <1>9, <1>10, <1>11, <1>12
       DEF Next, Client, Destructor

\* A step of a running statement starts the transaction at most, and an
\* exception takes the thread away from the statement.
ExecutionLife(t) ==
  /\ \/ transactionState' = transactionState
     \/ transactionState' = [transactionState EXCEPT ![t] = "STARTED"]
  /\ \/ failure' = failure
     \/ pc'[t] # "running" /\ \A u \in Txns \ {t} : failure'[u] = failure[u]

LEMMA ExecutionLives ==
  ASSUME TypeOK, NEW t \in Txns, Execution(t)
  PROVE  ExecutionLife(t)
  <1> USE DEF serverVars, txnVars, stmtVars, resultVars, auxVars, ExecutionLife,
              Done, Started
  <1>0. ASSUME NEW why, Raise(t, why)
        PROVE  pc'[t] # "running" /\ \A u \in Txns \ {t} : failure'[u] = failure[u]
    BY <1>0 DEF Raise, TypeOK
  <1>1. CASE GetConnection(t)
    BY <1>0, <1>1 DEF GetConnection
  <1>2. CASE CommandFails(t)
    BY <1>0, <1>2 DEF CommandFails
  <1>3. CASE OpenScan(t)
    BY <1>3 DEF OpenScan
  <1>4. CASE Fetch(t)
    BY <1>4 DEF Fetch
  <1>5. CASE Write(t, "writes") \/ Write(t, "calls")
    BY <1>5 DEF Write
  <1>6. CASE Query(t)
    BY <1>0, <1>6 DEF Query
  <1>7. CASE Ddl(t, "ddl") \/ Ddl(t, "calls")
    BY <1>0, <1>7 DEF Ddl
  <1>8. CASE StatementError(t)
    BY <1>0, <1>8 DEF StatementError
  <1>9. CASE FinishStatement(t)
    BY <1>9 DEF FinishStatement
  <1> QED
    BY <1>1, <1>2, <1>3, <1>4, <1>5, <1>6, <1>7, <1>8, <1>9 DEF Execution

\* The destructor moves the thread and nothing else of a transaction's life.
LEMMA LifeInDestructor ==
  ASSUME Life, NEW t \in Txns, UNCHANGED <<phase, transactions, transactionState, failure>>,
         pc[t] # "idle", pc'[t] # "running", \A u \in Txns \ {t} : pc'[u] = pc[u]
  PROVE  Life'
  BY DEF Life

LEMMA LifeStep == Base /\ Ownership /\ Life /\ [Next]_vars => Life'
  <1> SUFFICES ASSUME Base, Ownership, Life, [Next]_vars PROVE Life'
    OBVIOUS
  <1> USE DEF serverVars, txnVars, stmtVars, resultVars, auxVars
  <1>0. TypeOK
    BY DEF Base
  <1>1. ASSUME NEW t \in Txns, StartTransaction(t) PROVE Life'
    BY <1>0, <1>1 DEF StartTransaction, Life, TypeOK
  <1>2. ASSUME NEW t \in Txns, BeginStatement(t) PROVE Life'
    BY <1>0, <1>2 DEF BeginStatement, Usable, Alive, Life, TypeOK
  <1>3. ASSUME NEW t \in Txns, Execution(t) PROVE Life'
    <2>1. ExecutionFrame(t) /\ ExecutionLife(t)
      BY <1>0, <1>3, ExecutionFrames, ExecutionLives
    <2> QED
      BY <1>0, <2>1 DEF ExecutionFrame, ExecutionLife, Life, TypeOK
  <1>4. ASSUME NEW t \in Txns, CloseResult(t) PROVE Life'
    <2>1. pc[t] # "idle" /\ pc'[t] # "running" /\ \A u \in Txns \ {t} : pc'[u] = pc[u]
      BY <1>0, <1>4 DEF CloseResult, FetchInDestructor, FreeResult, TypeOK
    <2>2. UNCHANGED <<phase, transactions, transactionState, failure>>
      BY <1>4 DEF CloseResult
    <2> QED
      BY <2>1, <2>2, LifeInDestructor
  <1>5. ASSUME NEW t \in Txns, OpenHelper(t) PROVE Life'
    BY <1>0, <1>5 DEF OpenHelper, Life, TypeOK
  <1>6. ASSUME NEW t \in Txns, KillAndSwap(t) PROVE Life'
    <2>1. pc[t] # "idle" /\ pc'[t] # "running" /\ \A u \in Txns \ {t} : pc'[u] = pc[u]
      BY <1>0, <1>6 DEF KillAndSwap, FreeResult, TypeOK
    <2>2. UNCHANGED <<phase, transactions, transactionState, failure>>
      BY <1>6 DEF KillAndSwap
    <2> QED
      BY <2>1, <2>2, LifeInDestructor
  <1>7. ASSUME NEW t \in Txns, Drain(t) PROVE Life'
    <2>1. pc[t] # "idle" /\ pc'[t] # "running" /\ \A u \in Txns \ {t} : pc'[u] = pc[u]
      BY <1>0, <1>7 DEF Drain, FetchInDestructor, FreeResult, TypeOK
    <2>2. UNCHANGED <<phase, transactions, transactionState, failure>>
      BY <1>7 DEF Drain
    <2> QED
      BY <2>1, <2>2, LifeInDestructor
  <1>8. ASSUME NEW t \in Txns, CommitTransaction(t) PROVE Life'
    BY <1>0, <1>8 DEF CommitTransaction, Finish, Usable, Alive, Erase, Life, TypeOK
  <1>9. ASSUME NEW t \in Txns, RollbackTransaction(t) PROVE Life'
    BY <1>0, <1>9 DEF RollbackTransaction, Finish, Alive, Erase, Life, TypeOK
  <1>10. ASSUME NEW t \in Txns, Checkpoint(t) PROVE Life'
    BY <1>0, <1>10 DEF Checkpoint, Usable, Alive, Raise, Life, TypeOK
  <1>11. ASSUME NEW s \in Sessions, Lose(s) PROVE Life'
    BY <1>11 DEF Lose, Life
  <1>12. CASE UNCHANGED vars
    BY <1>12 DEF vars, Life
  <1> QED
    BY <1>1, <1>2, <1>3, <1>4, <1>5, <1>6, <1>7, <1>8, <1>9, <1>10, <1>11, <1>12
       DEF Next, Client, Destructor
-----------------------------------------------------------------------------
(***************************************************************************)
(* What the session of a transaction holds of its work, and what the       *)
(* database does.  The last conjunct of WorkOf is the heart of it: while   *)
(* the transaction is undisturbed, the server's open transaction holds     *)
(* exactly what DuckDB believes was written.                               *)
(***************************************************************************)
WorkOf(t) ==
  /\ connection[t] \in Sessions => Sess(t).work \subseteq {t} \X Writes
  /\ helper[t] \in Sessions => session[helper[t]].work = {}
  /\ phase[t] \in {"absent", "alive"} /\ transactionState[t] = "NOT_YET_STARTED" =>
       issued[t] = {} /\ (connection[t] \in Sessions => Sess(t).work = {})
  /\ /\ phase[t] = "alive" /\ ~detached[t] /\ failure[t] = "none"
     /\ transactionState[t] = "STARTED" /\ Open(Sess(t))
     => Sess(t).inTxn /\ Sess(t).work = Issued(t)

AtomicOf(t) ==
  ~detached[t] =>
    /\ phase[t] \in {"absent", "alive", "rolled_back"} => Written(t) = {}
    /\ phase[t] = "committed" => Written(t) = Issued(t)
    /\ phase[t] = "failed" => Written(t) \in {{}, Issued(t)}

Keeps(t) == WorkOf(t) /\ AtomicOf(t)

IInv == Base /\ Ownership /\ Life /\ \A t \in Txns : Keeps(t)

LEMMA FieldsKept ==
  ASSUME NEW s \in Session(Effects)
  PROVE  /\ Ended(s).work = {}
         /\ Closed(s).work = {} /\ Closed(s).status = "closed"
         /\ \A b : /\ Begun(s, b).work = s.work /\ Begun(s, b).inTxn
                  /\ Reading(s, b).work = s.work /\ Reading(s, b).inTxn = s.inTxn
                  /\ Reading(s, b).status = s.status
                  /\ Reading(Closed(s), b).work = {}
                  /\ Reading(Closed(s), b).status = "closed"
         /\ \A e : /\ Wrote(s, e).work = s.work \cup {e}
                  /\ Wrote(s, e).inTxn = s.inTxn /\ Wrote(s, e).status = s.status
  BY DEF Session, Ended, Closed, Begun, Reading, Wrote

\* The sessions a transaction holds are as they were, but for its own.
SessionsOf(u) ==
  /\ connection[u] \in Sessions => session'[connection[u]] = session[connection[u]]
  /\ helper[u] \in Sessions => session'[helper[u]] = session[helper[u]]

Untouched(u) ==
  /\ phase'[u] = phase[u] /\ transactionState'[u] = transactionState[u]
  /\ connection'[u] = connection[u] /\ helper'[u] = helper[u]
  /\ failure'[u] = failure[u] /\ issued'[u] = issued[u] /\ detached'[u] = detached[u]
  /\ SessionsOf(u)
  /\ Written(u)' = Written(u)

LEMMA UntouchedKeeps ==
  ASSUME TypeOK, HasConnection, NEW u \in Txns, Keeps(u), Untouched(u)
  PROVE  Keeps(u)'
  <1>1. phase[u] # "absent" => connection[u] \in Sessions
    BY DEF HasConnection
  <1> QED
    BY <1>1 DEF Keeps, WorkOf, AtomicOf, Untouched, SessionsOf, Sess, Issued

\* A command on the session of t reaches no session of another transaction,
\* and not its own helper.
LEMMA SetSessOthers ==
  ASSUME TypeOK, Ownership, NEW t \in Txns, NEW x, SetSess(t, x)
  PROVE  /\ \A u \in Txns \ {t} : SessionsOf(u)
         /\ helper[t] \in Sessions => session'[helper[t]] = session[helper[t]]
         /\ connection[t] \in Sessions => session'[connection[t]] = x
  BY ConstantsAssumption DEF TypeOK, Ownership, SetSess, SessionsOf

LEMMA SameSessions ==
  ASSUME UNCHANGED session, NEW u
  PROVE  SessionsOf(u)
  BY DEF SessionsOf

\* What t adds to the database is not another transaction's.
LEMMA WrittenOthers ==
  ASSUME NEW t \in Txns, NEW D, D \subseteq {t} \X Writes, database' = database \cup D
  PROVE  /\ \A u \in Txns \ {t} : Written(u)' = Written(u)
         /\ Written(t)' = Written(t) \cup D
  BY DEF Written

(***************************************************************************)
(* A client step of t leaves every other transaction untouched: its state, *)
(* its sessions and what the database has of it.                           *)
(***************************************************************************)
SameState(u) ==
  /\ phase'[u] = phase[u] /\ transactionState'[u] = transactionState[u]
  /\ connection'[u] = connection[u] /\ helper'[u] = helper[u]
  /\ failure'[u] = failure[u] /\ issued'[u] = issued[u] /\ detached'[u] = detached[u]

LEMMA OthersSameState ==
  ASSUME TypeOK, NEW t \in Txns, Client(t)
  PROVE  \A u \in Txns \ {t} : SameState(u)
  <1> USE DEF serverVars, txnVars, stmtVars, resultVars, auxVars, SameState, TypeOK
  <1>1. CASE StartTransaction(t)
    BY <1>1 DEF StartTransaction
  <1>2. CASE BeginStatement(t)
    BY <1>2 DEF BeginStatement
  <1>3. CASE GetConnection(t)
    BY <1>3 DEF GetConnection, Raise
  <1>4. CASE CommandFails(t)
    BY <1>4 DEF CommandFails, Raise
  <1>5. CASE OpenScan(t)
    BY <1>5 DEF OpenScan, Done
  <1>6. CASE Fetch(t)
    BY <1>6 DEF Fetch
  <1>7. CASE Write(t, "writes") \/ Write(t, "calls")
    BY <1>7 DEF Write, Done
  <1>8. CASE Query(t)
    BY <1>8 DEF Query, Done, Raise
  <1>9. CASE Ddl(t, "ddl") \/ Ddl(t, "calls")
    BY <1>9 DEF Ddl, Done, Raise
  <1>10. CASE StatementError(t)
    BY <1>10 DEF StatementError, Raise
  <1>11. CASE FinishStatement(t)
    BY <1>11 DEF FinishStatement
  <1>12. CASE CloseResult(t)
    BY <1>12 DEF CloseResult
  <1>13. CASE OpenHelper(t)
    BY <1>13 DEF OpenHelper
  <1>14. CASE KillAndSwap(t)
    BY <1>14 DEF KillAndSwap
  <1>15. CASE Drain(t)
    BY <1>15 DEF Drain
  <1>16. CASE CommitTransaction(t)
    BY <1>16 DEF CommitTransaction, Finish
  <1>17. CASE RollbackTransaction(t)
    BY <1>17 DEF RollbackTransaction, Finish
  <1>18. CASE Checkpoint(t)
    BY <1>18 DEF Checkpoint, Raise
  <1> QED
    BY <1>1, <1>2, <1>3, <1>4, <1>5, <1>6, <1>7, <1>8, <1>9, <1>10, <1>11, <1>12,
       <1>13, <1>14, <1>15, <1>16, <1>17, <1>18 DEF Client, Execution, Destructor

LEMMA OthersSessions ==
  ASSUME Base, Ownership, NEW t \in Txns, Client(t)
  PROVE  \A u \in Txns \ {t} : SessionsOf(u)
  <1> USE DEF serverVars, txnVars, stmtVars, resultVars, auxVars
  <1>0. TypeOK
    BY DEF Base
  <1>a. ASSUME UNCHANGED session PROVE \A u \in Txns \ {t} : SessionsOf(u)
    BY <1>a DEF SessionsOf
  <1>b. ASSUME NEW x, SetSess(t, x) PROVE \A u \in Txns \ {t} : SessionsOf(u)
    BY <1>0, <1>b, SetSessOthers
  <1>c. ASSUME NEW s \in Sessions, session[s].status = "unused", NEW x,
               session' = [session EXCEPT ![s] = x]
        PROVE  \A u \in Txns \ {t} : SessionsOf(u)
    BY <1>0, <1>c DEF SessionsOf, Ownership, Taken, TypeOK
  <1>d. ASSUME NEW why, SendFails(t, why) PROVE \A u \in Txns \ {t} : SessionsOf(u)
    BY <1>a, <1>b, <1>d DEF SendFails
  <1>e. ASSUME NEW w, Perform(t, w) PROVE \A u \in Txns \ {t} : SessionsOf(u)
    BY <1>a, <1>b, <1>e DEF Perform
  <1>1. CASE StartTransaction(t)
    BY <1>c, <1>1 DEF StartTransaction
  <1>2. CASE BeginStatement(t)
    BY <1>a, <1>2 DEF BeginStatement
  <1>3. CASE GetConnection(t)
    BY <1>b, <1>d, <1>3 DEF GetConnection, StartOnServer
  <1>4. CASE CommandFails(t)
    BY <1>d, <1>4 DEF CommandFails
  <1>5. CASE OpenScan(t)
    BY <1>a, <1>b, <1>5 DEF OpenScan
  <1>6. CASE Fetch(t)
    BY <1>a, <1>b, <1>6 DEF Fetch
  <1>7. CASE Write(t, "writes") \/ Write(t, "calls")
    BY <1>e, <1>7 DEF Write
  <1>8. CASE Query(t)
    BY <1>a, <1>e, <1>8 DEF Query
  <1>9. CASE Ddl(t, "ddl") \/ Ddl(t, "calls")
    BY <1>b, <1>9 DEF Ddl
  <1>10. CASE StatementError(t)
    BY <1>a, <1>10 DEF StatementError
  <1>11. CASE FinishStatement(t)
    BY <1>a, <1>11 DEF FinishStatement
  <1>12. CASE CloseResult(t)
    BY <1>a, <1>b, <1>12 DEF CloseResult, FetchInDestructor
  <1>13. CASE OpenHelper(t)
    BY <1>a, <1>c, <1>13 DEF OpenHelper
  <1>14. CASE KillAndSwap(t)
    <2>1. CASE session' = [session EXCEPT ![helper[t]] = Closed(@)]
      <3>1. helper[t] \in Sessions /\ helper[t] # NoSession
        BY <1>14, ConstantsAssumption DEF KillAndSwap, Base, HelperOpened
      <3> QED
        BY <1>0, <2>1, <3>1, ConstantsAssumption DEF SessionsOf, Ownership, TypeOK
    <2> QED
      BY <1>b, <1>14, <2>1 DEF KillAndSwap
  <1>15. CASE Drain(t)
    BY <1>a, <1>b, <1>15 DEF Drain, FetchInDestructor
  <1>16. CASE CommitTransaction(t)
    BY <1>b, <1>d, <1>16 DEF CommitTransaction, Finish, Erase
  <1>17. CASE RollbackTransaction(t)
    BY <1>b, <1>17 DEF RollbackTransaction, Finish, Erase
  <1>18. CASE Checkpoint(t)
    BY <1>a, <1>b, <1>18 DEF Checkpoint, StartOnServer
  <1> QED
    BY <1>1, <1>2, <1>3, <1>4, <1>5, <1>6, <1>7, <1>8, <1>9, <1>10, <1>11, <1>12,
       <1>13, <1>14, <1>15, <1>16, <1>17, <1>18 DEF Client, Execution, Destructor

\* A client step adds to the database at most changes of its own.
AddsOwn(t) == \E D \in SUBSET ({t} \X Writes) : database' = database \cup D

LEMMA ClientAddsOwn ==
  ASSUME Base, NEW t \in Txns, WorkOf(t), Client(t)
  PROVE  AddsOwn(t)
  <1> USE DEF serverVars, txnVars, stmtVars, resultVars, auxVars
  <1>a. ASSUME UNCHANGED database PROVE AddsOwn(t)
    <2>1. {} \in SUBSET ({t} \X Writes) /\ database' = database \cup {}
      BY <1>a
    <2> QED
      BY <2>1 DEF AddsOwn
  <1>b. ASSUME NEW w \in Writes, Perform(t, w) PROVE AddsOwn(t)
    <2>1. CASE database' = database \cup {<<t, w>>}
      <3>1. {<<t, w>>} \in SUBSET ({t} \X Writes)
        OBVIOUS
      <3> QED
        BY <2>1, <3>1 DEF AddsOwn
    <2> QED
      BY <1>a, <1>b, <2>1 DEF Perform
  <1>c. ASSUME connection[t] \in Sessions, database' = database \cup Sess(t).work
        PROVE  AddsOwn(t)
    <2>1. Sess(t).work \in SUBSET ({t} \X Writes)
      BY <1>c DEF WorkOf
    <2> QED
      BY <1>c, <2>1 DEF AddsOwn
  <1>1. CASE StartTransaction(t)
    BY <1>a, <1>1 DEF StartTransaction
  <1>2. CASE BeginStatement(t)
    BY <1>a, <1>2 DEF BeginStatement
  <1>3. CASE GetConnection(t) \/ CommandFails(t)
    BY <1>a, <1>3 DEF GetConnection, CommandFails
  <1>4. CASE OpenScan(t) \/ Fetch(t)
    BY <1>a, <1>4 DEF OpenScan, Fetch
  <1>5. CASE Write(t, "writes") \/ Write(t, "calls")
    BY <1>b, <1>5 DEF Write
  <1>6. CASE Query(t)
    BY <1>a, <1>b, <1>6 DEF Query
  <1>7. CASE Ddl(t, "ddl") \/ Ddl(t, "calls")
    BY <1>c, <1>7 DEF Ddl, Started, Base, HasConnection
  <1>8. CASE StatementError(t) \/ FinishStatement(t)
    BY <1>a, <1>8 DEF StatementError, FinishStatement
  <1>9. CASE Destructor(t)
    BY <1>a, <1>9 DEF Destructor, CloseResult, OpenHelper, KillAndSwap, Drain
  <1>10. CASE CommitTransaction(t)
    BY <1>a, <1>c, <1>10 DEF CommitTransaction, Finish, Usable, Alive, Base, HasConnection
  <1>11. CASE RollbackTransaction(t) \/ Checkpoint(t)
    BY <1>a, <1>11 DEF RollbackTransaction, Finish, Checkpoint
  <1> QED
    BY <1>1, <1>2, <1>3, <1>4, <1>5, <1>6, <1>7, <1>8, <1>9, <1>10, <1>11
       DEF Client, Execution

LEMMA OthersUntouched ==
  ASSUME Base, Ownership, NEW t \in Txns, WorkOf(t), Client(t)
  PROVE  \A u \in Txns \ {t} : Untouched(u)
  <1>1. \A u \in Txns \ {t} : SameState(u)
    BY OthersSameState DEF Base
  <1>2. \A u \in Txns \ {t} : SessionsOf(u)
    BY OthersSessions
  <1>3. PICK D \in SUBSET ({t} \X Writes) : database' = database \cup D
    BY ClientAddsOwn DEF AddsOwn
  <1>4. \A u \in Txns \ {t} : Written(u)' = Written(u)
    BY <1>3, WrittenOthers
  <1> QED
    BY <1>1, <1>2, <1>4 DEF Untouched, SameState

(***************************************************************************)
(* A client step of t keeps what its session and the database have of it.  *)
(* Running is the state a step of the statement starts from.               *)
(***************************************************************************)
Own(t) ==
  /\ TypeOK /\ Ownership /\ Keeps(t)
  /\ connection[t] \in Sessions /\ Sess(t) \in Session(Effects)

Running(t) ==
  Own(t) /\ phase[t] = "alive" /\ failure[t] = "none" /\ pc[t] = "running"

\* An exception ends it: nothing was added to the database, and the
\* session's work is at most what it was.
LEMMA RaiseKeeps ==
  ASSUME NEW t \in Txns, Own(t), phase[t] = "alive",
         transactionState'[t] = "STARTED", failure'[t] # "none",
         UNCHANGED <<phase, connection, helper, database, issued, detached>>,
         session'[connection[t]].work \subseteq Sess(t).work,
         helper[t] \in Sessions => session'[helper[t]] = session[helper[t]]
  PROVE  Keeps(t)'
  BY DEF Own, Keeps, WorkOf, AtomicOf, Written, Issued, Sess

\* What a failing command does to the session.
LEMMA SendFailsKeeps ==
  ASSUME NEW t \in Txns, Own(t), NEW why, SendFails(t, why)
  PROVE  /\ session'[connection[t]].work \subseteq Sess(t).work
         /\ helper[t] \in Sessions => session'[helper[t]] = session[helper[t]]
  <1>1. CASE UNCHANGED session
    BY <1>1 DEF Sess
  <1>2. CASE SetSess(t, Ended(Sess(t)))
    BY <1>2, SetSessOthers, FieldsKept DEF Own
  <1> QED
    BY <1>1, <1>2 DEF SendFails

\* Nothing but the rest of the statement and the reading of its result.
LEMMA ReadKeeps ==
  ASSUME NEW t \in Txns, Own(t), SameState(t), UNCHANGED database,
         \/ UNCHANGED session
         \/ \E b \in BOOLEAN : SetSess(t, Reading(Sess(t), b))
  PROVE  Keeps(t)'
  <1>1. CASE UNCHANGED session
    BY <1>1 DEF Own, SameState, Keeps, WorkOf, AtomicOf, Written, Issued, Sess
  <1>2. CASE \E b \in BOOLEAN : SetSess(t, Reading(Sess(t), b))
    <2>1. PICK b \in BOOLEAN : SetSess(t, Reading(Sess(t), b))
      BY <1>2
    <2>2. /\ session'[connection[t]] = Reading(Sess(t), b)
          /\ helper[t] \in Sessions => session'[helper[t]] = session[helper[t]]
      BY <2>1, SetSessOthers DEF Own
    <2>3. Reading(Sess(t), b).work = Sess(t).work /\ Reading(Sess(t), b).inTxn = Sess(t).inTxn
          /\ Reading(Sess(t), b).status = Sess(t).status
      BY FieldsKept DEF Own
    <2> QED
      BY <2>2, <2>3 DEF Own, SameState, Keeps, WorkOf, AtomicOf, Written, Issued, Sess, Open
  <1> QED
    BY <1>1, <1>2

\* A change goes into the server's open transaction, if there is one.
LEMMA PerformKeeps ==
  ASSUME NEW t \in Txns, Running(t), NEW w \in Writes, Perform(t, w), Sends(t),
         transactionState[t] = "STARTED",
         UNCHANGED <<phase, transactionState, connection, helper, detached>>,
         issued' = [issued EXCEPT ![t] = @ \cup {w}]
  PROVE  Keeps(t)'
  <1> USE DEF Running, Own
  <1>0. issued'[t] = issued[t] \cup {w} /\ issued[t] \subseteq Writes
    BY DEF TypeOK
  <1>1. CASE Sess(t).inTxn
    <2>1. UNCHANGED database
      BY <1>1 DEF Perform
    <2>2. /\ session'[connection[t]] = Wrote(Sess(t), <<t, w>>)
          /\ helper[t] \in Sessions => session'[helper[t]] = session[helper[t]]
      BY <1>1, SetSessOthers DEF Perform
    <2>3. session'[connection[t]].work = Sess(t).work \cup {<<t, w>>}
          /\ session'[connection[t]].inTxn = Sess(t).inTxn
      BY <2>2, FieldsKept
    <2>4. WorkOf(t)'
      <3>1. ~detached[t] => Sess(t).work = Issued(t)
        BY DEF Keeps, WorkOf, Sends
      <3>2. Issued(t)' = Issued(t) \cup {<<t, w>>}
        BY <1>0 DEF Issued
      <3>3. session'[connection[t]].work \subseteq {t} \X Writes
        BY <2>3 DEF Keeps, WorkOf, Sess
      <3>4. helper[t] \in Sessions => session'[helper[t]].work = {}
        BY <2>2 DEF Keeps, WorkOf
      <3>5. ~detached[t] =>
              session'[connection[t]].inTxn /\ session'[connection[t]].work = Issued(t)'
        BY <1>1, <2>3, <3>1, <3>2
      <3> QED
        BY <3>3, <3>4, <3>5 DEF WorkOf, Sess
    <2>5. AtomicOf(t)'
      BY <2>1 DEF Keeps, AtomicOf, Written
    <2> QED
      BY <2>4, <2>5 DEF Keeps
  <1>2. CASE ~Sess(t).inTxn
    <2>1. detached[t]
      BY <1>2 DEF Keeps, WorkOf, Sends
    <2>2. UNCHANGED session
      BY <1>2 DEF Perform
    <2> QED
      BY <2>1, <2>2 DEF Keeps, WorkOf, AtomicOf, Sess
  <1> QED
    BY <1>1, <1>2

LEMMA ExecutionKeeps ==
  ASSUME NEW t \in Txns, Running(t), Life, Execution(t)
  PROVE  Keeps(t)'
  <1> USE DEF serverVars, txnVars, stmtVars, resultVars, auxVars
  <1>0. Own(t) /\ TypeOK /\ phase[t] = "alive"
    BY DEF Running, Own
  <1>a. ASSUME NEW why \in {"duckdb", "server", "out_of_sync"}, Raise(t, why)
        PROVE  failure'[t] # "none"
    BY <1>0, <1>a DEF Raise, TypeOK
  <1>1. CASE GetConnection(t)
    <2>0. transactionState'[t] = "STARTED"
      BY <1>0, <1>1 DEF GetConnection, TypeOK
    <2>1. CASE Sends(t) /\ StartOnServer(t) /\ UNCHANGED stmtVars
      <3>1. /\ session'[connection[t]] = Begun(Sess(t), AccessMode = "READ_ONLY")
            /\ helper[t] \in Sessions => session'[helper[t]] = session[helper[t]]
        BY <1>0, <2>1, SetSessOthers DEF Own, StartOnServer
      <3>2. session'[connection[t]].work = Sess(t).work /\ session'[connection[t]].inTxn
        BY <1>0, <3>1, FieldsKept DEF Own
      <3>3. issued[t] = {} /\ Sess(t).work = {}
        BY <1>0, <1>1 DEF Own, Keeps, WorkOf, GetConnection
      <3>4. UNCHANGED <<phase, connection, helper, database, issued, detached>>
        BY <1>1 DEF GetConnection
      <3> QED
        BY <1>0, <2>0, <3>1, <3>2, <3>3, <3>4
           DEF Own, Keeps, WorkOf, AtomicOf, Written, Issued, Sess
    <2>2. CASE \E why \in {"server", "out_of_sync"} : SendFails(t, why) /\ Raise(t, why)
      BY <1>0, <1>1, <1>a, <2>0, <2>2, SendFailsKeeps, RaiseKeeps DEF GetConnection
    <2> QED
      BY <1>1, <2>1, <2>2 DEF GetConnection
  <1>2. CASE CommandFails(t)
    BY <1>0, <1>2, <1>a, SendFailsKeeps, RaiseKeeps DEF CommandFails, Started
  <1>3. CASE OpenScan(t)
    <2>1. SameState(t) /\ UNCHANGED database
      BY <1>3 DEF OpenScan, Done, SameState
    <2> QED
      BY <1>0, <1>3, <2>1, ReadKeeps DEF OpenScan
  <1>4. CASE Fetch(t)
    <2>1. SameState(t) /\ UNCHANGED database
      BY <1>4 DEF Fetch, SameState
    <2> QED
      BY <1>0, <1>4, <2>1, ReadKeeps DEF Fetch
  <1>5. CASE Write(t, "writes") \/ Write(t, "calls")
    BY <1>5, PerformKeeps DEF Write, Started
  <1>6. CASE Query(t)
    <2>1. CASE Done(t, "queries") /\ UNCHANGED <<serverVars, issued>>
      <3>1. SameState(t) /\ UNCHANGED <<session, database>>
        BY <1>6, <2>1 DEF Query, Done, SameState
      <3> QED
        BY <1>0, <3>1, ReadKeeps
    <2>2. CASE UNCHANGED <<serverVars, issued>> /\ Raise(t, "server")
      BY <1>0, <1>6, <1>a, <2>2, RaiseKeeps DEF Query, Started, Sess
    <2>3. CASE \E w \in Writes :
                 Perform(t, w) /\ issued' = [issued EXCEPT ![t] = @ \cup {w}]
      BY <1>6, <2>3, PerformKeeps DEF Query, Started
    <2> QED
      BY <1>6, <2>1, <2>2, <2>3 DEF Query
  <1>7. ASSUME NEW kind, Ddl(t, kind) PROVE Keeps(t)'
    <2>1. /\ session'[connection[t]] = Ended(Sess(t))
          /\ helper[t] \in Sessions => session'[helper[t]] = session[helper[t]]
      BY <1>0, <1>7, SetSessOthers DEF Own, Ddl
    <2>2. session'[connection[t]].work = {}
      BY <1>0, <2>1, FieldsKept DEF Own
    <2>3. detached'[t] /\ transactionState'[t] = "STARTED"
      BY <1>0, <1>7 DEF Ddl, Started, TypeOK
    <2>4. UNCHANGED <<phase, connection, helper, issued>>
      BY <1>7 DEF Ddl
    <2> QED
      BY <1>0, <2>1, <2>2, <2>3, <2>4 DEF Own, Keeps, WorkOf, AtomicOf, Sess
  <1>8. CASE StatementError(t)
    <2>1. CASE transactionState[t] = "STARTED"
      BY <1>0, <1>8, <1>a, <2>1, RaiseKeeps DEF StatementError, Sess
    <2>2. CASE transactionState[t] = "NOT_YET_STARTED"
      BY <1>0, <1>8, <2>2 DEF StatementError, Own, Keeps, WorkOf, AtomicOf, Written, Issued, Sess
    <2> QED
      BY <1>0, <2>1, <2>2 DEF Life, TypeOK
  <1>9. CASE FinishStatement(t)
    <2>1. SameState(t) /\ UNCHANGED <<session, database>>
      BY <1>9 DEF FinishStatement, SameState
    <2> QED
      BY <1>0, <2>1, ReadKeeps
  <1> QED
    BY <1>1, <1>2, <1>3, <1>4, <1>5, <1>6, <1>7, <1>8, <1>9 DEF Execution

LEMMA DestructorKeeps ==
  ASSUME NEW t \in Txns, Own(t), HelperOpened, Destructor(t)
  PROVE  Keeps(t)'
  <1> USE DEF serverVars, txnVars, stmtVars, resultVars, auxVars
  <1>0. TypeOK /\ Ownership
    BY DEF Own
  <1>1. CASE CloseResult(t)
    <2>1. SameState(t) /\ UNCHANGED database
      BY <1>1 DEF CloseResult, SameState
    <2> QED
      BY <1>1, <2>1, ReadKeeps DEF CloseResult, FetchInDestructor
  <1>2. CASE OpenHelper(t)
    <2>1. CASE UNCHANGED <<session, helper>>
      <3>1. SameState(t) /\ UNCHANGED <<session, database>>
        BY <1>2, <2>1 DEF OpenHelper, SameState
      <3> QED
        BY <3>1, ReadKeeps
    <2>2. CASE \E s \in Sessions :
                 /\ session[s].status = "unused"
                 /\ session' = [session EXCEPT ![s] = Connected]
                 /\ helper' = [helper EXCEPT ![t] = s]
      <3>1. PICK s \in Sessions :
                 /\ session[s].status = "unused"
                 /\ session' = [session EXCEPT ![s] = Connected]
                 /\ helper' = [helper EXCEPT ![t] = s]
        BY <2>2
      <3>2. connection[t] # s
        BY <1>0, <3>1 DEF Ownership, Taken
      <3>3. session'[connection[t]] = session[connection[t]] /\ session'[helper'[t]].work = {}
        BY <1>0, <3>1, <3>2 DEF TypeOK, Connected, NotConnected
      <3>4. UNCHANGED <<database, phase, transactionState, connection, failure, issued, detached>>
        BY <1>2 DEF OpenHelper
      <3> QED
        BY <3>3, <3>4 DEF Own, Keeps, WorkOf, AtomicOf, Written, Issued, Sess
    <2> QED
      BY <1>2, <2>1, <2>2 DEF OpenHelper
  <1>3. CASE KillAndSwap(t)
    <2>0. /\ helper[t] \in Sessions /\ helper'[t] = NoSession
          /\ UNCHANGED <<database, phase, transactionState, failure, issued>>
      BY <1>0, <1>3 DEF KillAndSwap, HelperOpened, TypeOK
    <2>1. CASE /\ SetSess(t, Reading(Closed(Sess(t)), FALSE))
               /\ connection' = [connection EXCEPT ![t] = helper[t]]
               /\ detached' = [detached EXCEPT ![t] = TRUE]
      <3>1. session'[helper[t]] = session[helper[t]]
        BY <1>0, <2>0, <2>1, SetSessOthers
      <3>2. connection'[t] = helper[t] /\ detached'[t]
        BY <1>0, <2>1 DEF TypeOK
      <3>3. session'[connection'[t]].work = {}
        BY <2>0, <3>1, <3>2 DEF Own, Keeps, WorkOf
      <3> QED
        BY <2>0, <3>2, <3>3, ConstantsAssumption DEF Own, Keeps, WorkOf, AtomicOf, Sess
    <2>2. CASE /\ session' = [session EXCEPT ![helper[t]] = Closed(@)]
               /\ UNCHANGED <<connection, detached>>
      <3>1. connection[t] # helper[t]
        BY <1>0, <2>0, ConstantsAssumption DEF Ownership
      <3>2. session'[connection[t]] = session[connection[t]]
        BY <1>0, <2>2, <3>1 DEF TypeOK
      <3> QED
        BY <2>0, <2>2, <3>2, ConstantsAssumption
           DEF Own, Keeps, WorkOf, AtomicOf, Written, Issued, Sess
    <2> QED
      BY <1>3, <2>1, <2>2 DEF KillAndSwap
  <1>4. CASE Drain(t)
    <2>1. SameState(t) /\ UNCHANGED database
      BY <1>4 DEF Drain, SameState
    <2> QED
      BY <1>4, <2>1, ReadKeeps DEF Drain, FetchInDestructor
  <1> QED
    BY <1>1, <1>2, <1>3, <1>4 DEF Destructor

LEMMA StartKeeps ==
  ASSUME Base, Ownership, Life, NEW t \in Txns, Keeps(t), StartTransaction(t)
  PROVE  Keeps(t)'
  <1> USE DEF serverVars, txnVars, stmtVars, resultVars, auxVars
  <1>0. TypeOK /\ UNCHANGED <<database, helper, failure, issued, detached>> /\ phase[t] = "absent"
    BY DEF StartTransaction, Base
  <1>1. PICK s \in Sessions :
          /\ session[s].status = "unused"
          /\ \/ /\ session' = [session EXCEPT ![s] = WithTimeZone(Connected, SessionTimeZone)]
                /\ connection' = [connection EXCEPT ![t] = s]
                /\ phase' = [phase EXCEPT ![t] = "alive"]
             \/ session' = [session EXCEPT ![s] = Closed(Connected)] /\ UNCHANGED txnVars
    BY DEF StartTransaction
  <1>2. helper[t] # s /\ connection[t] = NoSession
    BY <1>0, <1>1 DEF Ownership, Taken
  <1>3. helper[t] \in Sessions => session'[helper[t]] = session[helper[t]]
    BY <1>0, <1>1, <1>2 DEF TypeOK
  <1>4. CASE /\ session' = [session EXCEPT ![s] = WithTimeZone(Connected, SessionTimeZone)]
             /\ connection' = [connection EXCEPT ![t] = s]
             /\ phase' = [phase EXCEPT ![t] = "alive"]
    <2>1. connection'[t] = s /\ session'[s].work = {} /\ phase'[t] = "alive"
      BY <1>0, <1>4 DEF TypeOK, WithTimeZone, Connected, NotConnected
    <2>2. transactionState'[t] = "NOT_YET_STARTED" /\ issued[t] = {}
      BY <1>0 DEF StartTransaction, Life, Keeps, WorkOf, TypeOK
    <2> QED
      BY <1>0, <1>3, <2>1, <2>2 DEF Keeps, WorkOf, AtomicOf, Written, Issued, Sess
  <1>5. CASE UNCHANGED txnVars
    BY <1>0, <1>2, <1>3, <1>5, ConstantsAssumption
       DEF Keeps, WorkOf, AtomicOf, Written, Issued
  <1> QED
    BY <1>1, <1>4, <1>5

LEMMA FinishKeeps ==
  ASSUME NEW t \in Txns, Own(t), Life, CommitTransaction(t) \/ RollbackTransaction(t)
  PROVE  Keeps(t)'
  <1> USE DEF serverVars, txnVars, stmtVars, resultVars, auxVars
  <1>0. /\ TypeOK /\ phase[t] = "alive"
        /\ UNCHANGED <<connection, helper, failure, issued, detached>>
        /\ issued[t] \subseteq Writes
    BY DEF Own, CommitTransaction, RollbackTransaction, Finish, Usable, Alive, TypeOK
  <1>1. /\ session'[connection[t]].work \subseteq Sess(t).work
        /\ helper[t] \in Sessions => session'[helper[t]] = session[helper[t]]
    <2>1. CASE SetSess(t, Closed(Sess(t)))
      BY <2>1, SetSessOthers, FieldsKept DEF Own
    <2>2. CASE \E why \in {"server", "out_of_sync"} : SendFails(t, why)
      BY <2>2, SendFailsKeeps
    <2> QED
      BY <2>1, <2>2 DEF CommitTransaction, RollbackTransaction, Finish, Erase
  <1>2. phase'[t] \in {"committed", "rolled_back", "failed"}
    BY <1>0 DEF CommitTransaction, RollbackTransaction, Finish, TypeOK
  <1>3. WorkOf(t)'
    BY <1>0, <1>1, <1>2 DEF Own, Keeps, WorkOf, Sess
  <1>4. ASSUME ~detached[t] PROVE AtomicOf(t)'
    <2>0. Written(t) = {}
      BY <1>0, <1>4 DEF Own, Keeps, AtomicOf
    <2>1. CASE RollbackTransaction(t)
      BY <1>0, <2>0, <2>1 DEF RollbackTransaction, Finish, AtomicOf, Written, TypeOK
    <2>2. CASE CommitTransaction(t) /\ transactionState[t] # "STARTED"
      <3>1. issued[t] = {}
        BY <1>0, <2>2 DEF Own, Keeps, WorkOf, Life, TypeOK
      <3>2. phase'[t] = "committed" /\ UNCHANGED database
        BY <1>0, <2>2 DEF CommitTransaction, Finish, TypeOK
      <3> QED
        BY <1>0, <2>0, <3>1, <3>2 DEF AtomicOf, Written, Issued
    <2>3. CASE CommitTransaction(t) /\ transactionState[t] = "STARTED"
      <3>1. CASE Sends(t) /\ database' = database \cup Sess(t).work
        <4>1. Sess(t).work = Issued(t)
          BY <1>0, <1>4, <2>3, <3>1 DEF Own, Keeps, WorkOf, CommitTransaction, Finish, Usable, Sends
        <4>2. Issued(t) \subseteq {t} \X Writes
          BY <1>0 DEF Issued
        <4>3. Written(t)' = Issued(t)
          BY <2>0, <3>1, <4>1, <4>2, WrittenOthers
        <4>4. phase'[t] \in {"committed", "failed"}
          BY <1>0, <2>3, <3>1 DEF CommitTransaction, Finish, TypeOK
        <4> QED
          BY <1>0, <4>3, <4>4 DEF AtomicOf, Issued
      <3>2. CASE phase' = [phase EXCEPT ![t] = "failed"] /\ UNCHANGED database
        BY <1>0, <2>0, <3>2 DEF AtomicOf, Written, TypeOK
      <3> QED
        BY <2>3, <3>1, <3>2 DEF CommitTransaction, Finish
    <2> QED
      BY <2>1, <2>2, <2>3
  <1>5. ASSUME detached[t] PROVE AtomicOf(t)'
    BY <1>0, <1>5 DEF AtomicOf
  <1> QED
    BY <1>3, <1>4, <1>5 DEF Keeps

LEMMA CheckpointKeeps ==
  ASSUME NEW t \in Txns, Own(t), Checkpoint(t)
  PROVE  Keeps(t)'
  <1> USE DEF serverVars, txnVars, stmtVars, resultVars, auxVars
  <1>1. /\ phase[t] = "alive" /\ transactionState'[t] = "STARTED" /\ failure'[t] # "none"
        /\ UNCHANGED <<phase, connection, helper, database, issued, detached>>
    BY DEF Checkpoint, Usable, Alive, Raise, Own, TypeOK
  <1>2. /\ session'[connection[t]].work \subseteq Sess(t).work
        /\ helper[t] \in Sessions => session'[helper[t]] = session[helper[t]]
    <2>1. CASE StartOnServer(t)
      BY <2>1, SetSessOthers, FieldsKept DEF Own, StartOnServer
    <2>2. CASE UNCHANGED session
      BY <2>2 DEF Sess
    <2> QED
      BY <2>1, <2>2 DEF Checkpoint
  <1> QED
    BY <1>1, <1>2, RaiseKeeps

LEMMA OwnKeeps ==
  ASSUME IInv, NEW t \in Txns, Client(t)
  PROVE  Keeps(t)'
  <1> USE DEF IInv
  <1>1. TypeOK /\ Keeps(t)
    BY DEF Base
  <1>2. ASSUME connection[t] \in Sessions PROVE Own(t)
    BY <1>1, <1>2 DEF Own, TypeOK, Sess
  <1>3. CASE StartTransaction(t)
    BY <1>1, <1>3, StartKeeps
  <1>4. CASE BeginStatement(t)
    <2>1. Own(t)
      BY <1>2, <1>4 DEF BeginStatement, Usable, Alive, Base, HasConnection
    <2>2. SameState(t) /\ UNCHANGED <<session, database>>
      BY <1>4 DEF BeginStatement, SameState, serverVars, txnVars, resultVars, auxVars
    <2> QED
      BY <2>1, <2>2, ReadKeeps
  <1>5. CASE Execution(t)
    <2>1. Running(t)
      BY <1>2, <1>5, ExecutionFrames DEF ExecutionFrame, Running, Life, Base, HasConnection
    <2> QED
      BY <1>5, <2>1, ExecutionKeeps
  <1>6. CASE Destructor(t)
    <2>1. Own(t)
      BY <1>2, <1>6 DEF Destructor, CloseResult, OpenHelper, KillAndSwap, Drain, Base, HasConnection
    <2> QED
      BY <1>6, <2>1, DestructorKeeps DEF Base
  <1>7. CASE CommitTransaction(t) \/ RollbackTransaction(t)
    <2>1. Own(t)
      BY <1>2, <1>7 DEF CommitTransaction, RollbackTransaction, Finish, Usable, Alive, Base, HasConnection
    <2> QED
      BY <1>7, <2>1, FinishKeeps
  <1>8. CASE Checkpoint(t)
    <2>1. Own(t)
      BY <1>2, <1>8 DEF Checkpoint, Usable, Alive, Base, HasConnection
    <2> QED
      BY <1>8, <2>1, CheckpointKeeps
  <1> QED
    BY <1>3, <1>4, <1>5, <1>6, <1>7, <1>8 DEF Client

\* A lost session takes its work along; nothing it held was durable.
LEMMA LoseKeeps ==
  ASSUME TypeOK, NEW s \in Sessions, Lose(s), NEW t \in Txns, Keeps(t)
  PROVE  Keeps(t)'
  <1>1. /\ UNCHANGED <<database, phase, transactionState, connection, helper,
                       failure, issued, detached>>
        /\ session' = [session EXCEPT ![s] = Closed(session[s])]
    BY DEF Lose, txnVars, stmtVars, resultVars, auxVars
  <1>2. Closed(session[s]).work = {} /\ Closed(session[s]).status = "closed"
    BY FieldsKept DEF TypeOK
  <1>3. ASSUME NEW r \in Sessions
        PROVE  session'[r] = session[r] \/ (session'[r].work = {} /\ ~Open(session'[r]))
    BY <1>1, <1>2 DEF TypeOK, Open
  <1>4. WorkOf(t)'
    <2>1. CASE connection[t] \in Sessions
      BY <1>1, <1>3, <2>1 DEF Keeps, WorkOf, Sess, Issued
    <2>2. CASE connection[t] \notin Sessions
      <3>1. session'[connection[t]] = session[connection[t]]
        BY <1>1, <2>2 DEF TypeOK
      <3> QED
        BY <1>1, <1>3, <2>2, <3>1 DEF Keeps, WorkOf, Sess, Issued
    <2> QED
      BY <2>1, <2>2
  <1>5. AtomicOf(t)'
    BY <1>1 DEF Keeps, AtomicOf, Written, Issued
  <1> QED
    BY <1>4, <1>5 DEF Keeps

LEMMA IInvStep == IInv /\ [Next]_vars => IInv'
  <1> SUFFICES ASSUME IInv, [Next]_vars PROVE IInv'
    OBVIOUS
  <1>1. Base' /\ Ownership' /\ Life'
    BY BaseStep, OwnershipStep, LifeStep DEF IInv
  <1>2. \A u \in Txns : Keeps(u)'
    <2>1. ASSUME NEW t \in Txns, Client(t), NEW u \in Txns PROVE Keeps(u)'
      <3>1. CASE u = t
        BY <2>1, <3>1, OwnKeeps
      <3>2. CASE u # t
        <4>1. Untouched(u)
          BY <2>1, <3>2, OthersUntouched DEF IInv, Keeps
        <4> QED
          BY <4>1, UntouchedKeeps DEF IInv, Base
      <3> QED
        BY <3>1, <3>2
    <2>2. ASSUME NEW s \in Sessions, Lose(s), NEW u \in Txns PROVE Keeps(u)'
      BY <2>2, LoseKeeps DEF IInv, Base
    <2>3. ASSUME UNCHANGED vars, NEW u \in Txns PROVE Keeps(u)'
      BY <2>3 DEF vars, IInv, Keeps, WorkOf, AtomicOf, Written, Issued, Sess, Open
    <2> QED
      BY <2>1, <2>2, <2>3 DEF Next
  <1> QED
    BY <1>1, <1>2 DEF IInv

LEMMA IInvInit == Init => IInv
  <1> SUFFICES ASSUME Init PROVE IInv
    OBVIOUS
  <1>1. Base
    BY InitTypeOK DEF Init, Base, HasConnection, HelperOpened
  <1>2. Ownership
    BY ConstantsAssumption DEF Init, Ownership, Taken
  <1>3. Life
    BY DEF Init, Life
  <1>4. \A t \in Txns : Keeps(t)
    BY ConstantsAssumption DEF Init, Keeps, WorkOf, AtomicOf, Written
  <1> QED
    BY <1>1, <1>2, <1>3, <1>4 DEF IInv

(***************************************************************************)
(* A transaction on an attached catalog is all or nothing, whatever the    *)
(* server, the network, the statements and the other transactions do, as   *)
(* long as it runs no DDL and no streaming result of its own is cancelled: *)
(* the session that GetConnection started holds what the client wrote, and *)
(* an exception, a lost session or ~MySQLTransaction leaves none of it.    *)
(***************************************************************************)
THEOREM TransactionsAreAtomic == Spec => []Atomicity
  <1>1. IInv => Atomicity
    BY DEF IInv, Keeps, AtomicOf, Atomicity
  <1> QED
    BY <1>1, IInvInit, IInvStep, PTL DEF Spec
=============================================================================
