-------------------------- MODULE MySQLWorkersProofs --------------------------
(***************************************************************************)
(* Any number of worker threads over one connection: types, that no thread *)
(* is handed the rows of another's command, what can fail a statement, and *)
(* that the scans of a transaction show one state of the database.         *)
(***************************************************************************)
EXTENDS MySQLWorkers, SequenceTheorems, TLAPS

(***************************************************************************)
(* The inductive invariant.  query_lock is held from the sending of a      *)
(* command until its result is stored, so that at most one reply is on its *)
(* way and it belongs to the holder; what follows the release of the lock  *)
(* is right as long as no other command was sent meanwhile.                *)
(***************************************************************************)
Holding == {"receiving", "storing"}

Exclusion == \A t \in Threads : queryLock = t <=> pc[t] \in Holding

\* A reply of the command t has sent last.
Own(t, r) ==
  r # NoReply => r.to = t /\ r.statement = statements /\ r.columns = Expected(t)

\* Nothing is left on the handle when nobody waits for it.
Quiet ==
  /\ (\A t \in Threads : pc[t] # "receiving") => handle.replies = <<>>
  /\ (\A t \in Threads : pc[t] # "storing") => handle.current = NoReply

Receiving(t) ==
  pc[t] = "receiving" =>
    LET r == Head(handle.replies) IN
    /\ handle.replies = <<r>>
    /\ r.to = t /\ r.statement = statements /\ r.columns = Expected(t)
    /\ r.error => faulted

Storing(t) ==
  pc[t] = "storing" =>
    /\ Own(t, handle.current)
    /\ handle.fieldCount = Expected(t)
    /\ handle.current = NoReply => Expected(t) = Command

Counting(t) ==
  pc[t] = "counting" =>
    /\ Own(t, result[t])
    /\ ~faulted /\ result[t] = NoReply => Expected(t) = Command
    /\ ~overlapped =>
         /\ handle.fieldCount = Expected(t)
         /\ \A u \in Threads \ {t} : pc[u] \notin Holding \cup {"counting"}

Scanning(t) ==
  pc[t] = "scanning" =>
    /\ call[t] = "task" /\ Own(t, result[t])
    /\ ~faulted /\ ~overlapped => result[t] # NoReply /\ fieldCount[t] = task[t]

Fresh(t) == pc[t] # "done" => delivered[t] = NoReply

Delivered(t) ==
  delivered[t] # NoReply =>
    /\ delivered[t].to = t
    /\ delivered[t].statement = statements
    /\ delivered[t].columns = task[t]

ThreadInv(t) ==
  Receiving(t) /\ Storing(t) /\ Counting(t) /\ Scanning(t) /\ Fresh(t) /\ Delivered(t)

IInv ==
  /\ TypeOK /\ Exclusion /\ Quiet
  /\ ~faulted => server.open
  /\ FailsForACause
  /\ \A t \in Threads : ThreadInv(t)
-----------------------------------------------------------------------------
LEMMA NoReplyOrReply == ASSUME NEW r \in Reply PROVE r.columns \in Tasks /\ r.version \in Versions
  BY DEF Reply

LEMMA InitIInv == Init => IInv
<1> SUFFICES ASSUME Init PROVE IInv
  OBVIOUS
<1>1. TypeOK
  <2>1. 1 \in Versions /\ Command \in Tasks /\ {} \subseteq Versions
    BY ConstantsAssumption DEF Versions, Tasks, Command
  <2>2. handle \in [replies : Seq(Reply), current : Reply \cup {NoReply}, fieldCount : Tasks]
    BY <2>1 DEF Init, Command
  <2>3. server \in [open : BOOLEAN, inTxn : BOOLEAN, snapshot : Versions \cup {Unset}]
    BY DEF Init
  <2>4. /\ pc \in [Threads -> {"idle", "testing", "setting", "sending", "receiving",
                               "storing", "counting", "scanning", "done"}]
        /\ task \in [Threads -> Tasks]
        /\ call \in [Threads -> {"start", "task"}]
        /\ result \in [Threads -> Reply \cup {NoReply}]
        /\ fieldCount \in [Threads -> Tasks]
        /\ delivered \in [Threads -> Reply \cup {NoReply}]
    BY <2>1 DEF Init, Command
  <2>5. statements \in 0..MaxStatements
    BY ConstantsAssumption DEF Init
  <2>6. /\ version \in Versions /\ seen \subseteq Versions
        /\ queryLock \in Threads \cup {NoThread}
        /\ transactionState \in {"NOT_YET_STARTED", "STARTED"}
    BY <2>1 DEF Init
  <2>7. failed \in BOOLEAN /\ raced \in BOOLEAN /\ overlapped \in BOOLEAN /\ faulted \in BOOLEAN
    BY Zenon DEF Init
  <2> QED
    BY <2>2, <2>3, <2>4, <2>5, <2>6, <2>7 DEF TypeOK
<1>2. Exclusion
  BY ConstantsAssumption DEF Init, Exclusion, Holding
<1>3. Quiet
  BY DEF Init, Quiet
<1>4. \A t \in Threads : ThreadInv(t)
  BY DEF Init, ThreadInv, Receiving, Storing, Counting, Scanning, Fresh, Delivered
<1> QED BY <1>1, <1>2, <1>3, <1>4 DEF IInv, Init, FailsForACause

(***************************************************************************)
(* The steps of one thread.                                                *)
(***************************************************************************)
LEMMA TestPreserves ==
  ASSUME IInv, NEW t \in Threads, TestState(t) \/ SetState(t) \/ Skip(t)
  PROVE  IInv'
<1> USE DEF TestState, SetState, Skip
<1>1. /\ pc[t] \in {"testing", "setting"}
      /\ pc' = [pc EXCEPT ![t] = pc'[t]] /\ pc'[t] \in {"setting", "sending", "done"}
      /\ call' = [call EXCEPT ![t] = call'[t]] /\ call'[t] \in {"start", "task"}
      /\ transactionState' \in {"NOT_YET_STARTED", "STARTED"}
      /\ raced' \in BOOLEAN
      /\ UNCHANGED <<server, version, handle, queryLock, task, result, fieldCount,
                     delivered, statements, failed, seen, overlapped, faulted>>
  BY DEF IInv, TypeOK, Goto, serverVars, auxVars
<1> HIDE DEF TestState, SetState, Skip
<1>2. TypeOK'
  BY <1>1 DEF IInv, TypeOK
<1>3. Exclusion'
  BY <1>1 DEF IInv, TypeOK, Exclusion, Holding
<1>4. Quiet'
  BY <1>1 DEF IInv, TypeOK, Quiet
<1>5. ASSUME NEW u \in Threads PROVE ThreadInv(u)'
  <2>1. CASE u = t
    BY <1>1, <2>1 DEF IInv, TypeOK, ThreadInv, Receiving, Storing, Counting, Scanning,
                      Fresh, Delivered
  <2>2. CASE u # t
    <3>1. pc'[u] = pc[u] /\ Expected(u)' = Expected(u) /\ call'[u] = call[u]
      BY <1>1, <2>2 DEF IInv, TypeOK, Expected
    <3>2. \A w \in Threads : pc'[w] \in Holding \cup {"counting"} => pc[w] = pc'[w]
      BY <1>1 DEF IInv, TypeOK, Holding
    <3> QED
      BY <1>1, <3>1, <3>2 DEF IInv, ThreadInv, Receiving, Storing, Counting, Scanning,
                              Fresh, Delivered, Own
  <2> QED BY <2>1, <2>2
<1> QED BY <1>1, <1>2, <1>3, <1>4, <1>5 DEF IInv, FailsForACause

(***************************************************************************)
(* Between statements, and what other clients do.                          *)
(***************************************************************************)
LEMMA BeginPreserves == IInv /\ BeginStatement => IInv'
<1> SUFFICES ASSUME IInv, BeginStatement PROVE IInv'
  OBVIOUS
<1>1. /\ \A t \in Threads : pc[t] = "idle"
      /\ statements' \in 0..MaxStatements
      /\ pc' \in [Threads -> {"testing", "idle"}] /\ task' \in [Threads -> Tasks]
      /\ UNCHANGED <<server, version, handle, queryLock, transactionState, call, result,
                     fieldCount, delivered, failed, seen, raced, overlapped, faulted>>
  <2>1. PICK running \in SUBSET Threads \ {{}} :
          /\ pc' = [t \in Threads |-> IF t \in running THEN "testing" ELSE "idle"]
          /\ \E f \in [running -> Tasks] :
               task' = [t \in Threads |-> IF t \in running THEN f[t] ELSE Command]
    BY DEF BeginStatement
  <2>2. task' \in [Threads -> Tasks]
    <3>1. PICK f \in [running -> Tasks] :
            task' = [t \in Threads |-> IF t \in running THEN f[t] ELSE Command]
      BY <2>1
    <3> QED BY <3>1 DEF Tasks
  <2>3. statements' \in 0..MaxStatements
    BY ConstantsAssumption DEF BeginStatement, IInv, TypeOK
  <2> QED BY <2>1, <2>2, <2>3 DEF BeginStatement, serverVars, auxVars
<1>2. TypeOK'
  BY <1>1 DEF IInv, TypeOK
<1>3. Exclusion' /\ Quiet'
  BY <1>1 DEF IInv, Exclusion, Quiet, Holding
<1>4. \A t \in Threads : ThreadInv(t)'
  BY <1>1 DEF IInv, ThreadInv, Receiving, Storing, Counting, Scanning, Fresh, Delivered
<1> QED BY <1>1, <1>2, <1>3, <1>4 DEF IInv, FailsForACause

LEMMA EndPreserves == IInv /\ EndStatement => IInv'
<1> SUFFICES ASSUME IInv, EndStatement PROVE IInv'
  OBVIOUS
<1>1. /\ \A t \in Threads : pc[t] \in {"idle", "done"}
      /\ pc' = [t \in Threads |-> "idle"]
      /\ result' = [t \in Threads |-> NoReply]
      /\ fieldCount' = [t \in Threads |-> 0]
      /\ delivered' = [t \in Threads |-> NoReply]
      /\ UNCHANGED <<server, version, handle, queryLock, transactionState, task, call,
                     statements, failed, seen, raced, overlapped, faulted>>
  BY DEF EndStatement, serverVars, auxVars
<1>2. TypeOK'
  BY <1>1 DEF IInv, TypeOK, Tasks, Command
<1>3. Exclusion' /\ Quiet'
  BY <1>1 DEF IInv, Exclusion, Quiet, Holding
<1>4. \A t \in Threads : ThreadInv(t)'
  BY <1>1 DEF ThreadInv, Receiving, Storing, Counting, Scanning, Fresh, Delivered
<1> QED BY <1>1, <1>2, <1>3, <1>4 DEF IInv, FailsForACause

\* A commit elsewhere, and a step that changes nothing.
LEMMA OthersPreserve ==
  ASSUME IInv, version' \in Versions,
         UNCHANGED <<server, handle, queryLock, transactionState, pc, task, call, result,
                     fieldCount, delivered, statements, failed,
                     seen, raced, overlapped, faulted>>
  PROVE  IInv'
<1>1. TypeOK'
  BY DEF IInv, TypeOK
<1>2. Exclusion' /\ Quiet'
  BY DEF IInv, Exclusion, Quiet
<1>3. \A t \in Threads : ThreadInv(t)'
  BY DEF IInv, ThreadInv, Receiving, Storing, Counting, Scanning, Fresh, Delivered, Own, Expected
<1> QED BY <1>1, <1>2, <1>3 DEF IInv, FailsForACause

(***************************************************************************)
(* A command is only sent when no thread holds the lock, so that nothing   *)
(* is left on the handle.                                                  *)
(***************************************************************************)
LEMMA FreeIsQuiet ==
  ASSUME IInv, queryLock = NoThread
  PROVE  /\ \A u \in Threads : pc[u] \notin Holding
         /\ handle.replies = <<>> /\ handle.current = NoReply
<1>1. \A u \in Threads : pc[u] \notin Holding
  BY ConstantsAssumption DEF IInv, Exclusion
<1> QED BY <1>1 DEF IInv, Quiet, Holding

LEMMA AnswerIsReply ==
  ASSUME IInv, NEW t \in Threads, NEW error \in BOOLEAN
  PROVE  /\ Answer(t, error) \in Reply
         /\ Answer(t, error).to = t /\ Answer(t, error).statement = statements
         /\ Answer(t, error).columns = Expected(t) /\ Answer(t, error).error = error
<1>1. Expected(t) \in Tasks
  BY DEF IInv, TypeOK, Expected, Tasks
<1>2. (IF server.inTxn /\ server.snapshot # Unset THEN server.snapshot ELSE version) \in Versions
  BY DEF IInv, TypeOK
<1>3. statements \in Nat
  BY ConstantsAssumption DEF IInv, TypeOK
<1> QED BY <1>1, <1>2, <1>3 DEF Answer, Reply

LEMMA SendPreserves == ASSUME IInv, NEW t \in Threads, Send(t) PROVE IInv'
<1>1. /\ pc[t] = "sending" /\ queryLock = NoThread
      /\ UNCHANGED <<version, transactionState, task, call, result, fieldCount,
                     delivered, statements, seen, raced>>
  BY DEF Send
<1>2. /\ \A u \in Threads : pc[u] \notin Holding
      /\ handle.replies = <<>> /\ handle.current = NoReply
  BY <1>1, FreeIsQuiet
<1>3. \A u \in Threads : Expected(u)' = Expected(u)
  BY <1>1 DEF Expected
<1>4. CASE server.open /\ ~OutOfSync
  <2>1. /\ queryLock' = t /\ pc' = [pc EXCEPT ![t] = "receiving"] /\ failed' = failed
        /\ overlapped' = (overlapped \/ \E u \in Threads \ {t} : pc[u] = "counting")
    BY <1>4 DEF Send, Goto
  <2>2. PICK error \in BOOLEAN :
          /\ handle' = [handle EXCEPT !.replies = Append(@, Answer(t, error)), !.fieldCount = 0]
          /\ error => faulted'
          /\ faulted => faulted'
          /\ faulted' \in BOOLEAN
          /\ Serve(t) \/ server' = server
    <3>1. CASE handle' = [handle EXCEPT !.replies = Append(@, Answer(t, FALSE)), !.fieldCount = 0]
               /\ Serve(t) /\ UNCHANGED faulted
      BY <3>1 DEF IInv, TypeOK
    <3>2. CASE handle' = [handle EXCEPT !.replies = Append(@, Answer(t, TRUE)), !.fieldCount = 0]
               /\ faulted' = TRUE /\ UNCHANGED server
      BY <3>2
    <3> QED BY <1>4, <3>1, <3>2 DEF Send
  <2> DEFINE answer == Answer(t, error)
  <2>3. /\ answer \in Reply
        /\ answer.to = t /\ answer.statement = statements
        /\ answer.columns = Expected(t) /\ answer.error = error
    BY AnswerIsReply
  <2> HIDE DEF answer
  <2>4. /\ handle'.replies = <<answer>> /\ handle'.current = NoReply
        /\ handle' \in [replies : Seq(Reply), current : Reply \cup {NoReply}, fieldCount : Tasks]
    <3>1. handle' = [handle EXCEPT !.replies = <<answer>>, !.fieldCount = 0]
      BY <1>2, <2>2, <2>3, AppendProperties DEF answer, IInv, TypeOK
    <3>2. <<answer>> \in Seq(Reply) /\ 0 \in Tasks
      BY <2>3 DEF Tasks, Command
    <3>3. handle \in [replies : Seq(Reply), current : Reply \cup {NoReply}, fieldCount : Tasks]
      BY DEF IInv, TypeOK
    <3> QED BY <1>2, <3>1, <3>2, <3>3
  <2>5. /\ server' \in [open : BOOLEAN, inTxn : BOOLEAN, snapshot : Versions \cup {Unset}]
        /\ server'.open
    BY <1>4, <2>2 DEF Serve, IInv, TypeOK
  <2>6. overlapped' \in BOOLEAN /\ (overlapped => overlapped')
    BY <2>1 DEF IInv, TypeOK
  <2>7. TypeOK'
    BY <1>1, <2>1, <2>2, <2>4, <2>5, <2>6 DEF IInv, TypeOK
  <2>8. Exclusion'
    BY <1>2, <2>1 DEF IInv, TypeOK, Exclusion, Holding
  <2>9. Quiet'
    BY <2>1, <2>4 DEF IInv, TypeOK, Quiet
  <2>10. ASSUME NEW u \in Threads PROVE ThreadInv(u)'
    <3>1. CASE u = t
      <4>1. pc'[t] = "receiving"
        BY <2>1 DEF IInv, TypeOK
      <4>2. Receiving(t)'
        <5>1. Head(handle'.replies) = answer
          BY <2>3, <2>4
        <5> QED BY <1>1, <1>3, <2>2, <2>3, <2>4, <5>1 DEF Receiving
      <4>3. delivered'[t] = NoReply
        BY <1>1 DEF IInv, ThreadInv, Fresh
      <4> QED
        BY <3>1, <4>1, <4>2, <4>3 DEF ThreadInv, Storing, Counting, Scanning, Fresh, Delivered
    <3>2. CASE u # t
      <4>1. pc'[u] = pc[u] /\ pc[u] \notin Holding
        BY <1>2, <2>1, <3>2 DEF IInv, TypeOK
      <4>2. pc[u] = "counting" => overlapped'
        BY <2>1, <3>2
      <4>3. ThreadInv(u)
        BY DEF IInv
      <4> QED
        BY <1>1, <1>3, <2>2, <2>6, <4>1, <4>2, <4>3
        DEF ThreadInv, Receiving, Storing, Counting, Scanning, Fresh, Delivered, Own, Holding
    <3> QED BY <3>1, <3>2
  <2> QED
    BY <2>1, <2>2, <2>5, <2>6, <2>7, <2>8, <2>9, <2>10 DEF IInv, FailsForACause
<1>5. CASE ~(server.open /\ ~OutOfSync)
  <2>1. /\ pc' = [pc EXCEPT ![t] = "done"] /\ failed' = TRUE
        /\ UNCHANGED <<server, handle, queryLock, overlapped, faulted>>
    BY <1>5 DEF Send, Raise, Goto
  <2>2. faulted
    BY <1>2, <1>5 DEF OutOfSync, IInv
  <2>3. TypeOK'
    BY <1>1, <2>1 DEF IInv, TypeOK
  <2>4. Exclusion' /\ Quiet'
    BY <1>1, <1>2, <2>1 DEF IInv, TypeOK, Exclusion, Quiet, Holding
  <2>5. ASSUME NEW u \in Threads PROVE ThreadInv(u)'
    <3>1. /\ ThreadInv(u)
          /\ pc'[u] = pc[u] \/ (u = t /\ pc'[u] = "done")
          /\ \A w \in Threads : pc'[w] = pc[w] \/ pc'[w] = "done"
      BY <2>1 DEF IInv, TypeOK
    <3>2. u = t => delivered[u] = NoReply
      BY <1>1, <3>1 DEF ThreadInv, Fresh
    <3> QED
      BY <1>1, <1>2, <1>3, <2>1, <2>2, <3>1, <3>2
      DEF ThreadInv, Receiving, Storing, Counting, Scanning, Fresh, Delivered, Own, Holding
  <2> QED BY <2>1, <2>2, <2>3, <2>4, <2>5 DEF IInv, FailsForACause
<1> QED BY <1>4, <1>5

(***************************************************************************)
(* While a thread holds the lock, a thread that has not read its field     *)
(* count yet has been overtaken.                                           *)
(***************************************************************************)
LEMMA HolderOvertakes ==
  ASSUME IInv, NEW t \in Threads, pc[t] \in Holding
  PROVE  /\ queryLock = t
         /\ \A u \in Threads \ {t} : pc[u] \notin Holding
         /\ \A u \in Threads \ {t} : pc[u] = "counting" => overlapped
<1>1. queryLock = t
  BY DEF IInv, Exclusion
<1>2. \A u \in Threads \ {t} : pc[u] \notin Holding
  BY <1>1 DEF IInv, Exclusion
<1>3. ASSUME NEW u \in Threads \ {t}, pc[u] = "counting" PROVE overlapped
  BY <1>3 DEF IInv, ThreadInv, Counting
<1> QED BY <1>1, <1>2, <1>3

LEMMA ReceivePreserves == ASSUME IInv, NEW t \in Threads, Receive(t) PROVE IInv'
<1> DEFINE r == Head(handle.replies)
<1>1. /\ pc[t] = "receiving"
      /\ UNCHANGED <<version, transactionState, task, call, result, fieldCount,
                     delivered, statements, seen, raced, overlapped>>
  BY DEF Receive
<1>2. /\ queryLock = t
      /\ \A u \in Threads \ {t} : pc[u] \notin Holding
      /\ \A u \in Threads \ {t} : pc[u] = "counting" => overlapped
  BY <1>1, HolderOvertakes DEF Holding
<1>3. /\ handle.replies = <<r>>
      /\ r.to = t /\ r.statement = statements /\ r.columns = Expected(t)
      /\ r.error => faulted
  BY <1>1 DEF IInv, ThreadInv, Receiving
<1>4. r \in Reply /\ Tail(handle.replies) = <<>>
  <2>1. handle.replies \in Seq(Reply) /\ handle.replies # <<>>
    BY <1>1, <1>3 DEF IInv, TypeOK, Receive
  <2>2. r \in Reply
    BY <2>1, HeadTailProperties
  <2>3. Tail(handle.replies) = <<>>
    <3> HIDE DEF r
    <3> QED BY <1>3, <2>2
  <2> QED BY <2>2, <2>3
<1>5. /\ handle \in [replies : Seq(Reply), current : Reply \cup {NoReply}, fieldCount : Tasks]
      /\ <<>> \in Seq(Reply) /\ r.columns \in Tasks /\ handle.current = NoReply
  BY <1>1, <1>2, <1>4, NoReplyOrReply DEF IInv, TypeOK, Quiet, Holding
<1>6. \A u \in Threads : Expected(u)' = Expected(u)
  BY <1>1 DEF Expected
<1>7. CASE /\ ~r.error
           /\ handle' = [handle EXCEPT !.replies = Tail(@), !.fieldCount = r.columns,
                           !.current = IF r.columns = Command THEN NoReply ELSE r]
           /\ Goto(t, "storing")
           /\ UNCHANGED <<server, queryLock, failed, faulted>>
  <2>1. /\ handle'.replies = <<>> /\ handle'.fieldCount = Expected(t)
        /\ handle'.current = IF r.columns = Command THEN NoReply ELSE r
        /\ handle' \in [replies : Seq(Reply), current : Reply \cup {NoReply}, fieldCount : Tasks]
    <3> HIDE DEF r
    <3> QED BY <1>3, <1>4, <1>5, <1>7
  <2>2. /\ pc' = [pc EXCEPT ![t] = "storing"] /\ pc'[t] = "storing"
        /\ UNCHANGED <<server, queryLock, failed, faulted>>
    BY <1>7 DEF Goto, IInv, TypeOK
  <2> HIDE DEF r
  <2>3. TypeOK'
    BY <1>1, <2>1, <2>2 DEF IInv, TypeOK
  <2>4. Exclusion'
    BY <1>2, <2>2 DEF IInv, TypeOK, Exclusion, Holding
  <2>5. Quiet'
    BY <2>1, <2>2 DEF Quiet
  <2>6. ASSUME NEW u \in Threads PROVE ThreadInv(u)'
    <3>1. CASE u = t
      <4>1. Storing(t)'
        BY <1>1, <1>3, <1>6, <2>1, <2>2 DEF Storing, Own, NoReply
      <4>2. delivered'[t] = NoReply
        BY <1>1 DEF IInv, ThreadInv, Fresh
      <4> QED
        BY <2>2, <3>1, <4>1, <4>2 DEF ThreadInv, Receiving, Counting, Scanning, Fresh, Delivered
    <3>2. CASE u # t
      <4>1. /\ pc'[u] = pc[u] /\ pc[u] \notin Holding /\ ThreadInv(u)
            /\ pc[u] = "counting" => overlapped
        BY <1>2, <2>2, <3>2 DEF IInv, TypeOK
      <4> QED
        BY <1>1, <1>6, <2>2, <4>1
        DEF ThreadInv, Receiving, Storing, Counting, Scanning, Fresh, Delivered, Own, Holding
    <3> QED BY <3>1, <3>2
  <2> QED BY <1>1, <2>2, <2>3, <2>4, <2>5, <2>6 DEF IInv, FailsForACause
<1>8. ASSUME /\ handle'.replies = <<>> /\ handle'.current = NoReply
             /\ handle' \in [replies : Seq(Reply), current : Reply \cup {NoReply}, fieldCount : Tasks]
             /\ queryLock' = NoThread
             /\ Raise(t)
             /\ server' \in [open : BOOLEAN, inTxn : BOOLEAN, snapshot : Versions \cup {Unset}]
             /\ faulted' = TRUE
      PROVE  IInv'
  <2>1. pc' = [pc EXCEPT ![t] = "done"] /\ pc'[t] = "done" /\ failed' = TRUE
    BY <1>8 DEF Raise, Goto, IInv, TypeOK
  <2> HIDE DEF r
  <2>2. TypeOK'
    BY <1>1, <1>8, <2>1 DEF IInv, TypeOK
  <2>3. Exclusion'
    BY <1>2, <1>8, <2>1, ConstantsAssumption DEF IInv, TypeOK, Exclusion, Holding
  <2>4. Quiet'
    BY <1>8, <2>1 DEF Quiet
  <2>5. ASSUME NEW u \in Threads PROVE ThreadInv(u)'
    <3>1. CASE u = t
      <4>1. delivered'[t] = NoReply
        BY <1>1 DEF IInv, ThreadInv, Fresh
      <4> QED
        BY <2>1, <3>1, <4>1
        DEF ThreadInv, Receiving, Storing, Counting, Scanning, Fresh, Delivered
    <3>2. CASE u # t
      <4>1. /\ pc'[u] = pc[u] /\ pc[u] \notin Holding /\ ThreadInv(u)
            /\ pc[u] = "counting" => overlapped
        BY <1>2, <2>1, <3>2 DEF IInv, TypeOK
      <4> QED
        BY <1>1, <1>6, <1>8, <4>1
        DEF ThreadInv, Receiving, Storing, Counting, Scanning, Fresh, Delivered, Own, Holding
    <3> QED BY <3>1, <3>2
  <2> QED BY <1>8, <2>1, <2>2, <2>3, <2>4, <2>5 DEF IInv, FailsForACause
<1>9. CASE /\ r.error
           /\ handle' = [handle EXCEPT !.replies = Tail(@)]
           /\ queryLock' = NoThread
           /\ Raise(t)
           /\ UNCHANGED <<server, faulted>>
  <2>1. /\ handle'.replies = <<>> /\ handle'.current = NoReply
        /\ handle' \in [replies : Seq(Reply), current : Reply \cup {NoReply}, fieldCount : Tasks]
    <3> HIDE DEF r
    <3> QED BY <1>4, <1>5, <1>9
  <2>2. faulted' = TRUE
    BY <1>3, <1>9, Zenon DEF IInv, TypeOK
  <2>3. server' \in [open : BOOLEAN, inTxn : BOOLEAN, snapshot : Versions \cup {Unset}]
    BY <1>9 DEF IInv, TypeOK
  <2> QED BY <1>8, <1>9, <2>1, <2>2, <2>3
<1>10. CASE /\ "lose" \in Faults
            /\ handle' = [handle EXCEPT !.replies = <<>>]
            /\ queryLock' = NoThread
            /\ server' = [open |-> FALSE, inTxn |-> FALSE, snapshot |-> Unset]
            /\ faulted' = TRUE
            /\ Raise(t)
  <2>1. /\ handle'.replies = <<>> /\ handle'.current = NoReply
        /\ handle' \in [replies : Seq(Reply), current : Reply \cup {NoReply}, fieldCount : Tasks]
    BY <1>5, <1>10
  <2>2. server' \in [open : BOOLEAN, inTxn : BOOLEAN, snapshot : Versions \cup {Unset}]
    BY <1>10
  <2> QED BY <1>8, <1>10, <2>1, <2>2
<1> QED BY <1>7, <1>9, <1>10 DEF Receive

LEMMA StorePreserves == ASSUME IInv, NEW t \in Threads, Store(t) PROVE IInv'
<1>1. /\ pc[t] = "storing" /\ queryLock' = NoThread
      /\ handle' = [handle EXCEPT !.current = NoReply]
      /\ pc' = [pc EXCEPT ![t] = "counting"]
      /\ UNCHANGED <<version, transactionState, task, call, fieldCount, delivered,
                     statements, failed, seen, raced, overlapped>>
  BY DEF Store, Goto
<1>2. PICK got \in Reply \cup {NoReply} :
        /\ result' = [result EXCEPT ![t] = got]
        /\ \/ got = handle.current /\ UNCHANGED <<server, faulted>>
           \/ /\ got = NoReply /\ faulted' = TRUE
              /\ server' = [open |-> FALSE, inTxn |-> FALSE, snapshot |-> Unset]
  BY DEF Store, IInv, TypeOK
<1>3. /\ \A u \in Threads \ {t} : pc[u] \notin Holding
      /\ \A u \in Threads \ {t} : pc[u] = "counting" => overlapped
  BY <1>1, HolderOvertakes DEF Holding
<1>4. /\ Own(t, handle.current) /\ handle.fieldCount = Expected(t)
      /\ handle.current = NoReply => Expected(t) = Command
  BY <1>1 DEF IInv, ThreadInv, Storing
<1>5. /\ server' \in [open : BOOLEAN, inTxn : BOOLEAN, snapshot : Versions \cup {Unset}]
      /\ faulted' \in BOOLEAN /\ (faulted => faulted') /\ (~faulted' => server' = server)
  <2>1. /\ server \in [open : BOOLEAN, inTxn : BOOLEAN, snapshot : Versions \cup {Unset}]
        /\ faulted \in BOOLEAN
    BY DEF IInv, TypeOK
  <2>2. CASE UNCHANGED <<server, faulted>>
    BY <2>1, <2>2
  <2>3. CASE /\ faulted' = TRUE
             /\ server' = [open |-> FALSE, inTxn |-> FALSE, snapshot |-> Unset]
    BY <2>3
  <2> QED BY <1>2, <2>2, <2>3
<1>6. /\ handle' \in [replies : Seq(Reply), current : Reply \cup {NoReply}, fieldCount : Tasks]
      /\ handle'.replies = handle.replies /\ handle'.fieldCount = handle.fieldCount
      /\ handle'.current = NoReply
  BY <1>1 DEF IInv, TypeOK
<1>7. TypeOK'
  <2>1. /\ result' \in [Threads -> Reply \cup {NoReply}]
        /\ pc' \in [Threads -> {"idle", "testing", "setting", "sending", "receiving",
                                "storing", "counting", "scanning", "done"}]
    BY <1>1, <1>2 DEF IInv, TypeOK
  <2> QED BY <1>1, <1>5, <1>6, <2>1 DEF IInv, TypeOK
<1>8. Exclusion'
  BY <1>1, <1>3, ConstantsAssumption DEF IInv, TypeOK, Exclusion, Holding
<1>9. Quiet'
  BY <1>1, <1>3, <1>6 DEF IInv, TypeOK, Quiet, Holding
<1>10. \A u \in Threads : Expected(u)' = Expected(u)
  BY <1>1 DEF Expected
<1>11. ASSUME NEW u \in Threads PROVE ThreadInv(u)'
  <2>1. CASE u = t
    <3>1. pc'[t] = "counting" /\ result'[t] = got
      BY <1>1, <1>2 DEF IInv, TypeOK
    <3>2. Own(t, got)' /\ (~faulted' /\ got = NoReply => Expected(t) = Command)
      BY <1>1, <1>2, <1>4, <1>10 DEF Own
    <3>3. ~overlapped' => \A w \in Threads \ {t} : pc'[w] \notin Holding \cup {"counting"}
      BY <1>1, <1>3 DEF IInv, TypeOK
    <3>4. Counting(t)'
      BY <1>4, <1>6, <1>10, <3>1, <3>2, <3>3 DEF Counting, Own
    <3>5. delivered'[t] = NoReply
      BY <1>1 DEF IInv, ThreadInv, Fresh
    <3> QED
      BY <2>1, <3>1, <3>4, <3>5 DEF ThreadInv, Receiving, Storing, Scanning, Fresh, Delivered
  <2>2. CASE u # t
    <3>1. /\ pc'[u] = pc[u] /\ pc[u] \notin Holding /\ ThreadInv(u)
          /\ pc[u] = "counting" => overlapped
          /\ result'[u] = result[u]
      BY <1>1, <1>2, <1>3, <2>2 DEF IInv, TypeOK
    <3> QED
      BY <1>1, <1>5, <1>10, <3>1
      DEF ThreadInv, Receiving, Storing, Counting, Scanning, Fresh, Delivered, Own, Holding
  <2> QED BY <2>1, <2>2
<1> QED BY <1>1, <1>5, <1>7, <1>8, <1>9, <1>11 DEF IInv, FailsForACause

LEMMA CountPreserves == ASSUME IInv, NEW t \in Threads, ReadFieldCount(t) PROVE IInv'
<1>1. /\ pc[t] = "counting"
      /\ fieldCount' = [fieldCount EXCEPT ![t] = handle.fieldCount]
      /\ UNCHANGED <<server, version, handle, queryLock, transactionState, task, result,
                     delivered, statements, seen, raced, overlapped, faulted>>
  BY DEF ReadFieldCount, serverVars, auxVars
<1>2. /\ Own(t, result[t])
      /\ ~faulted /\ result[t] = NoReply => Expected(t) = Command
      /\ ~overlapped => handle.fieldCount = Expected(t)
      /\ delivered[t] = NoReply
  BY <1>1 DEF IInv, ThreadInv, Counting, Fresh
<1>3. /\ fieldCount' \in [Threads -> Tasks] /\ fieldCount'[t] = handle.fieldCount
      /\ \A u \in Threads \ {t} : fieldCount'[u] = fieldCount[u]
  BY <1>1 DEF IInv, TypeOK
<1>4. PICK where \in {"sending", "scanning", "done"} :
        /\ pc' = [pc EXCEPT ![t] = where]
        /\ call' = [call EXCEPT ![t] = call'[t]] /\ call'[t] \in {"start", "task"}
        /\ failed' \in BOOLEAN
        /\ failed' => failed \/ faulted \/ overlapped
        /\ where = "scanning" => call[t] = "task" /\ call'[t] = "task" /\ task[t] # Command
  <2>1. CASE result[t] = NoReply /\ handle.fieldCount # 0
    <3>1. faulted \/ overlapped
      BY <1>2, <2>1 DEF Command
    <3> QED
      BY <1>1, <2>1, <3>1 DEF ReadFieldCount, Raise, Goto, IInv, TypeOK
  <2>2. CASE ~(result[t] = NoReply /\ handle.fieldCount # 0)
    BY <1>1, <2>2 DEF ReadFieldCount, Goto, IInv, TypeOK
  <2> QED BY <2>1, <2>2
<1>5. TypeOK'
  <2>1. /\ call' \in [Threads -> {"start", "task"}]
        /\ pc' \in [Threads -> {"idle", "testing", "setting", "sending", "receiving",
                                "storing", "counting", "scanning", "done"}]
    BY <1>4 DEF IInv, TypeOK
  <2> QED BY <1>1, <1>3, <1>4, <2>1 DEF IInv, TypeOK
<1>6. Exclusion' /\ Quiet'
  BY <1>1, <1>4 DEF IInv, TypeOK, Exclusion, Quiet, Holding
<1>7. ASSUME NEW u \in Threads PROVE ThreadInv(u)'
  <2>1. CASE u = t
    <3>1. pc'[t] = where
      BY <1>4 DEF IInv, TypeOK
    <3>2. Scanning(t)'
      BY <1>1, <1>2, <1>3, <1>4, <3>1 DEF Scanning, Own, Expected
    <3> QED
      BY <1>1, <1>2, <2>1, <3>1, <3>2
      DEF ThreadInv, Receiving, Storing, Counting, Fresh, Delivered
  <2>2. CASE u # t
    <3>1. /\ pc'[u] = pc[u] /\ call'[u] = call[u] /\ Expected(u)' = Expected(u)
          /\ fieldCount'[u] = fieldCount[u] /\ ThreadInv(u)
      BY <1>1, <1>3, <1>4, <2>2 DEF IInv, TypeOK, Expected
    <3>2. \A w \in Threads : pc'[w] \in Holding \cup {"counting"} => pc[w] = pc'[w]
      BY <1>4 DEF IInv, TypeOK, Holding
    <3> QED
      BY <1>1, <3>1, <3>2
      DEF ThreadInv, Receiving, Storing, Counting, Scanning, Fresh, Delivered, Own
  <2> QED BY <2>1, <2>2
<1> QED BY <1>1, <1>4, <1>5, <1>6, <1>7 DEF IInv, FailsForACause

LEMMA ScanPreserves == ASSUME IInv, NEW t \in Threads, Scan(t) PROVE IInv'
<1>1. /\ pc[t] = "scanning" /\ pc' = [pc EXCEPT ![t] = "done"]
      /\ UNCHANGED <<server, version, handle, queryLock, transactionState, task, call,
                     result, fieldCount, statements, raced, overlapped, faulted>>
  BY DEF Scan, Raise, Goto, serverVars
<1>2. /\ Own(t, result[t]) /\ Expected(t) = task[t]
      /\ ~faulted /\ ~overlapped => result[t] # NoReply /\ fieldCount[t] = task[t]
      /\ delivered[t] = NoReply
  BY <1>1 DEF IInv, ThreadInv, Scanning, Fresh, Expected
<1>3. task[t] \in Nat /\ fieldCount[t] \in Nat
  <2>1. Tasks \subseteq Nat
    BY ConstantsAssumption DEF Tasks, Command
  <2>2. task[t] \in Tasks /\ fieldCount[t] \in Tasks
    BY DEF IInv, TypeOK
  <2> QED BY <2>1, <2>2
<1>4. /\ delivered' \in [Threads -> Reply \cup {NoReply}] /\ seen' \subseteq Versions
      /\ \A u \in Threads \ {t} : delivered'[u] = delivered[u]
      /\ delivered'[t] # NoReply => delivered'[t] = result[t]
      /\ failed' \in BOOLEAN
      /\ failed' => failed \/ faulted \/ overlapped
  <2>1. CASE result[t] = NoReply \/ task[t] > fieldCount[t]
    <3>1. faulted \/ overlapped
      BY <1>2, <1>3, <2>1
    <3> QED BY <1>2, <2>1, <3>1 DEF Scan, Raise, IInv, TypeOK
  <2>2. CASE ~(result[t] = NoReply \/ task[t] > fieldCount[t])
    <3>1. result[t] \in Reply /\ result[t].version \in Versions
      BY <2>2, NoReplyOrReply DEF IInv, TypeOK
    <3> QED BY <2>2, <3>1 DEF Scan, IInv, TypeOK
  <2> QED BY <2>1, <2>2
<1>5. TypeOK'
  <2>1. pc' \in [Threads -> {"idle", "testing", "setting", "sending", "receiving",
                             "storing", "counting", "scanning", "done"}]
    BY <1>1 DEF IInv, TypeOK
  <2> QED BY <1>1, <1>4, <2>1 DEF IInv, TypeOK
<1>6. Exclusion' /\ Quiet'
  BY <1>1 DEF IInv, TypeOK, Exclusion, Quiet, Holding
<1>7. ASSUME NEW u \in Threads PROVE ThreadInv(u)'
  <2>1. CASE u = t
    <3>1. pc'[t] = "done"
      BY <1>1 DEF IInv, TypeOK
    <3>2. Delivered(t)'
      BY <1>1, <1>2, <1>4 DEF Delivered, Own
    <3> QED
      BY <2>1, <3>1, <3>2 DEF ThreadInv, Receiving, Storing, Counting, Scanning, Fresh
  <2>2. CASE u # t
    <3>1. /\ pc'[u] = pc[u] /\ delivered'[u] = delivered[u] /\ ThreadInv(u)
          /\ Expected(u)' = Expected(u)
      BY <1>1, <1>4, <2>2 DEF IInv, TypeOK, Expected
    <3>2. \A w \in Threads : pc'[w] \in Holding \cup {"counting"} => pc[w] = pc'[w]
      BY <1>1 DEF IInv, TypeOK, Holding
    <3> QED
      BY <1>1, <3>1, <3>2
      DEF ThreadInv, Receiving, Storing, Counting, Scanning, Fresh, Delivered, Own
  <2> QED BY <2>1, <2>2
<1> QED BY <1>1, <1>4, <1>5, <1>6, <1>7 DEF IInv, FailsForACause
-----------------------------------------------------------------------------
THEOREM NextPreserves == IInv /\ [Next]_vars => IInv'
<1> SUFFICES ASSUME IInv, [Next]_vars PROVE IInv'
  OBVIOUS
<1>1. CASE BeginStatement
  BY <1>1, BeginPreserves
<1>2. CASE EndStatement
  BY <1>2, EndPreserves
<1>3. CASE OtherCommit
  <2>1. version' \in Versions
    BY <1>3, ConstantsAssumption DEF OtherCommit, IInv, TypeOK, Versions
  <2> QED BY <1>3, <2>1, OthersPreserve DEF OtherCommit, threadVars, auxVars
<1>4. ASSUME NEW t \in Threads, Thread(t) PROVE IInv'
  BY <1>4, TestPreserves, SendPreserves, ReceivePreserves, StorePreserves,
     CountPreserves, ScanPreserves DEF Thread
<1>5. CASE UNCHANGED vars
  <2>1. version' \in Versions
    BY <1>5 DEF vars, IInv, TypeOK
  <2> QED BY <1>5, <2>1, OthersPreserve DEF vars
<1> QED BY <1>1, <1>2, <1>3, <1>4, <1>5 DEF Next

(***************************************************************************)
(* The invariant holds for any number of threads, statements and columns.  *)
(***************************************************************************)
THEOREM WorkersInvariant == Spec => []IInv
<1> QED BY InitIInv, NextPreserves, PTL DEF Spec

(***************************************************************************)
(* Every variable of the connection and its threads keeps its type.        *)
(***************************************************************************)
THEOREM WorkersTyped == Spec => []TypeOK
<1>1. IInv => TypeOK
  BY DEF IInv
<1> QED BY <1>1, WorkersInvariant, PTL

(***************************************************************************)
(* However many threads share the connection, whatever fails and whatever  *)
(* is read without the lock: rows reach the scan whose command they        *)
(* answer.                                                                 *)
(***************************************************************************)
THEOREM ResultsBelong == Spec => []ResultsAreOwn
<1>1. IInv => ResultsAreOwn
  BY DEF IInv, ThreadInv, Delivered, ResultsAreOwn
<1> QED BY <1>1, WorkersInvariant, PTL

(***************************************************************************)
(* A statement fails on its own only if a command was sent while another   *)
(* thread had not read its field count.                                    *)
(***************************************************************************)
THEOREM FailuresHaveCauses == Spec => []FailsForACause
<1>1. IInv => FailsForACause
  BY DEF IInv
<1> QED BY <1>1, WorkersInvariant, PTL
-----------------------------------------------------------------------------
(***************************************************************************)
(* The scans of one transaction, on any number of worker threads and in    *)
(* any number of statements, show one state of the database, as long as no *)
(* thread asks for the state of the transaction while another starts it.   *)
(***************************************************************************)
\* START TRANSACTION has not been sent yet.
Before == transactionState = "NOT_YET_STARTED" \/ \E u \in Threads : Starting(u)

\* Until then nothing else was sent, and one thread at most is about to.
OneStarter ==
  /\ \A t \in Threads :
       /\ pc[t] = "setting" => call[t] = "start"
       /\ pc[t] = "sending" => transactionState = "STARTED"
  /\ \A t, u \in Threads : Starting(t) /\ Starting(u) => t = u
  /\ Before =>
       /\ seen = {}
       /\ \A t \in Threads : Starting(t) \/ pc[t] \in {"idle", "testing"}

\* A command was rejected, and the thread that sent it has yet to be told.
Rejected == handle.replies # <<>> /\ Head(handle.replies).error

\* From then on the session is in that transaction, while it is open.
InTransaction == ~Before /\ server.open => server.inTxn \/ Rejected

(***************************************************************************)
(* The states of the database that the scans have shown, or are going to:  *)
(* a result is on its way, on the handle, in the hands of a thread.        *)
(***************************************************************************)
Pending(w) ==
  \E t \in Threads : /\ pc[t] = "receiving"
                     /\ Head(handle.replies).columns # Command
                     /\ ~Head(handle.replies).error
                     /\ Head(handle.replies).version = w

InHand(w) ==
  \E t \in Threads : /\ pc[t] \in {"counting", "scanning"}
                     /\ result[t] # NoReply /\ result[t].version = w

OnHandle(w) == handle.current # NoReply /\ handle.current.version = w

Shown == {w \in Versions : w \in seen \/ Pending(w) \/ OnHandle(w) \/ InHand(w)}

\* They are the snapshot of the session, also after the session is lost.
Agree ==
  /\ \A v, w \in Shown : v = w
  /\ server.open => \A w \in Shown : w = server.snapshot

SnapInv == ~raced /\ ~failed => OneStarter /\ InTransaction /\ Agree
-----------------------------------------------------------------------------
LEMMA SnapInit == Init => SnapInv
<1> SUFFICES ASSUME Init PROVE OneStarter /\ InTransaction /\ Agree
  BY DEF SnapInv
<1>1. Shown = {}
  BY DEF Init, Shown, Pending, OnHandle, InHand
<1>2. Before
  BY DEF Init, Before
<1> QED
  BY <1>1, <1>2 DEF Init, OneStarter, InTransaction, Agree, Starting

\* What is shown can only become fewer states, and the snapshot stays.
LEMMA AgreeKept ==
  ASSUME Agree, Shown' \subseteq Shown,
         server'.open => server.open /\ server'.snapshot = server.snapshot
  PROVE  Agree'
BY DEF Agree

\* A step that sends nothing and starts nobody.
LEMMA StarterKept ==
  ASSUME IInv, OneStarter, NEW t \in Threads, UNCHANGED <<transactionState, seen>>,
         ~Starting(t), \A u \in Threads \ {t} : pc'[u] = pc[u] /\ call'[u] = call[u],
         ~Starting(t)', pc'[t] # "setting", pc'[t] = "sending" => transactionState = "STARTED",
         ~Before \/ pc'[t] \in {"idle", "testing"}
  PROVE  OneStarter' /\ Before' = Before
<1>1. \A u \in Threads : Starting(u)' = Starting(u)
  BY DEF Starting
<1>2. Before' = Before
  BY <1>1 DEF Before
<1> QED BY <1>1, <1>2 DEF OneStarter
-----------------------------------------------------------------------------
LEMMA BeginSnap ==
  ASSUME IInv, SnapInv, ~raced, ~failed, BeginStatement \/ EndStatement
  PROVE  OneStarter' /\ InTransaction' /\ Agree'
<1> USE DEF SnapInv
<1>1. /\ \A t \in Threads : pc[t] \in {"idle", "done"} /\ pc'[t] \in {"idle", "testing"}
      /\ UNCHANGED <<server, handle, transactionState, call, seen>>
  BY DEF BeginStatement, EndStatement, serverVars, auxVars
<1>2. \A t \in Threads : ~Starting(t) /\ ~Starting(t)'
  BY <1>1 DEF Starting
<1>3. Before' = Before
  BY <1>1, <1>2 DEF Before
<1>4. OneStarter'
  BY <1>1, <1>2, <1>3 DEF OneStarter
<1>5. InTransaction'
  BY <1>1, <1>3 DEF InTransaction, Rejected
<1>6. Shown' \subseteq Shown
  BY <1>1 DEF Shown, Pending, OnHandle, InHand
<1> QED BY <1>1, <1>4, <1>5, <1>6, AgreeKept

LEMMA TestSnap ==
  ASSUME IInv, SnapInv, NEW t \in Threads, TestState(t), ~raced', ~failed'
  PROVE  OneStarter' /\ InTransaction' /\ Agree'
<1>1. /\ pc[t] = "testing" /\ ~raced /\ ~failed
      /\ \A u \in Threads \ {t} : ~Starting(u) /\ pc'[u] = pc[u] /\ call'[u] = call[u]
      /\ pc'[t] = IF transactionState = "NOT_YET_STARTED" THEN "setting" ELSE "sending"
      /\ call'[t] = IF transactionState = "NOT_YET_STARTED" THEN "start" ELSE "task"
      /\ UNCHANGED <<server, handle, transactionState, result, seen>>
  BY DEF TestState, Goto, IInv, TypeOK, serverVars
<1>2. OneStarter /\ InTransaction /\ Agree
  BY <1>1 DEF SnapInv
<1>3. \A u \in Threads : ~Starting(u)
  BY <1>1 DEF Starting
<1>4. transactionState \in {"NOT_YET_STARTED", "STARTED"}
  BY DEF IInv, TypeOK
<1>5. \A u \in Threads : Starting(u)' <=> (u = t /\ transactionState = "NOT_YET_STARTED")
  BY <1>1, <1>3 DEF Starting
<1>6. Before' = Before
  BY <1>1, <1>3, <1>5 DEF Before
<1>7. OneStarter'
  BY <1>1, <1>2, <1>3, <1>4, <1>5, <1>6 DEF OneStarter, Before
<1>8. Shown' = Shown
  BY <1>1 DEF Shown, Pending, OnHandle, InHand
<1> QED BY <1>1, <1>2, <1>6, <1>7, <1>8, AgreeKept DEF InTransaction, Rejected

LEMMA SetSnap ==
  ASSUME IInv, SnapInv, NEW t \in Threads, SetState(t), ~raced', ~failed'
  PROVE  OneStarter' /\ InTransaction' /\ Agree'
<1>1. /\ pc[t] = "setting" /\ pc'[t] = "sending" /\ ~raced /\ ~failed
      /\ \A u \in Threads \ {t} : pc'[u] = pc[u]
      /\ transactionState' = "STARTED"
      /\ UNCHANGED <<server, handle, call, result, seen>>
  BY DEF SetState, Goto, IInv, TypeOK, serverVars, auxVars
<1>2. OneStarter /\ InTransaction /\ Agree
  BY <1>1 DEF SnapInv
<1>3. call[t] = "start"
  BY <1>1, <1>2 DEF OneStarter
<1>4. \A u \in Threads : Starting(u)' = Starting(u)
  BY <1>1, <1>3 DEF Starting
<1>5. Before /\ Before'
  BY <1>1, <1>3, <1>4 DEF Before, Starting
<1>6. OneStarter'
  BY <1>1, <1>2, <1>3, <1>4, <1>5 DEF OneStarter
<1>7. Shown' = Shown
  BY <1>1 DEF Shown, Pending, OnHandle, InHand
<1> QED BY <1>1, <1>2, <1>5, <1>6, <1>7, AgreeKept DEF InTransaction

\* The start of the transaction: nothing was shown, nothing is.
LEMMA SendStartSnap ==
  ASSUME IInv, OneStarter, NEW t \in Threads, Starting(t), Send(t), ~raced', ~failed'
  PROVE  OneStarter' /\ InTransaction' /\ Agree'
<1>1. /\ pc[t] = "sending" /\ queryLock = NoThread /\ server.open
      /\ UNCHANGED <<transactionState, call, result, seen>>
      /\ pc'[t] = "receiving" /\ \A u \in Threads \ {t} : pc'[u] = pc[u]
  BY DEF Send, Raise, Goto, IInv, TypeOK
<1>2. PICK error \in BOOLEAN :
        /\ handle' = [handle EXCEPT !.replies = Append(@, Answer(t, error)), !.fieldCount = 0]
        /\ error \/ Serve(t)
  BY DEF Send, Raise
<1>3. /\ Answer(t, error).columns = Command /\ Answer(t, error).error = error
      /\ handle.replies = <<>> /\ handle.current = NoReply
      /\ \A u \in Threads : pc[u] \notin Holding
      /\ call[t] = "start" /\ transactionState = "STARTED"
  BY <1>1, AnswerIsReply, FreeIsQuiet DEF Starting, Expected, OneStarter
<1>4. /\ handle'.replies = <<Answer(t, error)>> /\ handle'.current = NoReply
      /\ Head(handle'.replies) = Answer(t, error)
  <2>1. Append(handle.replies, Answer(t, error)) = <<Answer(t, error)>>
    BY <1>3, AnswerIsReply, AppendProperties
  <2> QED BY <1>2, <1>3, <2>1 DEF IInv, TypeOK
<1>5. seen = {} /\ \A u \in Threads \ {t} : pc[u] \in {"idle", "testing"}
  BY <1>1 DEF OneStarter, Before, Starting
<1>6. \A u \in Threads : ~Starting(u)'
  BY <1>1, <1>5 DEF Starting
<1>7. ~Before'
  BY <1>1, <1>3, <1>6 DEF Before
<1>8. OneStarter'
  BY <1>1, <1>5, <1>6, <1>7 DEF OneStarter
<1>9. InTransaction'
  <2>1. CASE error
    <3>1. handle'.replies # <<>> /\ Head(handle'.replies).error = TRUE
      <4>1. Answer(t, error).error = TRUE
        BY <1>3, <2>1
      <4> QED BY <1>4, <4>1
    <3> QED BY <3>1 DEF InTransaction, Rejected
  <2>2. CASE Serve(t)
    BY <1>3, <2>2 DEF Serve, InTransaction, IInv, TypeOK
  <2> QED BY <1>2, <2>1, <2>2
<1>10. Shown' = {}
  BY <1>1, <1>3, <1>4, <1>5 DEF Shown, Pending, OnHandle, InHand
<1> QED BY <1>8, <1>9, <1>10 DEF Agree

\* A command of the task: only in the transaction, so that a scan shows the
\* snapshot or takes it.
LEMMA SendTaskSnap ==
  ASSUME IInv, OneStarter, InTransaction, Agree, NEW t \in Threads, ~Starting(t), Send(t),
         ~raced', ~failed'
  PROVE  OneStarter' /\ InTransaction' /\ Agree'
<1>1. /\ pc[t] = "sending" /\ queryLock = NoThread /\ server.open
      /\ UNCHANGED <<version, transactionState, task, call, result, seen>>
      /\ pc'[t] = "receiving" /\ \A u \in Threads \ {t} : pc'[u] = pc[u]
  BY DEF Send, Raise, Goto, IInv, TypeOK
<1>2. PICK error \in BOOLEAN :
        /\ handle' = [handle EXCEPT !.replies = Append(@, Answer(t, error)), !.fieldCount = 0]
        /\ (~error /\ Serve(t)) \/ (error /\ server' = server)
  BY DEF Send, Raise
<1>3. /\ Answer(t, error) \in Reply /\ Answer(t, error).error = error
      /\ Answer(t, error).columns = task[t]
      /\ handle.replies = <<>> /\ handle.current = NoReply
      /\ \A u \in Threads : pc[u] \notin Holding
      /\ call[t] = "task"
  <2>1. call[t] = "task"
    BY <1>1 DEF Starting, IInv, TypeOK
  <2> QED BY <1>1, <2>1, AnswerIsReply, FreeIsQuiet DEF Expected
<1>4. /\ handle'.replies = <<Answer(t, error)>> /\ handle'.current = NoReply
      /\ Head(handle'.replies) = Answer(t, error)
  <2>1. Append(handle.replies, Answer(t, error)) = <<Answer(t, error)>>
    BY <1>3, AppendProperties
  <2> QED BY <1>2, <1>3, <2>1 DEF IInv, TypeOK
<1>5. ~Before
  BY <1>1 DEF OneStarter
<1>6. OneStarter' /\ ~Before'
  BY <1>1, <1>3, <1>5, StarterKept DEF Starting
<1>7. server.inTxn
  BY <1>1, <1>3, <1>5 DEF InTransaction, Rejected
<1>8. InTransaction' /\ server'.open
  BY <1>1, <1>2, <1>3, <1>7 DEF Serve, InTransaction, IInv, TypeOK
<1>9. Agree'
  <2> DEFINE new == Answer(t, error).version
  <2>1. \A w \in Shown' : w \in Shown \/ (~error /\ task[t] # Command /\ w = new)
    <3> SUFFICES ASSUME NEW w \in Versions,
                        w \in seen' \/ Pending(w)' \/ OnHandle(w)' \/ InHand(w)'
                 PROVE  w \in Shown \/ (~error /\ task[t] # Command /\ w = new)
      BY DEF Shown
    <3>1. CASE w \in seen'
      BY <1>1, <3>1 DEF Shown
    <3>2. CASE Pending(w)'
      BY <1>3, <1>4, <3>2 DEF Pending
    <3>3. CASE OnHandle(w)'
      BY <1>4, <3>3 DEF OnHandle
    <3>4. CASE InHand(w)'
      BY <1>1, <3>4 DEF InHand, Shown
    <3> QED BY <3>1, <3>2, <3>3, <3>4
  <2>2. CASE error \/ task[t] = Command
    <3>1. server' = server
      BY <1>2, <1>3, <2>2 DEF Serve
    <3>2. Shown' \subseteq Shown
      BY <2>1, <2>2
    <3> QED BY <3>1, <3>2, AgreeKept
  <2>3. CASE ~error /\ task[t] # Command
    <3>1. server'.snapshot = new
      BY <1>2, <1>3, <1>7, <2>3 DEF Serve, Answer, IInv, TypeOK
    <3>2. \A w \in Shown : w = new
      <4>1. \A w \in Shown : w = server.snapshot /\ w \in Versions
        BY <1>1 DEF Agree, Shown
      <4>2. CASE server.snapshot = Unset
        <5>1. Unset \notin Versions
          BY ConstantsAssumption DEF Unset, Versions
        <5> QED BY <4>1, <4>2, <5>1
      <4>3. CASE server.snapshot # Unset
        <5>1. new = server.snapshot
          BY <1>7, <4>3 DEF Answer
        <5> QED BY <4>1, <5>1
      <4> QED BY <4>2, <4>3
    <3> QED BY <2>1, <3>1, <3>2 DEF Agree
  <2> QED BY <2>2, <2>3
<1> QED BY <1>6, <1>8, <1>9

LEMMA SendSnap ==
  ASSUME IInv, SnapInv, NEW t \in Threads, Send(t), ~raced', ~failed'
  PROVE  OneStarter' /\ InTransaction' /\ Agree'
<1>1. ~raced /\ ~failed
  BY DEF Send, Raise
<1> QED BY <1>1, SendStartSnap, SendTaskSnap DEF SnapInv

LEMMA ReceiveSnap ==
  ASSUME IInv, SnapInv, NEW t \in Threads, Receive(t), ~raced', ~failed'
  PROVE  OneStarter' /\ InTransaction' /\ Agree'
<1> DEFINE r == Head(handle.replies)
<1>1. /\ pc[t] = "receiving" /\ ~raced /\ ~failed /\ ~r.error
      /\ handle' = [handle EXCEPT !.replies = Tail(@), !.fieldCount = r.columns,
                        !.current = IF r.columns = Command THEN NoReply ELSE r]
      /\ pc' = [pc EXCEPT ![t] = "storing"]
      /\ UNCHANGED <<server, transactionState, call, result, seen>>
  BY DEF Receive, Raise, Goto
<1>2. OneStarter /\ InTransaction /\ Agree
  BY <1>1 DEF SnapInv
<1>3. /\ pc'[t] = "storing" /\ \A u \in Threads \ {t} : pc'[u] = pc[u]
      /\ handle.replies = <<r>> /\ handle'.replies = <<>>
      /\ handle'.current = IF r.columns = Command THEN NoReply ELSE r
  <2>1. handle.replies = <<r>>
    BY <1>1 DEF IInv, ThreadInv, Receiving
  <2>2. r \in Reply
    BY <1>1, HeadTailProperties DEF IInv, TypeOK, Receive
  <2>3. Tail(handle.replies) = <<>>
    <3> HIDE DEF r
    <3> QED BY <2>1, <2>2
  <2> QED BY <1>1, <2>1, <2>3 DEF IInv, TypeOK
<1>4. ~Before
  BY <1>1, <1>2 DEF OneStarter, Starting
<1>5. OneStarter' /\ ~Before'
  BY <1>1, <1>2, <1>3, <1>4, StarterKept DEF Starting
<1>6. InTransaction'
  BY <1>1, <1>2, <1>3, <1>4 DEF InTransaction, Rejected
<1>7. \A u \in Threads : pc'[u] # "receiving"
  BY <1>1, <1>3 DEF IInv, Exclusion, Holding
<1>8. Shown' \subseteq Shown
  BY <1>1, <1>3, <1>7 DEF Shown, Pending, OnHandle, InHand
<1> QED BY <1>1, <1>2, <1>5, <1>6, <1>8, AgreeKept

LEMMA StoreSnap ==
  ASSUME IInv, SnapInv, NEW t \in Threads, Store(t), ~raced', ~failed'
  PROVE  OneStarter' /\ InTransaction' /\ Agree'
<1>1. /\ pc[t] = "storing" /\ ~raced /\ ~failed
      /\ pc'[t] = "counting" /\ \A u \in Threads \ {t} : pc'[u] = pc[u]
      /\ result'[t] \in {handle.current, NoReply}
      /\ \A u \in Threads \ {t} : result'[u] = result[u]
      /\ handle'.replies = handle.replies /\ handle'.current = NoReply
      /\ server' = server \/ ~server'.open
      /\ UNCHANGED <<transactionState, call, seen>>
  BY DEF Store, Goto, IInv, TypeOK
<1>2. OneStarter /\ InTransaction /\ Agree
  BY <1>1 DEF SnapInv
<1>3. ~Before
  BY <1>1, <1>2 DEF OneStarter, Starting
<1>4. OneStarter' /\ ~Before'
  BY <1>1, <1>2, <1>3, StarterKept DEF Starting
<1>5. InTransaction'
  BY <1>1, <1>2, <1>3 DEF InTransaction, Rejected
<1>6. Shown' \subseteq Shown
  BY <1>1 DEF Shown, Pending, OnHandle, InHand
<1> QED BY <1>1, <1>2, <1>4, <1>5, <1>6, AgreeKept

LEMMA CountSnap ==
  ASSUME IInv, SnapInv, NEW t \in Threads, ReadFieldCount(t), ~raced', ~failed'
  PROVE  OneStarter' /\ InTransaction' /\ Agree'
<1>1. /\ pc[t] = "counting" /\ ~raced /\ ~failed
      /\ pc'[t] \in {"sending", "done", "scanning"} /\ \A u \in Threads \ {t} : pc'[u] = pc[u]
      /\ call'[t] = "task" /\ \A u \in Threads \ {t} : call'[u] = call[u]
      /\ UNCHANGED <<server, handle, transactionState, result, seen>>
  BY DEF ReadFieldCount, Raise, Goto, IInv, TypeOK, serverVars, auxVars
<1>2. OneStarter /\ InTransaction /\ Agree
  BY <1>1 DEF SnapInv
<1>3. ~Before /\ transactionState = "STARTED"
  BY <1>1, <1>2 DEF OneStarter, Starting, Before, IInv, TypeOK
<1>4. OneStarter' /\ ~Before'
  BY <1>1, <1>2, <1>3, StarterKept DEF Starting
<1>5. InTransaction'
  BY <1>1, <1>2, <1>3 DEF InTransaction, Rejected
<1>6. Shown' \subseteq Shown
  BY <1>1 DEF Shown, Pending, OnHandle, InHand
<1> QED BY <1>1, <1>2, <1>4, <1>5, <1>6, AgreeKept

LEMMA ScanSnap ==
  ASSUME IInv, SnapInv, NEW t \in Threads, Scan(t), ~raced', ~failed'
  PROVE  OneStarter' /\ InTransaction' /\ Agree'
<1>1. /\ pc[t] = "scanning" /\ ~raced /\ ~failed /\ result[t] # NoReply
      /\ pc'[t] = "done" /\ \A u \in Threads \ {t} : pc'[u] = pc[u]
      /\ seen' = seen \cup {result[t].version}
      /\ UNCHANGED <<server, handle, transactionState, call, result>>
  BY DEF Scan, Raise, Goto, IInv, TypeOK, serverVars
<1>2. OneStarter /\ InTransaction /\ Agree
  BY <1>1 DEF SnapInv
<1>3. ~Before
  BY <1>1, <1>2 DEF OneStarter, Starting
<1>4. OneStarter' /\ ~Before'
  <2>1. \A u \in Threads : Starting(u)' = Starting(u)
    BY <1>1 DEF Starting
  <2> QED BY <1>1, <1>2, <1>3, <2>1 DEF OneStarter, Before
<1>5. InTransaction'
  BY <1>1, <1>2, <1>3 DEF InTransaction, Rejected
<1>6. Shown' \subseteq Shown
  BY <1>1 DEF Shown, Pending, OnHandle, InHand
<1> QED BY <1>1, <1>2, <1>4, <1>5, <1>6, AgreeKept

LEMMA SnapStep == IInv /\ SnapInv /\ [Next]_vars => SnapInv'
<1> SUFFICES ASSUME IInv, SnapInv, [Next]_vars, ~raced', ~failed'
             PROVE  OneStarter' /\ InTransaction' /\ Agree'
  BY DEF SnapInv
<1>1. CASE BeginStatement \/ EndStatement
  <2>1. ~raced /\ ~failed
    BY <1>1 DEF BeginStatement, EndStatement, auxVars
  <2> QED BY <1>1, <2>1, BeginSnap
<1>2. CASE OtherCommit \/ UNCHANGED vars
  <2>1. UNCHANGED <<server, handle, transactionState, pc, call, result, failed, seen, raced>>
    BY <1>2 DEF OtherCommit, vars, threadVars, auxVars
  <2>2. Before' = Before /\ \A t \in Threads : Starting(t)' = Starting(t)
    BY <2>1 DEF Before, Starting
  <2>3. Shown' = Shown
    BY <2>1 DEF Shown, Pending, OnHandle, InHand
  <2> QED
    BY <2>1, <2>2, <2>3, AgreeKept DEF SnapInv, OneStarter, InTransaction, Rejected
<1>3. ASSUME NEW t \in Threads, Thread(t)
      PROVE  OneStarter' /\ InTransaction' /\ Agree'
  <2>1. CASE Skip(t)
    BY <2>1 DEF Skip
  <2> QED
    BY <1>3, <2>1, TestSnap, SetSnap, SendSnap, ReceiveSnap, StoreSnap, CountSnap, ScanSnap
       DEF Thread
<1> QED BY <1>1, <1>2, <1>3 DEF Next

(***************************************************************************)
(* All scans of a transaction show the same state of the database, unless  *)
(* a thread asked for its state while another was starting it              *)
(* (mysql_transaction.cpp, GetConnection) or the statement failed.         *)
(***************************************************************************)
THEOREM ScansShowOneSnapshot == Spec => []OneSnapshot
<1>1. IInv /\ SnapInv => OneSnapshot
  <2> SUFFICES ASSUME IInv, SnapInv, ~raced, ~failed, NEW v \in seen, NEW w \in seen
               PROVE  v = w
    BY DEF OneSnapshot
  <2>1. v \in Shown /\ w \in Shown
    BY DEF Shown, IInv, TypeOK
  <2> QED BY <2>1 DEF SnapInv, Agree
<1> QED BY <1>1, SnapInit, SnapStep, WorkersInvariant, PTL DEF Spec
=============================================================================
