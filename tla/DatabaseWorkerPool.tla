-------------------------- MODULE DatabaseWorkerPool --------------------------
(***************************************************************************)
(* The database layer: src/server/database/Database/DatabaseWorkerPool.cpp, *)
(* DatabaseWorker.cpp, MySQLConnection.cpp and Transaction.cpp.             *)
(*                                                                         *)
(* Asynchronous operations go through the ProducerConsumerQueue to worker   *)
(* threads, one connection each; synchronous ones borrow a connection.      *)
(* An operation is a transaction of Size[t] statements, or one of Singles,  *)
(* a lone statement executed outside any transaction.  The MySQL server is  *)
(* external: it executes a statement, reports an error or a deadlock (which *)
(* rolls the whole transaction back), refuses START TRANSACTION, refuses    *)
(* COMMIT (and rolls back), loses the connection (which also rolls back),   *)
(* or cannot be reached again.                                              *)
(***************************************************************************)
EXTENDS ProducerConsumerQueue

CONSTANTS SyncConns,    \* _connections[IDX_SYNCH]; the consumers are IDX_ASYNC
          Singles,      \* the operations that are no transactions
          Size,         \* m_queries.size() of each operation
          SyncRetries,  \* loopBreaker
          AsyncRetries, \* bound: attempts within DEADLOCK_MAX_RETRY_TIME_MS
          Faults,       \* what may go wrong on the server's side
          MaxFaults     \* bound: how often

Conns == Consumers \cup SyncConns
Txns  == Values

ASSUME ConnsAssumption == Consumers \cap SyncConns = {} /\ Null \notin Conns
ASSUME SinglesAssumption == Singles \subseteq Values /\ \A t \in Singles : Size[t] = 1
ASSUME SizeAssumption == Size \in [Values -> Nat]
ASSUME RetriesAssumption == SyncRetries \in Nat /\ AsyncRetries \in Nat \ {0} /\ MaxFaults \in Nat
ASSUME FaultsAssumption == Faults \subseteq {"deadlock", "error", "begin", "commit", "lost", "unreachable"}

VARIABLES pc,           \* where the thread that uses a connection is
          job,          \* the operation it executes
          done,         \* how many of its statements this attempt has executed
          retry,        \* how many times the transaction has been started again
          session,      \* the server's side: "auto"commit, an "open" transaction, or m_Mysql null
          uncommitted,  \* what the open transaction has written
          stored,       \* how often each statement took effect
          outcome,      \* what became of each operation
          deadlockLock, \* the holder of TransactionTask::_deadlockLock
          faults,       \* how many things went wrong
          cancel,       \* workers with _cancelationToken set
          closing,      \* the connection DatabaseWorkerPool::Close destroys
          closePc,      \* how far it is with it
          closed,       \* the connections destroyed
          aborted,      \* ABORT() was called
          pushed        \* the operations enqueued so far, in order (history)

jobVars   == <<pc, job, done, retry, deadlockLock>>
storeVars == <<session, uncommitted, stored>>
poolVars  == <<cancel, closing, closePc, closed, aborted, pushed>>
dbVars    == <<queueVars, jobVars, storeVars, poolVars, outcome, faults>>

Rows(t) == 1 .. Size[t]

RetryLimit(c) == IF c \in SyncConns THEN SyncRetries ELSE AsyncRetries

DbTypeOK ==
  /\ QueueTypeOK
  /\ pc \in [Conns -> {"idle", "popped", "begin", "statement", "commit", "lock", "ended"}]
  /\ job \in [Conns -> Txns \cup {Null}]
  /\ done \in [Conns -> Nat]
  /\ \A c \in Conns : retry[c] \in 0 .. RetryLimit(c)
  /\ session \in [Conns -> {"auto", "open", "null"}]
  /\ uncommitted \in [Conns -> SUBSET Nat]
  /\ \A t \in Txns : stored[t] \in [Rows(t) -> Nat]
  /\ outcome \in [Txns -> {"none", "queued", "ok", "failed", "dropped"}]
  /\ deadlockLock \in Consumers \cup {Null}
  /\ faults \in 0 .. MaxFaults
  /\ cancel \subseteq Consumers /\ closed \subseteq Consumers
  /\ closing \in Consumers \cup {Null} /\ closePc \in {"next", "token", "join"}
  /\ aborted \in BOOLEAN
  /\ pushed \in Seq(Txns)

(* Every connection is open, every prepared statement ready. *)
DbInit ==
  /\ QueueInit
  /\ pc = [c \in Conns |-> "idle"]
  /\ job = [c \in Conns |-> Null]
  /\ done = [c \in Conns |-> 0]
  /\ retry = [c \in Conns |-> 0]
  /\ session = [c \in Conns |-> "auto"]
  /\ uncommitted = [c \in Conns |-> {}]
  /\ stored = [t \in Txns |-> [i \in Rows(t) |-> 0]]
  /\ outcome = [t \in Txns |-> "none"]
  /\ deadlockLock = Null /\ closing = Null /\ closePc = "next"
  /\ faults = 0 /\ aborted = FALSE
  /\ cancel = {} /\ closed = {} /\ pushed = <<>>

-----------------------------------------------------------------------------
(* Callers.  Nobody submits once the pool is being closed. *)

(* CommitTransaction, AsyncCommitTransaction, Execute: into the queue. *)
Enqueue(t) ==
  /\ outcome[t] = "none" /\ cancel = {}
  /\ Push(t)
  /\ outcome' = [outcome EXCEPT ![t] = "queued"]
  /\ pushed' = Append(pushed, t)
  /\ UNCHANGED <<jobVars, storeVars, faults, cancel, closing, closePc, closed, aborted>>

(* DirectCommitTransaction, DirectExecute: GetFreeConnection locks a free one. *)
DirectCommit(t, c) ==
  /\ outcome[t] = "none" /\ cancel = {}
  /\ c \in SyncConns /\ pc[c] = "idle"
  /\ pc' = [pc EXCEPT ![c] = "begin"]
  /\ job' = [job EXCEPT ![c] = t]
  /\ outcome' = [outcome EXCEPT ![t] = "queued"]
  /\ UNCHANGED <<queueVars, storeVars, poolVars, done, retry, deadlockLock, faults>>

-----------------------------------------------------------------------------
(* DatabaseWorker::WorkerThread. *)

WorkerWaits(w) ==
  /\ pc[w] = "idle"
  /\ EnterWaitAndPop(w) \/ Wait(w) \/ SpuriousWakeup(w)
  /\ UNCHANGED <<jobVars, storeVars, poolVars, outcome, faults>>

WorkerPops(w) ==
  /\ pc[w] = "idle"
  /\ Take(w) \/ ReturnEmptyHanded(w)
  /\ pc' = [pc EXCEPT ![w] = "popped"]
  /\ UNCHANGED <<job, done, retry, deadlockLock, storeVars, poolVars, outcome, faults>>

(* if (_cancelationToken || !operation) return;  -- a popped operation is lost *)
WorkerEnds(w) ==
  /\ pc[w] = "popped"
  /\ w \in cancel \/ value[w] = Null
  /\ pc' = [pc EXCEPT ![w] = "ended"]
  /\ outcome' = [t \in Txns |-> IF t = value[w] THEN "dropped" ELSE outcome[t]]
  /\ UNCHANGED <<queueVars, job, done, retry, deadlockLock, storeVars, poolVars, faults>>

WorkerCalls(w) ==
  /\ pc[w] = "popped"
  /\ w \notin cancel /\ value[w] # Null
  /\ pc' = [pc EXCEPT ![w] = "begin"]
  /\ job' = [job EXCEPT ![w] = value[w]]
  /\ UNCHANGED <<queueVars, done, retry, deadlockLock, storeVars, poolVars, outcome, faults>>

-----------------------------------------------------------------------------
(* MySQLConnection::ExecuteTransaction, and Execute of a lone statement. *)

Fault(f) ==
  /\ f \in Faults /\ faults < MaxFaults
  /\ faults' = faults + 1

(* _deadlockLock is not released: a plausible slip. *)
FinishLocked(c, o) ==
  /\ pc' = [pc EXCEPT ![c] = "idle"]
  /\ job' = [job EXCEPT ![c] = Null]
  /\ done' = [done EXCEPT ![c] = 0]
  /\ retry' = [retry EXCEPT ![c] = 0]
  /\ outcome' = [outcome EXCEPT ![job[c]] = o]
  /\ UNCHANGED deadlockLock

(* The operation is over: the connection is free, the lock released. *)
Finish(c, o) ==
  /\ pc' = [pc EXCEPT ![c] = "idle"]
  /\ job' = [job EXCEPT ![c] = Null]
  /\ done' = [done EXCEPT ![c] = 0]
  /\ retry' = [retry EXCEPT ![c] = 0]
  /\ deadlockLock' = IF deadlockLock = c THEN Null ELSE deadlockLock
  /\ outcome' = [outcome EXCEPT ![job[c]] = o]

(* if (queries.empty()) return -1; *)
ExecuteEmpty(c) ==
  /\ pc[c] = "begin" /\ Size[job[c]] = 0
  /\ Finish(c, "failed")
  /\ UNCHANGED <<queueVars, storeVars, poolVars, faults>>

(* START TRANSACTION, whose result is not looked at. *)
BeginTransaction(c) ==
  /\ pc[c] = "begin" /\ Size[job[c]] > 0
  /\ pc' = [pc EXCEPT ![c] = "statement"]
  /\ session' = IF job[c] \in Singles \/ session[c] = "null" THEN session
                ELSE [session EXCEPT ![c] = "open"]
  /\ UNCHANGED <<queueVars, job, done, retry, deadlockLock, uncommitted, stored, poolVars, outcome, faults>>

(* It fails with an error _HandleMySQLErrno does not repair: each statement  *)
(* that follows is executed in autocommit mode.                              *)
BeginRefused(c) ==
  /\ pc[c] = "begin" /\ Size[job[c]] > 0
  /\ job[c] \notin Singles /\ session[c] # "null"
  /\ Fault("begin")
  /\ pc' = [pc EXCEPT ![c] = "statement"]
  /\ UNCHANGED <<queueVars, job, done, retry, deadlockLock, storeVars, poolVars, outcome>>

(* What the server does with statement i of connection c. *)
Write(c, i) ==
  IF session[c] = "open"
  THEN /\ uncommitted' = [uncommitted EXCEPT ![c] = @ \cup {i}]
       /\ UNCHANGED stored
  ELSE /\ stored' = [stored EXCEPT ![job[c]][i] = @ + 1]
       /\ UNCHANGED uncommitted

(* The next statement succeeds. *)
Execute(c) ==
  LET i == done[c] + 1 IN
  /\ pc[c] = "statement" /\ session[c] # "null"
  /\ Write(c, i)
  /\ IF job[c] \in Singles
     THEN Finish(c, "ok")
     ELSE /\ done' = [done EXCEPT ![c] = i]
          /\ pc' = [pc EXCEPT ![c] = IF i = Size[job[c]] THEN "commit" ELSE "statement"]
          /\ UNCHANGED <<job, retry, deadlockLock, outcome>>
  /\ UNCHANGED <<queueVars, session, poolVars, faults>>

(* The server closes the session: what was not committed is rolled back.     *)
Rollback(c) ==
  /\ uncommitted' = [uncommitted EXCEPT ![c] = {}]
  /\ session' = [session EXCEPT ![c] = IF @ = "null" THEN "null" ELSE "auto"]

(* The retry goes on where the attempt failed: a plausible slip.             *)
AbortResuming(c, code) ==
  /\ Rollback(c)
  /\ \/ /\ code = "deadlock" /\ c \in SyncConns /\ retry[c] < SyncRetries
        /\ pc' = [pc EXCEPT ![c] = "begin"]
        /\ retry' = [retry EXCEPT ![c] = @ + 1]
        /\ UNCHANGED <<job, done, deadlockLock, outcome>>
     \/ code # "deadlock" /\ Finish(c, "failed")

(* One retry more than loopBreaker allows: a plausible slip.                 *)
AbortOneTooMany(c, code) ==
  /\ Rollback(c)
  /\ \/ /\ code = "deadlock" /\ c \in SyncConns /\ retry[c] <= SyncRetries
        /\ pc' = [pc EXCEPT ![c] = "begin"]
        /\ done' = [done EXCEPT ![c] = 0]
        /\ retry' = [retry EXCEPT ![c] = @ + 1]
        /\ UNCHANGED <<job, deadlockLock, outcome>>
     \/ code # "deadlock" /\ Finish(c, "failed")

(* Execute returned false with error code: ROLLBACK, then what the caller    *)
(* does.  A deadlock makes TransactionTask::Execute retry under the lock     *)
(* until the time is over, and DirectCommitTransaction at most SyncRetries   *)
(* times; both retry after any error from then on.                           *)
Abort(c, code) ==
  LET txn == job[c] \notin Singles IN
  /\ Rollback(c)
  /\ \/ /\ txn /\ retry[c] = 0 /\ code = "deadlock" /\ c \in Consumers
        /\ pc' = [pc EXCEPT ![c] = "lock"]
        /\ done' = [done EXCEPT ![c] = 0]
        /\ UNCHANGED <<job, retry, deadlockLock, outcome>>
     \/ /\ txn /\ retry[c] < RetryLimit(c)
        /\ retry[c] > 0 \/ (code = "deadlock" /\ c \in SyncConns)
        /\ pc' = [pc EXCEPT ![c] = "begin"]
        /\ done' = [done EXCEPT ![c] = 0]
        /\ retry' = [retry EXCEPT ![c] = @ + 1]
        /\ UNCHANGED <<job, deadlockLock, outcome>>
     \/ /\ \/ ~txn
           \/ retry[c] = 0 /\ code # "deadlock"
           \/ retry[c] > 0 /\ c \in Consumers
           \/ retry[c] = RetryLimit(c)
        /\ Finish(c, "failed")

StatementFails(c, code) ==
  /\ pc[c] = "statement" /\ session[c] # "null"
  /\ Fault(code)
  /\ Abort(c, code)
  /\ UNCHANGED <<queueVars, stored, poolVars>>

(* CR_SERVER_LOST: _HandleMySQLErrno reconnects, and the same statement is   *)
(* executed again in the new session.  In autocommit mode the first one may  *)
(* have taken effect before its answer was lost.                             *)
Reconnect(c) ==
  LET i == done[c] + 1 IN
  /\ pc[c] = "statement" /\ session[c] # "null"
  /\ Fault("lost")
  /\ Rollback(c)
  /\ \/ UNCHANGED stored
     \/ session[c] = "auto" /\ stored' = [stored EXCEPT ![job[c]][i] = @ + 1]
  /\ UNCHANGED <<queueVars, jobVars, poolVars, outcome>>

(* With no server to reconnect to: ABORT after five attempts, or,   *)
(* when Open fails with an error the switch does not list, m_Mysql stays     *)
(* null.                                                                     *)
ConnectionDies(c) ==
  /\ pc[c] \in {"begin", "statement", "commit"} /\ session[c] # "null"
  /\ Size[job[c]] > 0
  /\ Fault("unreachable")
  /\ uncommitted' = [uncommitted EXCEPT ![c] = {}]
  /\ \/ aborted' = TRUE /\ UNCHANGED session
     \/ session' = [session EXCEPT ![c] = "null"] /\ UNCHANGED aborted
  /\ UNCHANGED <<queueVars, jobVars, stored, cancel, closing, closePc, closed, pushed, outcome>>

(* Execute returns false on a null m_Mysql; mysql_errno of it may be 0,      *)
(* which ExecuteTransaction returns as success.                              *)
ExecuteOnNull(c) ==
  /\ pc[c] = "statement" /\ session[c] = "null"
  /\ \/ job[c] \notin Singles /\ Finish(c, "ok") /\ UNCHANGED <<uncommitted, session>>
     \/ Abort(c, "error")
  /\ UNCHANGED <<queueVars, stored, poolVars, faults>>

(* COMMIT, whose result is not looked at either, and return 0. *)
CommitTransaction(c) ==
  /\ pc[c] = "commit"
  /\ stored' = [stored EXCEPT ![job[c]] =
                  [i \in Rows(job[c]) |-> @[i] + IF i \in uncommitted[c] THEN 1 ELSE 0]]
  /\ Rollback(c)
  /\ Finish(c, "ok")
  /\ UNCHANGED <<queueVars, poolVars, faults>>

(* The server refuses it and rolls back; the return value is 0 all the same. *)
CommitRefused(c) ==
  /\ pc[c] = "commit" /\ session[c] # "null"
  /\ Fault("commit")
  /\ Rollback(c)
  /\ Finish(c, "ok")
  /\ UNCHANGED <<queueVars, stored, poolVars>>

(* The connection is lost during COMMIT, before or after it took effect; the *)
(* COMMIT executed again finds no transaction.                               *)
CommitReconnects(c) ==
  /\ pc[c] = "commit" /\ session[c] # "null"
  /\ Fault("lost")
  /\ Rollback(c)
  /\ \/ UNCHANGED stored
     \/ stored' = [stored EXCEPT ![job[c]] =
                     [i \in Rows(job[c]) |-> @[i] + IF i \in uncommitted[c] THEN 1 ELSE 0]]
  /\ UNCHANGED <<queueVars, jobVars, poolVars, outcome>>

(* std::lock_guard of _deadlockLock, then the retry loop. *)
LockAndRetry(c) ==
  /\ pc[c] = "lock" /\ deadlockLock = Null
  /\ deadlockLock' = c
  /\ retry' = [retry EXCEPT ![c] = 1]
  /\ pc' = [pc EXCEPT ![c] = "begin"]
  /\ UNCHANGED <<queueVars, job, done, storeVars, poolVars, outcome, faults>>

-----------------------------------------------------------------------------
(* DatabaseWorkerPool::Close clears _connections[IDX_ASYNC]: for each, the   *)
(* ~DatabaseWorker sets the token, cancels the queue and joins the thread.   *)

CloseSetsToken(w) ==
  /\ closePc = "next" /\ w \notin closed
  /\ \A c \in SyncConns : pc[c] = "idle"
  /\ closing' = w /\ closePc' = "token"
  /\ cancel' = cancel \cup {w}
  /\ UNCHANGED <<queueVars, jobVars, storeVars, closed, aborted, pushed, outcome, faults>>

CloseCancelsQueue ==
  /\ closePc = "token"
  /\ closePc' = "join"
  /\ Cancel
  /\ outcome' = [t \in Txns |-> IF \E i \in DOMAIN queue : queue[i] = t THEN "dropped" ELSE outcome[t]]
  /\ UNCHANGED <<jobVars, storeVars, cancel, closing, closed, aborted, pushed, faults>>

CloseJoins ==
  /\ closePc = "join" /\ pc[closing] = "ended"
  /\ closing' = Null /\ closePc' = "next"
  /\ closed' = closed \cup {closing}
  /\ UNCHANGED <<queueVars, jobVars, storeVars, cancel, aborted, pushed, outcome, faults>>

(* The process is gone, or the pool is closed and nobody uses it. *)
Terminated ==
  /\ aborted \/ closed = Consumers
  /\ UNCHANGED dbVars

-----------------------------------------------------------------------------
ConnStep(c) ==
  \/ ExecuteEmpty(c) \/ BeginTransaction(c) \/ Execute(c) \/ ExecuteOnNull(c)
  \/ CommitTransaction(c) \/ LockAndRetry(c)

ServerFault(c) ==
  \/ BeginRefused(c) \/ CommitRefused(c)
  \/ StatementFails(c, "deadlock") \/ StatementFails(c, "error")
  \/ Reconnect(c) \/ CommitReconnects(c) \/ ConnectionDies(c)

WorkerStep(w) == WorkerWaits(w) \/ WorkerPops(w) \/ WorkerEnds(w) \/ WorkerCalls(w)

CloseStep == (\E w \in Consumers : CloseSetsToken(w)) \/ CloseCancelsQueue \/ CloseJoins

DbNext ==
  \/ /\ ~aborted
     /\ \/ \E t \in Txns : Enqueue(t) \/ \E c \in SyncConns : DirectCommit(t, c)
        \/ \E w \in Consumers : WorkerStep(w)
        \/ \E c \in Conns : ConnStep(c) \/ ServerFault(c)
        \/ CloseStep
  \/ Terminated

DbSpec == DbInit /\ [][DbNext]_dbVars

(* Every thread runs on; the close is not prevented once begun.  No fairness *)
(* for the callers, for the start of the close, for spurious wakeups or for  *)
(* the faults.                                                               *)
DbFairSpec ==
  /\ DbSpec
  /\ \A w \in Consumers : WF_dbVars(~aborted /\ WorkerStep(w) /\ ~SpuriousWakeup(w))
  /\ \A c \in Conns : WF_dbVars(~aborted /\ (ConnStep(c) \/ ServerFault(c)))
  /\ WF_dbVars(~aborted /\ (CloseCancelsQueue \/ CloseJoins))

-----------------------------------------------------------------------------
(* Properties. *)

AS == INSTANCE AtomicStore WITH Txns <- Values, CommitMayFail <- "commit" \in Faults

(* Whatever the interleaving of workers, direct commits, deadlocks, retries  *)
(* and the close, the database layer is an AtomicStore: a transaction takes  *)
(* effect once and as a whole, in the step that reports success, and one     *)
(* that fails or is discarded leaves nothing behind.  Success may be         *)
(* reported with nothing stored, but only where the server refuses COMMITs.  *)
(* It is no AtomicStore when START TRANSACTION is refused or a connection is *)
(* lost: see Atomic.                                                         *)
ImplementsAtomicStore == AS!StoreSpec

(* An operation overtakes only what other workers are executing, retries of  *)
(* deadlocked transactions included: when it is settled, fewer earlier ones  *)
(* than there are workers are not.  One worker settles everything in the     *)
(* order in which it was enqueued.                                           *)
SettledInOrder ==
  \A j \in DOMAIN pushed : outcome[pushed[j]] \in {"ok", "failed"} =>
    Cardinality({i \in 1 .. j - 1 : outcome[pushed[i]] \notin {"ok", "failed"}})
      < Cardinality(Consumers)

(* Nothing stays in the queue, on a connection or behind _deadlockLock for   *)
(* ever: every operation submitted is executed, fails, or is discarded by    *)
(* the close, as long as the process lives.                                  *)
EverySubmissionSettles ==
  \A t \in Txns : outcome[t] = "queued" ~> (outcome[t] # "queued" \/ aborted)

(* ~DatabaseWorker's join returns for every worker, so Close ends.           *)
CloseEnds == closing # Null ~> (closing = Null \/ aborted)

(* A transaction "will automatically rollback if not commited": at no time   *)
(* does the database hold some of its statements without the others.         *)
Atomic ==
  \A t \in Txns : \A i, j \in Rows(t) : stored[t][i] = stored[t][j]
=============================================================================
