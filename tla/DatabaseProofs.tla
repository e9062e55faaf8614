---------------------------- MODULE DatabaseProofs ----------------------------
(***************************************************************************)
(* While no connection is lost and no START TRANSACTION refused, the worker *)
(* pool implements AtomicStore, for any number of workers, connections,     *)
(* operations, deadlocks, errors, refused COMMITs and retries.              *)
(* Whatever is lost, operations are settled in the order of the queue, but  *)
(* for what the other workers are executing.                                *)
(***************************************************************************)
EXTENDS DatabaseWorkerPool, FiniteSetTheorems, TLAPS

(* What AtomicStore needs of the server: a transaction is opened when it is  *)
(* begun, and its session lasts until it is over.                            *)
SessionsLast == Faults \cap {"begin", "lost", "unreachable"} = {}

Busy(c) == pc[c] \in {"begin", "statement", "commit", "lock"}

(* The operation the thread of connection c has taken and not settled. *)
Held(c) == IF pc[c] = "popped" THEN value[c] ELSE IF Busy(c) THEN job[c] ELSE Null

Zero(t) == [i \in Rows(t) |-> 0]
One(t)  == [i \in Rows(t) |-> 1]

Typed ==
  /\ queue \in Seq(Values)
  /\ value \in [Consumers -> Values \cup {Null}]
  /\ pc \in [Conns -> {"idle", "popped", "begin", "statement", "commit", "lock", "ended"}]
  /\ \A c \in SyncConns : pc[c] # "popped"
  /\ job \in [Conns -> Values \cup {Null}]
  /\ done \in [Conns -> Nat]
  /\ session \in [Conns -> {"auto", "open"}]
  /\ uncommitted \in [Conns -> SUBSET Nat]
  /\ outcome \in [Values -> {"none", "queued", "ok", "failed", "dropped"}]
  /\ stored = [t \in Values |-> stored[t]]

(* Whatever a thread holds is unsettled, and no two threads hold the same. *)
HeldIsQueued == \A c \in Conns : Held(c) # Null => outcome[Held(c)] = "queued"

HeldApart == \A c, d \in Conns : (Held(c) # Null /\ Held(c) = Held(d)) => c = d

BusyHolds == \A c \in Conns : Busy(c) => job[c] # Null

(* The same for what waits in the queue. *)
QueueIsQueued ==
  \A i \in 1 .. Len(queue) :
    /\ outcome[queue[i]] = "queued"
    /\ \A c \in Conns : Held(c) # queue[i]
    /\ \A j \in 1 .. Len(queue) : i # j => queue[i] # queue[j]

(* The database holds an operation as a whole, once it has succeeded, unless *)
(* its COMMIT was refused.                                                   *)
Clean ==
  \A t \in Values :
    \/ stored[t] = Zero(t) /\ (outcome[t] = "ok" => "commit" \in Faults)
    \/ stored[t] = One(t) /\ outcome[t] = "ok"

(* A transaction between BEGIN and COMMIT has its statements in the open     *)
(* session; nothing else is uncommitted.                                     *)
SessionOK ==
  \A c \in Conns :
    /\ pc[c] = "commit" => /\ job[c] \notin Singles /\ session[c] = "open"
                           /\ uncommitted[c] = Rows(job[c])
    /\ pc[c] = "statement" =>
         /\ done[c] < Size[job[c]]
         /\ uncommitted[c] = 1 .. done[c]
         /\ job[c] \in Singles => session[c] = "auto"
         /\ job[c] \notin Singles => session[c] = "open"
    /\ pc[c] \notin {"commit", "statement"} =>
         done[c] = 0 /\ session[c] = "auto" /\ uncommitted[c] = {}

DbIInv ==
  /\ Typed /\ BusyHolds /\ HeldIsQueued /\ HeldApart
  /\ QueueIsQueued /\ Clean /\ SessionOK

StoreStep == AS!StoreNext \/ UNCHANGED AS!storeVars

(* A pool that was just opened. *)
LEMMA DbInitIInv == DbInit => DbIInv
<1> SUFFICES ASSUME DbInit PROVE DbIInv
  OBVIOUS
<1> USE DEF DbInit, QueueInit, Txns
<1>1. Typed /\ BusyHolds
  BY DEF Typed, BusyHolds, Busy, Conns
<1>2. HeldIsQueued /\ HeldApart /\ QueueIsQueued
  BY DEF HeldIsQueued, HeldApart, QueueIsQueued, Held, Busy
<1>3. Clean
  BY DEF Clean, Zero
<1>4. SessionOK
  BY DEF SessionOK
<1>5. QED
  BY <1>1, <1>2, <1>3, <1>4 DEF DbIInv

-----------------------------------------------------------------------------
(* Two patterns cover almost every action: a step that leaves everything     *)
(* held where it is, and one that settles what one connection holds.         *)

(* What a connection holds is an operation, or nothing. *)
LEMMA HeldTyped ==
  ASSUME Typed, NEW c \in Conns
  PROVE  Held(c) \in Values \cup {Null}
BY DEF Typed, Held, Busy, Conns

Bookkeeping == HeldIsQueued /\ HeldApart /\ QueueIsQueued /\ Clean

(* A step that settles nothing and hands no operation on is a stutter. *)
LEMMA QuietStep ==
  ASSUME Bookkeeping, UNCHANGED <<queue, outcome, stored>>,
         \A c \in Conns : Held(c)' = Held(c)
  PROVE  Bookkeeping' /\ StoreStep
BY DEF Bookkeeping, HeldIsQueued, HeldApart, QueueIsQueued, Clean, StoreStep, AS!storeVars

(* A connection that settles the operation it holds, with all of its         *)
(* statements stored or none, is a step of the abstract store.               *)
LEMMA SettlingStep ==
  ASSUME Typed, Bookkeeping,
         NEW c \in Conns, NEW t \in Values, NEW o \in {"ok", "failed"}, NEW all \in BOOLEAN,
         Held(c) = t, t # Null,
         UNCHANGED queue,
         outcome' = [outcome EXCEPT ![t] = o],
         stored' = [stored EXCEPT ![t] = IF all THEN One(t) ELSE Zero(t)],
         all => o = "ok",
         o = "ok" => all \/ "commit" \in Faults,
         Held(c)' = Null,
         \A d \in Conns \ {c} : Held(d)' = Held(d)
  PROVE  Bookkeeping' /\ StoreStep
<1>1. outcome[t] = "queued" /\ stored[t] = Zero(t)
  BY DEF Bookkeeping, HeldIsQueued, Clean
<1>a. \A d \in Conns : Held(d) \in Values \cup {Null}
  BY HeldTyped
<1>b. \A d \in Conns \ {c} : Held(d) # t
  BY DEF Bookkeeping, HeldApart
<1>2. HeldIsQueued' /\ HeldApart'
  <2>1. ASSUME NEW d \in Conns, Held(d)' # Null
        PROVE  d # c /\ Held(d)' = Held(d) /\ outcome'[Held(d)] = "queued"
    BY <1>a, <1>b, <2>1 DEF Typed, Bookkeeping, HeldIsQueued
  <2>2. HeldIsQueued'
    BY <2>1 DEF HeldIsQueued
  <2>3. HeldApart'
    BY <2>1 DEF Bookkeeping, HeldApart
  <2>4. QED
    BY <2>2, <2>3
<1>3. QueueIsQueued'
  <2> SUFFICES ASSUME NEW i \in 1 .. Len(queue)
               PROVE  /\ outcome'[queue[i]] = "queued"
                      /\ \A d \in Conns : Held(d)' # queue[i]
                      /\ \A j \in 1 .. Len(queue) : i # j => queue[i] # queue[j]
    BY DEF QueueIsQueued
  <2>1. queue[i] \in Values /\ queue[i] # t
    BY DEF Typed, Bookkeeping, QueueIsQueued
  <2>2. outcome'[queue[i]] = "queued"
    BY <2>1 DEF Typed, Bookkeeping, QueueIsQueued
  <2>3. \A d \in Conns : Held(d)' # queue[i]
    BY <2>1, NullNotAValue DEF Bookkeeping, QueueIsQueued
  <2>4. QED
    BY <2>2, <2>3 DEF Bookkeeping, QueueIsQueued
<1>4. Clean'
  BY DEF Typed, Bookkeeping, Clean, Rows, One, Zero
<1>5. StoreStep
  <2>1. CASE all
    BY <1>1, <2>1 DEF StoreStep, AS!StoreNext, AS!Commit, AS!Untouched, AS!Rows, Rows, Zero, One
  <2>2. CASE ~all
    <3>1. stored' = stored
      BY <1>1, <2>2 DEF Typed
    <3>2. CASE o = "failed"
      BY <1>1, <3>1, <3>2 DEF StoreStep, AS!StoreNext, AS!Fail, AS!Untouched, AS!Rows, Rows, Zero
    <3>3. CASE o = "ok"
      <4>1. AS!Forget(t)
        BY <1>1, <2>2, <3>1, <3>3 DEF AS!Forget, AS!Untouched, AS!Rows, Rows, Zero
      <4>2. QED
        BY <4>1 DEF StoreStep, AS!StoreNext
    <3>4. QED
      BY <3>2, <3>3
  <2>3. QED
    BY <2>1, <2>2
<1>6. QED
  BY <1>2, <1>3, <1>4, <1>5 DEF Bookkeeping

-----------------------------------------------------------------------------
(* The actions. *)

(* START TRANSACTION stores nothing. *)
LEMMA BeginTransactionStep ==
  ASSUME DbIInv, NEW c \in Conns, BeginTransaction(c)
  PROVE  DbIInv' /\ StoreStep
<1> USE DEF BeginTransaction, queueVars, poolVars
<1>1. Typed' /\ BusyHolds'
  BY DEF DbIInv, Typed, BusyHolds, Busy, Zero, One, Rows
<1>2. \A d \in Conns : Held(d)' = Held(d)
  BY DEF DbIInv, Typed, Held, Busy
<1>3. Bookkeeping' /\ StoreStep
  BY <1>2, QuietStep DEF DbIInv, Bookkeeping
<1>4. SessionOK'
  <2>1. job[c] \in Values /\ Size[job[c]] \in Nat /\ done[c] = 0 /\ uncommitted[c] = {} /\ session[c] = "auto"
    BY SizeAssumption DEF DbIInv, Typed, BusyHolds, Busy, SessionOK
  <2>2. 1 .. 0 = {}
    OBVIOUS
  <2>3. /\ pc'[c] = "statement"
        /\ job[c] \in Singles => session'[c] = "auto"
        /\ job[c] \notin Singles => session'[c] = "open"
    BY <2>1 DEF DbIInv, Typed
  <2>4. \A d \in Conns \ {c} : pc'[d] = pc[d] /\ session'[d] = session[d]
    BY DEF DbIInv, Typed
  <2>5. /\ done[c] < Size[job[c]] /\ uncommitted[c] = 1 .. done[c]
        /\ UNCHANGED <<job, done, uncommitted>>
    BY <2>1, <2>2
  <2>6. QED
    BY <2>3, <2>4, <2>5 DEF DbIInv, SessionOK
<1>5. QED
  BY <1>1, <1>3, <1>4 DEF DbIInv, Bookkeeping

(* TransactionTask retries what a deadlock rolled back. *)
LEMMA LockAndRetryStep ==
  ASSUME DbIInv, NEW c \in Conns, LockAndRetry(c)
  PROVE  DbIInv' /\ StoreStep
<1> USE DEF LockAndRetry, queueVars, poolVars, storeVars
<1>1. Typed' /\ BusyHolds'
  BY DEF DbIInv, Typed, BusyHolds, Busy, Zero, One, Rows
<1>2. \A d \in Conns : Held(d)' = Held(d)
  BY DEF DbIInv, Typed, Held, Busy
<1>3. Bookkeeping' /\ StoreStep
  BY <1>2, QuietStep DEF DbIInv, Bookkeeping
<1>4. SessionOK'
  BY DEF DbIInv, Typed, SessionOK, Rows
<1>5. QED
  BY <1>1, <1>3, <1>4 DEF DbIInv, Bookkeeping

(* COMMIT stores all statements, in the step that reports success. *)
LEMMA CommitTransactionStep ==
  ASSUME DbIInv, NEW c \in Conns, CommitTransaction(c)
  PROVE  DbIInv' /\ StoreStep
<1> DEFINE t == job[c]
<1> USE DEF CommitTransaction, Finish, Rollback, queueVars, poolVars
<1>1. t \in Values /\ t # Null /\ Held(c) = t
  BY DEF DbIInv, Typed, BusyHolds, Busy, Held
<1>2. stored[t] = Zero(t) /\ outcome[t] = "queued"
  BY <1>1 DEF DbIInv, HeldIsQueued, Clean
<1>3. stored' = [stored EXCEPT ![t] = One(t)]
  <2>1. [i \in Rows(t) |-> stored[t][i] + IF i \in uncommitted[c] THEN 1 ELSE 0] = One(t)
    BY <1>2 DEF DbIInv, SessionOK, Zero, One
  <2>2. QED
    BY <2>1
<1>4. Typed' /\ BusyHolds'
  <2>1. stored' = [u \in Values |-> stored'[u]]
    BY <1>1, <1>3 DEF DbIInv, Typed
  <2>2. QED
    BY <2>1 DEF DbIInv, Typed, BusyHolds, Busy, Zero, One, Rows
<1>5. Held(c)' = Null /\ \A d \in Conns \ {c} : Held(d)' = Held(d)
  BY DEF DbIInv, Typed, Held, Busy
<1>6. Bookkeeping' /\ StoreStep
  <2>1. stored' = [stored EXCEPT ![t] = IF TRUE THEN One(t) ELSE Zero(t)]
    BY <1>3
  <2>2. QED
    BY <1>1, <1>5, <2>1, SettlingStep DEF DbIInv, Bookkeeping
<1>7. SessionOK'
  BY DEF DbIInv, Typed, SessionOK, Rows
<1>8. QED
  BY <1>4, <1>6, <1>7 DEF DbIInv, Bookkeeping

(* The end of an operation of which nothing is stored: it failed, or its     *)
(* COMMIT was refused.                                                       *)
LEMMA FailStep ==
  ASSUME DbIInv, NEW c \in Conns, Busy(c), NEW o \in {"ok", "failed"}, Finish(c, o),
         o = "ok" => "commit" \in Faults,
         UNCHANGED <<queueVars, poolVars, stored>>,
         session' = [session EXCEPT ![c] = "auto"],
         uncommitted' = [uncommitted EXCEPT ![c] = {}]
  PROVE  DbIInv' /\ StoreStep
<1> DEFINE t == job[c]
<1> USE DEF Finish, queueVars, poolVars
<1>1. t \in Values /\ t # Null /\ Held(c) = t
  BY DEF DbIInv, Typed, BusyHolds, Busy, Held
<1>2. stored' = [stored EXCEPT ![t] = Zero(t)]
  BY <1>1 DEF DbIInv, Typed, HeldIsQueued, Clean
<1>3. Typed' /\ BusyHolds'
  BY DEF DbIInv, Typed, BusyHolds, Busy
<1>4. Held(c)' = Null /\ \A d \in Conns \ {c} : Held(d)' = Held(d)
  BY DEF DbIInv, Typed, Held, Busy
<1>5. Bookkeeping' /\ StoreStep
  <2>1. stored' = [stored EXCEPT ![t] = IF FALSE THEN One(t) ELSE Zero(t)]
    BY <1>2
  <2>2. QED
    BY <1>1, <1>4, <2>1, SettlingStep DEF DbIInv, Bookkeeping
<1>6. SessionOK'
  BY DEF DbIInv, Typed, SessionOK, Rows
<1>7. QED
  BY <1>3, <1>5, <1>6 DEF DbIInv, Bookkeeping

(* A COMMIT the server refuses leaves nothing stored. *)
LEMMA CommitRefusedStep ==
  ASSUME DbIInv, NEW c \in Conns, CommitRefused(c)
  PROVE  DbIInv' /\ StoreStep
<1>1. /\ Busy(c) /\ "commit" \in Faults
      /\ session' = [session EXCEPT ![c] = "auto"]
      /\ uncommitted' = [uncommitted EXCEPT ![c] = {}]
  BY DEF CommitRefused, Fault, Rollback, Busy, DbIInv, Typed
<1>2. QED
  BY <1>1, FailStep DEF CommitRefused

(* A transaction without statements never reaches the server. *)
LEMMA ExecuteEmptyStep ==
  ASSUME DbIInv, NEW c \in Conns, ExecuteEmpty(c)
  PROVE  DbIInv' /\ StoreStep
<1>1. Busy(c) /\ session[c] = "auto" /\ uncommitted[c] = {}
  BY DEF ExecuteEmpty, Busy, DbIInv, SessionOK
<1>2. session' = [session EXCEPT ![c] = "auto"] /\ uncommitted' = [uncommitted EXCEPT ![c] = {}]
  BY <1>1 DEF ExecuteEmpty, storeVars, DbIInv, Typed
<1>3. QED
  BY <1>1, <1>2, FailStep DEF ExecuteEmpty, storeVars

(* A failed statement: the transaction starts again or fails. *)
LEMMA StatementFailsStep ==
  ASSUME DbIInv, NEW c \in Conns, NEW code, StatementFails(c, code)
  PROVE  DbIInv' /\ StoreStep
<1>1. /\ pc[c] = "statement" /\ Busy(c)
      /\ session' = [session EXCEPT ![c] = "auto"]
      /\ uncommitted' = [uncommitted EXCEPT ![c] = {}]
  BY DEF StatementFails, Abort, Rollback, Busy, DbIInv, Typed
<1>2. CASE Finish(c, "failed")
  BY <1>1, <1>2, FailStep DEF StatementFails
<1>3. ASSUME NEW p \in {"lock", "begin"},
             pc' = [pc EXCEPT ![c] = p],
             done' = [done EXCEPT ![c] = 0],
             UNCHANGED <<job, outcome>>
      PROVE  DbIInv' /\ StoreStep
  <2> USE <1>3 DEF StatementFails, queueVars, poolVars
  <2>1. Typed' /\ BusyHolds'
    BY <1>1 DEF DbIInv, Typed, BusyHolds, Busy
  <2>2. \A d \in Conns : Held(d)' = Held(d)
    BY <1>1 DEF DbIInv, Typed, Held, Busy
  <2>3. Bookkeeping' /\ StoreStep
    BY <2>2, QuietStep DEF DbIInv, Bookkeeping
  <2>4. SessionOK'
    BY <1>1 DEF DbIInv, Typed, SessionOK, Rows
  <2>5. QED
    BY <2>1, <2>3, <2>4 DEF DbIInv, Bookkeeping
<1>4. QED
  BY <1>2, <1>3 DEF StatementFails, Abort

(* A statement: it is buffered by the transaction, or fails it. *)
LEMMA ExecuteStep ==
  ASSUME DbIInv, NEW c \in Conns, Execute(c)
  PROVE  DbIInv' /\ StoreStep
<1> DEFINE t == job[c]
<1> USE DEF Execute, queueVars, poolVars
<1>1. /\ pc[c] = "statement" /\ t \in Values /\ t # Null /\ Held(c) = t
      /\ Size[t] \in Nat /\ done[c] \in Nat /\ done[c] < Size[t]
      /\ uncommitted[c] = 1 .. done[c]
  BY SizeAssumption DEF DbIInv, Typed, BusyHolds, Busy, Held, SessionOK
<1>2. CASE t \in Singles
  <2>1. session[c] = "auto" /\ Size[t] = 1 /\ done[c] = 0 /\ uncommitted[c] = {}
    BY <1>1, <1>2, SinglesAssumption DEF DbIInv, SessionOK
  <2>2. Finish(c, "ok") /\ UNCHANGED <<uncommitted, session>>
        /\ stored' = [stored EXCEPT ![t][1] = @ + 1]
    BY <1>1, <1>2, <2>1 DEF Write
  <2>3. stored[t] = Zero(t)
    BY <1>1 DEF DbIInv, HeldIsQueued, Clean
  <2>4. [Zero(t) EXCEPT ![1] = @ + 1] = One(t)
    BY <2>1 DEF Zero, One, Rows
  <2>5. stored' = [stored EXCEPT ![t] = One(t)]
    BY <2>2, <2>3, <2>4
  <2>6. Typed' /\ BusyHolds'
    <3>1. stored' = [u \in Values |-> stored'[u]]
      BY <1>1, <2>5 DEF DbIInv, Typed
    <3>2. QED
      BY <1>1, <2>2, <3>1 DEF DbIInv, Typed, BusyHolds, Busy, Finish
  <2>7. Held(c)' = Null /\ \A d \in Conns \ {c} : Held(d)' = Held(d)
    BY <2>2 DEF DbIInv, Typed, Held, Busy, Finish
  <2>8. Bookkeeping' /\ StoreStep
    <3>1. stored' = [stored EXCEPT ![t] = IF TRUE THEN One(t) ELSE Zero(t)]
      BY <2>5
    <3>2. QED
      BY <1>1, <2>2, <2>7, <3>1, SettlingStep DEF DbIInv, Bookkeeping, Finish
  <2>9. SessionOK'
    BY <2>1, <2>2 DEF DbIInv, Typed, SessionOK, Rows, Finish
  <2>10. QED
    BY <2>6, <2>8, <2>9 DEF DbIInv, Bookkeeping
<1>3. CASE t \notin Singles
  <2> DEFINE i == done[c] + 1
  <2>1. /\ session[c] = "open"
        /\ uncommitted' = [uncommitted EXCEPT ![c] = @ \cup {i}]
        /\ done' = [done EXCEPT ![c] = i]
        /\ pc' = [pc EXCEPT ![c] = IF i = Size[t] THEN "commit" ELSE "statement"]
        /\ UNCHANGED <<stored, session, job, outcome>>
    BY <1>1, <1>3 DEF Write, DbIInv, SessionOK
  <2>2. i \in Nat /\ 1 .. i = (1 .. done[c]) \cup {i}
    BY <1>1
  <2>3. Typed' /\ BusyHolds'
    <3>1. uncommitted' \in [Conns -> SUBSET Nat] /\ done' \in [Conns -> Nat]
      BY <2>1, <2>2 DEF DbIInv, Typed
    <3>2. pc' \in [Conns -> {"idle", "popped", "begin", "statement", "commit", "lock", "ended"}]
          /\ \A d \in SyncConns : pc'[d] # "popped"
      BY <2>1 DEF DbIInv, Typed, Conns
    <3>3. BusyHolds'
      BY <1>1, <2>1 DEF DbIInv, Typed, BusyHolds, Busy
    <3>4. QED
      BY <2>1, <3>1, <3>2, <3>3 DEF DbIInv, Typed
  <2>4. \A d \in Conns : Held(d)' = Held(d)
    BY <1>1, <2>1 DEF DbIInv, Typed, Held, Busy
  <2>5. Bookkeeping' /\ StoreStep
    BY <2>1, <2>4, QuietStep DEF DbIInv, Bookkeeping
  <2>6. SessionOK'
    <3>1. uncommitted'[c] = 1 .. i /\ done'[c] = i /\ session'[c] = "open" /\ job'[c] = t
      BY <1>1, <2>1, <2>2 DEF DbIInv, Typed
    <3>2. CASE i = Size[t]
      <4>1. pc'[c] = "commit" /\ uncommitted'[c] = Rows(t)
        BY <2>1, <3>1, <3>2 DEF DbIInv, Typed, Rows
      <4>2. \A d \in Conns \ {c} : UNCHANGED <<pc[d], job[d], session[d], uncommitted[d], done[d]>>
        BY <2>1 DEF DbIInv, Typed
      <4>3. QED
        BY <1>3, <3>1, <4>1, <4>2 DEF DbIInv, SessionOK, Rows
    <3>3. CASE i # Size[t]
      <4>1. pc'[c] = "statement" /\ i < Size[t]
        BY <1>1, <2>1, <3>3 DEF DbIInv, Typed
      <4>2. \A d \in Conns \ {c} : UNCHANGED <<pc[d], job[d], session[d], uncommitted[d], done[d]>>
        BY <2>1 DEF DbIInv, Typed
      <4>3. QED
        BY <1>3, <3>1, <4>1, <4>2 DEF DbIInv, SessionOK, Rows
    <3>4. QED
      BY <3>2, <3>3
  <2>7. QED
    BY <2>3, <2>5, <2>6 DEF DbIInv, Bookkeeping
<1>4. QED
  BY <1>2, <1>3

(* A new operation is held by nobody and in no queue yet. *)
LEMMA NewIsNowhere ==
  ASSUME DbIInv, NEW t \in Values, outcome[t] = "none"
  PROVE  /\ \A c \in Conns : Held(c) # t
         /\ \A i \in 1 .. Len(queue) : queue[i] # t
         /\ stored[t] = Zero(t)
BY NullNotAValue DEF DbIInv, HeldIsQueued, QueueIsQueued, Clean

(* Enqueue hands an operation to the queue. *)
LEMMA EnqueueStep ==
  ASSUME DbIInv, NEW t \in Values, Enqueue(t)
  PROVE  DbIInv' /\ StoreStep
<1> USE DEF Enqueue, Push, jobVars, storeVars
<1>1. /\ \A c \in Conns : Held(c) # t /\ Held(c) \in Values \cup {Null}
      /\ \A i \in 1 .. Len(queue) : queue[i] # t
      /\ stored[t] = Zero(t)
  BY NewIsNowhere, HeldTyped DEF DbIInv
<1>2. Typed' /\ BusyHolds'
  BY DEF DbIInv, Typed, BusyHolds, Busy
<1>3. \A c \in Conns : Held(c)' = Held(c)
  BY DEF DbIInv, Typed, Held, Busy
<1>4. HeldIsQueued' /\ HeldApart'
  BY <1>1, <1>3 DEF DbIInv, Typed, HeldIsQueued, HeldApart
<1>5. QueueIsQueued'
  <2>1. /\ Len(queue) \in Nat /\ Len(queue') = Len(queue) + 1
        /\ queue'[Len(queue) + 1] = t
        /\ \A i \in 1 .. Len(queue) : queue'[i] = queue[i] /\ queue[i] \in Values
    BY DEF DbIInv, Typed
  <2>2. ASSUME NEW i \in 1 .. Len(queue')
        PROVE  i \in 1 .. Len(queue) \/ i = Len(queue) + 1
    BY <2>1
  <2>3. \A i \in 1 .. Len(queue') : outcome'[queue'[i]] = "queued"
    BY <1>1, <2>1, <2>2 DEF DbIInv, Typed, QueueIsQueued
  <2>4. \A i \in 1 .. Len(queue') : \A c \in Conns : Held(c) # queue'[i]
    BY <1>1, <2>1, <2>2 DEF DbIInv, QueueIsQueued
  <2>5. \A i, j \in 1 .. Len(queue') : i # j => queue'[i] # queue'[j]
    BY <1>1, <2>1, <2>2 DEF DbIInv, QueueIsQueued
  <2>6. QED
    BY <1>3, <2>3, <2>4, <2>5 DEF QueueIsQueued
<1>6. Clean' /\ SessionOK'
  BY <1>1 DEF DbIInv, Typed, Clean, SessionOK, Rows, Zero, One
<1>7. StoreStep
  BY DEF StoreStep, AS!StoreNext, AS!Submit
<1>8. QED
  BY <1>2, <1>4, <1>5, <1>6, <1>7 DEF DbIInv

(* DirectCommitTransaction hands it to a synchronous connection. *)
LEMMA DirectCommitStep ==
  ASSUME DbIInv, NEW t \in Values, NEW c \in SyncConns, DirectCommit(t, c)
  PROVE  DbIInv' /\ StoreStep
<1> USE DEF DirectCommit, queueVars, storeVars, poolVars
<1>0. c \in Conns /\ t # Null
  BY NullNotAValue DEF Conns
<1>1. /\ \A d \in Conns : Held(d) # t /\ Held(d) \in Values \cup {Null}
      /\ \A i \in 1 .. Len(queue) : queue[i] # t /\ queue[i] \in Values
      /\ stored[t] = Zero(t)
  BY NewIsNowhere, HeldTyped DEF DbIInv, Typed
<1>2. Typed' /\ BusyHolds'
  BY <1>0 DEF DbIInv, Typed, BusyHolds, Busy
<1>3. Held(c)' = t /\ Held(c) = Null /\ \A d \in Conns \ {c} : Held(d)' = Held(d)
  BY <1>0 DEF DbIInv, Typed, Held, Busy
<1>4. HeldIsQueued' /\ HeldApart'
  <2>1. ASSUME NEW d \in Conns, Held(d)' # Null
        PROVE  outcome'[Held(d)'] = "queued"
    <3>1. CASE d = c
      BY <1>3, <3>1 DEF DbIInv, Typed
    <3>2. CASE d # c
      <4>1. Held(d)' = Held(d) /\ Held(d) # t /\ Held(d) \in Values /\ outcome[Held(d)] = "queued"
        BY <1>1, <1>3, <2>1, <3>2 DEF DbIInv, HeldIsQueued
      <4> QED BY <4>1 DEF DbIInv, Typed
    <3> QED BY <3>1, <3>2
  <2>2. ASSUME NEW d \in Conns, NEW e \in Conns, Held(d)' # Null, Held(d)' = Held(e)'
        PROVE  d = e
    BY <1>1, <1>3, <2>2 DEF DbIInv, HeldApart
  <2>3. QED
    BY <2>1, <2>2 DEF HeldIsQueued, HeldApart
<1>5. QueueIsQueued'
  BY <1>0, <1>1, <1>3 DEF DbIInv, Typed, QueueIsQueued
<1>6. Clean' /\ SessionOK'
  BY <1>0, <1>1 DEF DbIInv, Typed, Clean, SessionOK, Rows, Zero, One
<1>7. StoreStep
  BY DEF StoreStep, AS!StoreNext, AS!Submit
<1>8. QED
  BY <1>2, <1>4, <1>5, <1>6, <1>7 DEF DbIInv

-----------------------------------------------------------------------------
(* The worker thread and the close. *)

(* A worker that waits holds nothing. *)
LEMMA WorkerWaitsStep ==
  ASSUME DbIInv, NEW w \in Consumers, WorkerWaits(w)
  PROVE  DbIInv' /\ StoreStep
<1> USE DEF WorkerWaits, jobVars, storeVars, poolVars
<1>0. w \in Conns
  BY DEF Conns
<1>1. /\ UNCHANGED <<pc, job, done, session, uncommitted, stored, outcome, queue>>
      /\ value' \in [Consumers -> Values \cup {Null}]
      /\ \A v \in Consumers \ {w} : value'[v] = value[v]
  BY DEF EnterWaitAndPop, Wait, SpuriousWakeup, DbIInv, Typed
<1>2. Typed' /\ BusyHolds' /\ SessionOK'
  BY <1>1 DEF DbIInv, Typed, BusyHolds, Busy, SessionOK, Rows
<1>3. \A d \in Conns : Held(d)' = Held(d)
  BY <1>0, <1>1 DEF DbIInv, Typed, Held, Busy, Conns
<1>4. Bookkeeping' /\ StoreStep
  BY <1>1, <1>3, QuietStep DEF DbIInv, Bookkeeping
<1>5. QED
  BY <1>2, <1>4 DEF DbIInv, Bookkeeping

(* A worker that calls WaitAndPop holds nothing. *)
LEMMA WorkerCallsStep ==
  ASSUME DbIInv, NEW w \in Consumers, WorkerCalls(w)
  PROVE  DbIInv' /\ StoreStep
<1> USE DEF WorkerCalls, queueVars, storeVars, poolVars
<1>0. w \in Conns
  BY DEF Conns
<1>1. Typed' /\ BusyHolds' /\ SessionOK'
  BY <1>0 DEF DbIInv, Typed, BusyHolds, Busy, SessionOK, Rows
<1>2. \A d \in Conns : Held(d)' = Held(d)
  BY <1>0 DEF DbIInv, Typed, Held, Busy
<1>3. Bookkeeping' /\ StoreStep
  BY <1>2, QuietStep DEF DbIInv, Bookkeeping
<1>4. QED
  BY <1>1, <1>3 DEF DbIInv, Bookkeeping

(* A worker inside WaitAndPop still has the nullptr it came with. *)
InsideIsEmpty ==
  /\ cstate \in [Consumers -> {"outside", "ready", "waiting"}]
  /\ \A w \in Consumers : cstate[w] # "outside" => value[w] = Null /\ pc[w] = "idle"

(* A worker takes the oldest operation of the queue for its connection. *)
LEMMA WorkerPopsStep ==
  ASSUME DbIInv, InsideIsEmpty, NEW w \in Consumers, WorkerPops(w)
  PROVE  DbIInv' /\ StoreStep
<1> USE DEF WorkerPops, storeVars, poolVars
<1>0. w \in Conns /\ pc[w] = "idle" /\ Held(w) = Null
  BY DEF Conns, Held, Busy
<1>1. CASE ReturnEmptyHanded(w)
  <2>1. UNCHANGED <<queue, value>> /\ value[w] = Null
    BY <1>1 DEF ReturnEmptyHanded, InsideIsEmpty
  <2>2. Typed' /\ BusyHolds' /\ SessionOK'
    BY <1>0, <2>1, ConnsAssumption DEF DbIInv, Typed, BusyHolds, Busy, SessionOK, Rows, Conns
  <2>3. \A d \in Conns : Held(d)' = Held(d)
    BY <1>0, <2>1 DEF DbIInv, Typed, Held, Busy
  <2>4. Bookkeeping' /\ StoreStep
    BY <2>1, <2>3, QuietStep DEF DbIInv, Bookkeeping
  <2>5. QED
    BY <2>2, <2>4 DEF DbIInv, Bookkeeping
<1>2. CASE Take(w)
  <2> DEFINE t == queue[1]
  <2>1. /\ queue # <<>> /\ queue' = Tail(queue) /\ t \in Values
        /\ value' = [value EXCEPT ![w] = t] /\ Len(queue) \in Nat /\ Len(queue) > 0
    BY <1>2 DEF Take, DbIInv, Typed
  <2>2. /\ Len(queue') = Len(queue) - 1 /\ queue' \in Seq(Values)
        /\ \A i \in 1 .. Len(queue') : i + 1 \in 1 .. Len(queue) /\ queue'[i] = queue[i + 1]
    BY <2>1 DEF DbIInv, Typed
  <2>3. Typed' /\ BusyHolds' /\ SessionOK'
    <3>1. \A d \in SyncConns : pc'[d] # "popped"
      BY <1>0, ConnsAssumption DEF DbIInv, Typed, Conns
    <3>2. Typed'
      BY <1>0, <2>1, <2>2, <3>1 DEF DbIInv, Typed
    <3>3. QED
      BY <1>0, <3>2 DEF DbIInv, Typed, BusyHolds, Busy, SessionOK, Rows
  <2>4. Held(w)' = t /\ \A d \in Conns \ {w} : Held(d)' = Held(d)
    BY <1>0, <2>1 DEF DbIInv, Typed, Held, Busy, Conns
  <2>5. outcome[t] = "queued" /\ (\A d \in Conns : Held(d) # t) /\ t # Null
    BY <2>1, NullNotAValue DEF DbIInv, QueueIsQueued
  <2>6. HeldIsQueued' /\ HeldApart'
    BY <2>4, <2>5 DEF DbIInv, HeldIsQueued, HeldApart
  <2>7. QueueIsQueued'
    <3>1. ASSUME NEW i \in 1 .. Len(queue')
          PROVE  /\ outcome[queue'[i]] = "queued"
                 /\ \A d \in Conns : Held(d)' # queue'[i]
      BY <2>1, <2>2, <2>4 DEF DbIInv, QueueIsQueued
    <3>2. ASSUME NEW i \in 1 .. Len(queue'), NEW j \in 1 .. Len(queue'), i # j
          PROVE  queue'[i] # queue'[j]
      <4>1. i + 1 \in 1 .. Len(queue) /\ queue'[i] = queue[i + 1]
        BY <2>2
      <4>2. j + 1 \in 1 .. Len(queue) /\ queue'[j] = queue[j + 1]
        BY <2>2
      <4>3. i + 1 # j + 1
        BY <2>1, <2>2, <3>2
      <4> QED BY <4>1, <4>2, <4>3 DEF DbIInv, QueueIsQueued
    <3>3. QED
      BY <3>1, <3>2 DEF QueueIsQueued
  <2>8. Clean' /\ StoreStep
    BY DEF DbIInv, Clean, StoreStep, AS!storeVars, Zero, One, Rows
  <2>9. QED
    BY <2>3, <2>6, <2>7, <2>8 DEF DbIInv
<1>3. QED
  BY <1>1, <1>2

(* A worker ends, and its connection with it. *)
LEMMA WorkerEndsStep ==
  ASSUME DbIInv, NEW w \in Consumers, WorkerEnds(w)
  PROVE  DbIInv' /\ StoreStep
<1> USE DEF WorkerEnds, queueVars, storeVars, poolVars, Txns
<1>0. w \in Conns /\ Held(w) = value[w] /\ value[w] \in Values \cup {Null}
  BY DEF Conns, Held, DbIInv, Typed
<1>1. Typed' /\ BusyHolds' /\ SessionOK'
  BY <1>0 DEF DbIInv, Typed, BusyHolds, Busy, SessionOK, Rows
<1>2. Held(w)' = Null /\ \A d \in Conns \ {w} : Held(d)' = Held(d)
  BY <1>0 DEF DbIInv, Typed, Held, Busy
<1>3. \A d \in Conns \ {w} : Held(d) # Null => Held(d) \in Values /\ Held(d) # value[w]
  BY <1>0, HeldTyped DEF DbIInv, HeldApart
<1>4. HeldIsQueued' /\ HeldApart'
  <2>1. ASSUME NEW d \in Conns, Held(d)' # Null
        PROVE  d # w /\ Held(d)' = Held(d) /\ outcome'[Held(d)] = "queued"
    BY <1>2, <1>3, <2>1 DEF DbIInv, HeldIsQueued
  <2>2. QED
    BY <2>1 DEF DbIInv, HeldIsQueued, HeldApart
<1>5. QueueIsQueued'
  <2>1. \A i \in 1 .. Len(queue) : queue[i] \in Values /\ queue[i] # value[w]
    BY <1>0 DEF DbIInv, Typed, QueueIsQueued
  <2>2. \A i \in 1 .. Len(queue) : outcome'[queue[i]] = "queued"
    BY <2>1 DEF DbIInv, QueueIsQueued
  <2>3. \A i \in 1 .. Len(queue), d \in Conns : Held(d)' # queue[i]
    BY <1>2, <2>1, NullNotAValue DEF DbIInv, QueueIsQueued
  <2>4. QED
    BY <2>2, <2>3 DEF DbIInv, QueueIsQueued
<1>6. Clean' /\ StoreStep
  <2> DEFINE S == {value[w]} \ {Null}
  <2>1. S \in SUBSET Values /\ \A t \in S : outcome[t] = "queued" /\ stored[t] = Zero(t)
    BY <1>0 DEF DbIInv, HeldIsQueued, Clean
  <2>2. outcome' = [t \in Values |-> IF t \in S THEN "dropped" ELSE outcome[t]]
    BY NullNotAValue
  <2>3. AS!Discard(S)
    BY <2>1, <2>2 DEF AS!Discard, AS!Untouched, AS!Rows, Zero, Rows
  <2>4. QED
    BY <2>1, <2>2, <2>3 DEF StoreStep, AS!StoreNext, DbIInv, Clean, Zero, One, Rows
<1>7. QED
  BY <1>1, <1>4, <1>5, <1>6 DEF DbIInv

(* Close cancels the queue, and with it what nobody took. *)
LEMMA CloseCancelsQueueStep ==
  ASSUME DbIInv, CloseCancelsQueue
  PROVE  DbIInv' /\ StoreStep
<1> USE DEF CloseCancelsQueue, Cancel, jobVars, storeVars, Txns
<1> DEFINE S == {queue[i] : i \in 1 .. Len(queue)}
<1>1. S \in SUBSET Values /\ \A t \in S : outcome[t] = "queued" /\ stored[t] = Zero(t)
  BY DEF DbIInv, Typed, QueueIsQueued, Clean
<1>2. outcome' = [t \in Values |-> IF t \in S THEN "dropped" ELSE outcome[t]]
  <2>1. DOMAIN queue = 1 .. Len(queue)
    BY DEF DbIInv, Typed
  <2>2. QED
    BY <2>1
<1>3. Typed' /\ BusyHolds' /\ SessionOK'
  BY <1>2 DEF DbIInv, Typed, BusyHolds, Busy, SessionOK, Rows
<1>4. \A d \in Conns : /\ Held(d)' = Held(d)
                       /\ Held(d) # Null => Held(d) \in Values \ S
  BY HeldTyped DEF DbIInv, Typed, Held, Busy, QueueIsQueued
<1>5. HeldIsQueued' /\ HeldApart'
  BY <1>2, <1>4 DEF DbIInv, HeldIsQueued, HeldApart
<1>6. QueueIsQueued'
  BY DEF QueueIsQueued
<1>7. Clean' /\ StoreStep
  <2>1. AS!Discard(S)
    BY <1>1, <1>2 DEF AS!Discard, AS!Untouched, AS!Rows, Zero, Rows
  <2>2. QED
    BY <1>1, <1>2, <2>1 DEF StoreStep, AS!StoreNext, DbIInv, Clean, Zero, One, Rows
<1>8. QED
  BY <1>3, <1>5, <1>6, <1>7 DEF DbIInv

(* Steps of the close that touch no operation. *)
LEMMA NothingHappens ==
  ASSUME DbIInv, UNCHANGED <<queue, value, pc, job, done, session, uncommitted, stored, outcome>>
  PROVE  DbIInv' /\ StoreStep
<1>1. Typed' /\ BusyHolds' /\ SessionOK'
  BY DEF DbIInv, Typed, BusyHolds, Busy, SessionOK, Rows
<1>2. \A d \in Conns : Held(d)' = Held(d)
  BY DEF Held, Busy
<1>3. Bookkeeping' /\ StoreStep
  BY <1>2, QuietStep DEF DbIInv, Bookkeeping
<1>4. QED
  BY <1>1, <1>3 DEF DbIInv, Bookkeeping

(* The steps of one connection, while sessions last. *)
LEMMA ConnectionStep ==
  ASSUME SessionsLast, DbIInv, NEW c \in Conns, ConnStep(c) \/ ServerFault(c)
  PROVE  DbIInv' /\ StoreStep
<1>1. session[c] # "null"
  BY DEF DbIInv, Typed
<1>2. ~ExecuteOnNull(c) /\ ~BeginRefused(c) /\ ~Reconnect(c) /\ ~CommitReconnects(c) /\ ~ConnectionDies(c)
  BY <1>1 DEF ExecuteOnNull, BeginRefused, Reconnect, CommitReconnects, ConnectionDies, Fault, SessionsLast
<1>3. QED
  BY <1>2, ExecuteEmptyStep, BeginTransactionStep, ExecuteStep, CommitTransactionStep,
     CommitRefusedStep, LockAndRetryStep, StatementFailsStep DEF ConnStep, ServerFault

(* Every step of the pool keeps the invariant and refines the store. *)
LEMMA DbStep ==
  ASSUME SessionsLast, DbIInv, InsideIsEmpty, [DbNext]_dbVars
  PROVE  DbIInv' /\ StoreStep
<1>1. CASE UNCHANGED dbVars
  BY <1>1, NothingHappens DEF dbVars, queueVars, jobVars, storeVars
<1>2. ASSUME NEW t \in Values, Enqueue(t) \/ \E c \in SyncConns : DirectCommit(t, c)
      PROVE  DbIInv' /\ StoreStep
  BY <1>2, EnqueueStep, DirectCommitStep
<1>3. ASSUME NEW w \in Consumers, WorkerStep(w)
      PROVE  DbIInv' /\ StoreStep
  BY <1>3, WorkerWaitsStep, WorkerPopsStep, WorkerEndsStep, WorkerCallsStep DEF WorkerStep
<1>4. CASE CloseStep
  <2>1. CASE CloseCancelsQueue
    BY <2>1, CloseCancelsQueueStep
  <2>2. CASE CloseJoins \/ \E w \in Consumers : CloseSetsToken(w)
    BY <2>2, NothingHappens DEF CloseJoins, CloseSetsToken, queueVars, jobVars, storeVars
  <2>3. QED
    BY <1>4, <2>1, <2>2 DEF CloseStep
<1>5. QED
  BY <1>1, <1>2, <1>3, <1>4, ConnectionStep DEF DbNext, Terminated, Txns

-----------------------------------------------------------------------------
(* At first nobody is inside WaitAndPop with an operation. *)
LEMMA InsideInit == DbInit => InsideIsEmpty
BY DEF DbInit, QueueInit, InsideIsEmpty

(* A step of connection c does not touch the workers inside WaitAndPop.      *)
LEMMA InsideStep ==
  ASSUME pc \in [Conns -> {"idle", "popped", "begin", "statement", "commit", "lock", "ended"}],
         value \in [Consumers -> Values \cup {Null}], InsideIsEmpty, [DbNext]_dbVars
  PROVE  InsideIsEmpty'
<1>0. ASSUME UNCHANGED <<cstate, value>>,
             \A w \in Consumers : pc[w] = "idle" => pc'[w] = "idle"
      PROVE  InsideIsEmpty'
  BY <1>0 DEF InsideIsEmpty
<1>1. CASE UNCHANGED dbVars \/ CloseJoins \/ \E w \in Consumers : CloseSetsToken(w)
  BY <1>0, <1>1 DEF dbVars, queueVars, jobVars, CloseJoins, CloseSetsToken
<1>2. ASSUME NEW t \in Values, Enqueue(t)
      PROVE  InsideIsEmpty'
  BY <1>2 DEF Enqueue, Push, NotifyOne, Waiting, jobVars, InsideIsEmpty
<1>3. ASSUME NEW t \in Values, NEW c \in SyncConns, DirectCommit(t, c)
      PROVE  InsideIsEmpty'
  BY <1>0, <1>3, ConnsAssumption DEF DirectCommit, queueVars, Conns
<1>4. ASSUME NEW c \in Conns, ConnStep(c) \/ ServerFault(c)
      PROVE  InsideIsEmpty'
  <2>1. UNCHANGED <<cstate, value>>
    BY <1>4 DEF ConnStep, ServerFault, BeginRefused, CommitRefused, ExecuteEmpty, BeginTransaction, Execute, ExecuteOnNull,
       CommitTransaction, LockAndRetry, StatementFails, Reconnect, CommitReconnects, ConnectionDies,
       queueVars
  <2>2. pc[c] # "idle" /\ (pc' = pc \/ \E p \in {"idle", "begin", "statement", "commit", "lock"} :
                                          pc' = [pc EXCEPT ![c] = p])
    BY <1>4 DEF ConnStep, ServerFault, BeginRefused, CommitRefused, ExecuteEmpty, BeginTransaction, Execute, ExecuteOnNull,
       CommitTransaction, LockAndRetry, StatementFails, Reconnect, CommitReconnects, ConnectionDies,
       Abort, Finish, jobVars
  <2>3. QED
    BY <1>0, <2>1, <2>2 DEF Conns
<1>5. ASSUME NEW w \in Consumers, WorkerStep(w)
      PROVE  InsideIsEmpty'
  <2>1. CASE WorkerWaits(w)
    <3>1. /\ pc[w] = "idle" /\ pc' = pc
          /\ \E s \in {"ready", "waiting"} : cstate' = [cstate EXCEPT ![w] = s]
          /\ \/ cstate[w] = "outside" /\ value' = [value EXCEPT ![w] = Null]
             \/ cstate[w] # "outside" /\ value' = value
      BY <2>1 DEF WorkerWaits, EnterWaitAndPop, Wait, SpuriousWakeup, jobVars
    <3>2. value'[w] = Null
      BY <3>1 DEF InsideIsEmpty
    <3>3. \A v \in Consumers \ {w} : cstate'[v] = cstate[v] /\ value'[v] = value[v]
      BY <3>1 DEF InsideIsEmpty
    <3>4. cstate' \in [Consumers -> {"outside", "ready", "waiting"}]
      BY <3>1 DEF InsideIsEmpty
    <3>5. QED
      BY <3>1, <3>2, <3>3, <3>4 DEF InsideIsEmpty
  <2>2. CASE WorkerPops(w)
    BY <2>2 DEF WorkerPops, Take, ReturnEmptyHanded, InsideIsEmpty, Conns
  <2>3. CASE WorkerEnds(w) \/ WorkerCalls(w)
    BY <1>0, <2>3 DEF WorkerEnds, WorkerCalls, queueVars, Conns
  <2>4. QED
    BY <1>5, <2>1, <2>2, <2>3 DEF WorkerStep
<1>6. CASE CloseCancelsQueue
  BY <1>6 DEF CloseCancelsQueue, Cancel, NotifyAll, jobVars, InsideIsEmpty
<1>7. QED
  BY <1>1, <1>2, <1>3, <1>4, <1>5, <1>6 DEF DbNext, CloseStep, Terminated, Txns

(* While START TRANSACTION is answered and no connection is lost, the        *)
(* database layer implements AtomicStore: every transaction takes effect     *)
(* once and as a whole in the step that reports its success, or not at all,  *)
(* for any number of worker threads, synchronous connections, transactions,  *)
(* deadlocks, errors and retries, and whenever the pool is closed.  Only a   *)
(* server that refuses COMMITs, whose result CommitTransaction ignores,      *)
(* makes it report success with nothing stored.                              *)
THEOREM PoolImplementsAtomicStore ==
  ASSUME SessionsLast
  PROVE  DbSpec => ImplementsAtomicStore
<1>1. DbInit => AS!StoreInit
  BY DEF DbInit, AS!StoreInit, AS!Rows, Rows, Txns
<1>2. DbInit => DbIInv /\ InsideIsEmpty
  BY DbInitIInv, InsideInit
<1>3. DbIInv /\ InsideIsEmpty /\ [DbNext]_dbVars => (DbIInv /\ InsideIsEmpty)'
  BY DbStep, InsideStep DEF DbIInv, Typed
<1>4. DbIInv /\ InsideIsEmpty /\ [DbNext]_dbVars => [AS!StoreNext]_AS!storeVars
  BY DbStep DEF StoreStep
<1>5. QED
  BY <1>1, <1>2, <1>3, <1>4, PTL DEF DbSpec, ImplementsAtomicStore, AS!StoreSpec
-----------------------------------------------------------------------------
(* The rest holds under lost and dead connections too.  First the types,     *)
(* with what they rest on: only workers pop, end or wait for _deadlockLock,  *)
(* a busy connection has an operation, and the close has a connection.       *)

ThreadTypes ==
  /\ pc \in [Conns -> {"idle", "popped", "begin", "statement", "commit", "lock", "ended"}]
  /\ job \in [Conns -> Values \cup {Null}]
  /\ done \in [Conns -> Nat]
  /\ retry \in [Conns -> Nat]
  /\ deadlockLock \in Consumers \cup {Null}
  /\ outcome \in [Values -> {"none", "queued", "ok", "failed", "dropped"}]
  /\ \A c \in SyncConns : pc[c] \notin {"popped", "lock", "ended"}
  /\ \A c \in Conns : retry[c] <= RetryLimit(c) /\ (Busy(c) => job[c] # Null)

ServerTypes ==
  /\ session \in [Conns -> {"auto", "open", "null"}]
  /\ uncommitted \in [Conns -> SUBSET Nat]
  /\ stored = [t \in Values |-> stored[t]]
  /\ \A t \in Values : stored[t] \in [Rows(t) -> Nat]

CloseTypes ==
  /\ faults \in 0 .. MaxFaults
  /\ cancel \subseteq Consumers /\ closed \subseteq Consumers
  /\ closing \in Consumers \cup {Null} /\ closePc \in {"next", "token", "join"}
  /\ aborted \in BOOLEAN
  /\ pushed \in Seq(Values)
  /\ closePc # "next" => closing \in Consumers
  /\ shutdown => queue = <<>>
  /\ shutdown \/ closePc # "next" => cancel # {}

PoolTypes == QueueTypeOK /\ ThreadTypes /\ ServerTypes /\ CloseTypes

(* A pool that was just opened. *)
LEMMA TypesInit == DbInit => PoolTypes
<1> SUFFICES ASSUME DbInit PROVE PoolTypes
  OBVIOUS
<1> USE DEF DbInit, Txns
<1>1. QueueTypeOK
  <2>1. queue \in Seq(Values) /\ cstate \in [Consumers -> {"outside", "ready", "waiting"}]
    BY DEF QueueInit
  <2>2. value \in [Consumers -> Values \cup {Null}]
    BY DEF QueueInit
  <2> QED BY <2>1, <2>2, Zenon DEF QueueInit, QueueTypeOK
<1>2. ThreadTypes
  BY RetriesAssumption DEF ThreadTypes, Busy, RetryLimit, Conns
<1>3. ServerTypes
  BY DEF ServerTypes
<1>4. CloseTypes
  <2>1. faults \in 0 .. MaxFaults /\ pushed \in Seq(Values) /\ cancel \subseteq Consumers /\ closed \subseteq Consumers
    BY RetriesAssumption
  <2>2. aborted \in BOOLEAN /\ ~shutdown
    BY Zenon DEF QueueInit
  <2>3. closing \in Consumers \cup {Null} /\ closePc \in {"next", "token", "join"} /\ closePc = "next"
    OBVIOUS
  <2> QED BY <2>1, <2>2, <2>3, Zenon DEF CloseTypes
<1> QED BY <1>1, <1>2, <1>3, <1>4 DEF PoolTypes

(* The end of an operation frees the connection. *)
LEMMA FinishTypes ==
  ASSUME ThreadTypes, NEW c \in Conns, Busy(c), NEW o \in {"ok", "failed"}, Finish(c, o)
  PROVE  ThreadTypes'
<1>1. job[c] \in Values
  BY DEF ThreadTypes
<1>2. \A d \in Conns : RetryLimit(d) \in Nat
  BY RetriesAssumption DEF RetryLimit
<1> QED BY <1>1, <1>2 DEF ThreadTypes, Finish, Busy, Conns

(* A failed statement ends the operation, or starts it again. *)
LEMMA AbortTypes ==
  ASSUME ThreadTypes, ServerTypes, NEW c \in Conns, Busy(c), NEW code, Abort(c, code), UNCHANGED stored
  PROVE  ThreadTypes' /\ ServerTypes'
<1>1. ServerTypes'
  BY DEF ServerTypes, Abort, Rollback
<1>2. \A d \in Conns : RetryLimit(d) \in Nat
  BY RetriesAssumption DEF RetryLimit
<1>3. CASE Finish(c, "failed")
  BY <1>1, <1>3, FinishTypes
<1>4. CASE /\ c \in Consumers
           /\ pc' = [pc EXCEPT ![c] = "lock"] /\ done' = [done EXCEPT ![c] = 0]
           /\ UNCHANGED <<job, retry, deadlockLock, outcome>>
  BY <1>1, <1>4, ConnsAssumption DEF ThreadTypes, Busy, Conns, RetryLimit
<1>5. CASE /\ retry[c] < RetryLimit(c)
           /\ pc' = [pc EXCEPT ![c] = "begin"] /\ done' = [done EXCEPT ![c] = 0]
           /\ retry' = [retry EXCEPT ![c] = @ + 1]
           /\ UNCHANGED <<job, deadlockLock, outcome>>
  <2>1. \A d \in Conns : retry'[d] \in Nat /\ retry'[d] <= RetryLimit(d)
    BY <1>2, <1>5 DEF ThreadTypes
  <2>2. retry' \in [Conns -> Nat]
    BY <1>5 DEF ThreadTypes
  <2> QED
    BY <1>1, <1>5, <2>1, <2>2 DEF ThreadTypes, Busy, Conns, RetryLimit
<1> QED BY <1>3, <1>4, <1>5 DEF Abort

(* What the server does with a statement or a COMMIT. *)
LEMMA WriteTypes ==
  ASSUME ThreadTypes, ServerTypes, NEW c \in Conns, Busy(c), NEW i \in Nat,
         \/ stored' = [stored EXCEPT ![job[c]][i] = @ + 1]
         \/ stored' = [stored EXCEPT ![job[c]] =
                         [r \in Rows(job[c]) |-> @[r] + IF r \in uncommitted[c] THEN 1 ELSE 0]],
         session' \in [Conns -> {"auto", "open", "null"}], uncommitted' \in [Conns -> SUBSET Nat]
  PROVE  ServerTypes'
<1>1. PICK t \in Values : t = job[c]
  BY DEF ThreadTypes
<1>2. PICK f \in [Rows(t) -> Nat] : stored' = [stored EXCEPT ![t] = f]
  <2>1. CASE stored' = [stored EXCEPT ![job[c]][i] = @ + 1]
    <3>1. [stored[t] EXCEPT ![i] = @ + 1] \in [Rows(t) -> Nat]
      <4>1. stored[t] \in [Rows(t) -> Nat]
        BY DEF ServerTypes
      <4>2. CASE i \in Rows(t)
        BY <4>1, <4>2
      <4>3. CASE i \notin Rows(t)
        BY <4>1, <4>3
      <4> QED BY <4>2, <4>3
    <3> QED BY <1>1, <2>1, <3>1
  <2>2. CASE stored' = [stored EXCEPT ![job[c]] =
                          [r \in Rows(job[c]) |-> @[r] + IF r \in uncommitted[c] THEN 1 ELSE 0]]
    <3>1. [r \in Rows(t) |-> stored[t][r] + IF r \in uncommitted[c] THEN 1 ELSE 0] \in [Rows(t) -> Nat]
      BY DEF ServerTypes
    <3> QED BY <1>1, <2>2, <3>1
  <2> QED BY <2>1, <2>2
<1> QED BY <1>1, <1>2 DEF ServerTypes

(* The steps of one connection, and the server's faults. *)
LEMMA ConnectionTypes ==
  ASSUME PoolTypes, NEW c \in Conns, ConnStep(c) \/ ServerFault(c)
  PROVE  PoolTypes'
<1> USE DEF PoolTypes
<1>0. RetryLimit(c) \in Nat /\ (c \in Consumers => RetryLimit(c) >= 1)
  BY RetriesAssumption, ConnsAssumption DEF RetryLimit
<1>1. QueueTypeOK' /\ UNCHANGED <<cancel, closing, closePc, closed, pushed, queue, shutdown>>
  BY DEF ConnStep, ServerFault, BeginRefused, CommitRefused, ExecuteEmpty, BeginTransaction, Execute, ExecuteOnNull,
     CommitTransaction, LockAndRetry, StatementFails, Reconnect, CommitReconnects, ConnectionDies,
     queueVars, poolVars, QueueTypeOK
<1>2. faults' \in 0 .. MaxFaults /\ aborted' \in BOOLEAN
  <2>1. faults' \in 0 .. MaxFaults
    BY RetriesAssumption DEF ConnStep, ServerFault, BeginRefused, CommitRefused, ExecuteEmpty, BeginTransaction, Execute, ExecuteOnNull,
       CommitTransaction, LockAndRetry, StatementFails, Reconnect, CommitReconnects, ConnectionDies,
       Fault, CloseTypes
  <2>2. aborted' = aborted \/ aborted' = TRUE
    BY DEF ConnStep, ServerFault, BeginRefused, CommitRefused, ExecuteEmpty, BeginTransaction, Execute, ExecuteOnNull,
       CommitTransaction, LockAndRetry, StatementFails, Reconnect, CommitReconnects, ConnectionDies,
       poolVars
  <2> QED BY <2>1, <2>2, Zenon DEF CloseTypes
<1>3. CloseTypes'
  BY <1>1, <1>2 DEF CloseTypes
<1>b. Busy(c)
  BY DEF ConnStep, ServerFault, BeginRefused, CommitRefused, ExecuteEmpty, BeginTransaction, Execute, ExecuteOnNull,
     CommitTransaction, LockAndRetry, StatementFails, Reconnect, CommitReconnects, ConnectionDies, Busy
<1>r. Rollback(c) => /\ session' \in [Conns -> {"auto", "open", "null"}]
                     /\ uncommitted' \in [Conns -> SUBSET Nat]
  BY DEF Rollback, ServerTypes
<1>4. CASE ExecuteEmpty(c)
  BY <1>1, <1>3, <1>4, <1>b, FinishTypes DEF ExecuteEmpty, ServerTypes, storeVars
<1>5. CASE BeginTransaction(c)
  <2>1. ServerTypes'
    BY <1>5 DEF BeginTransaction, ServerTypes
  <2>2. ThreadTypes'
    BY <1>5 DEF BeginTransaction, ThreadTypes, Busy, Conns, RetryLimit
  <2> QED BY <1>1, <1>3, <2>1, <2>2
<1>6. CASE Execute(c)
  <2>1. ServerTypes'
    <3>1. CASE stored' = stored
      <4>1. session' = session /\ done[c] + 1 \in Nat
        BY <1>6 DEF Execute, ThreadTypes
      <4>2. uncommitted' = uncommitted \/ uncommitted' = [uncommitted EXCEPT ![c] = @ \cup {done[c] + 1}]
        BY <1>6 DEF Execute, Write
      <4>3. uncommitted' \in [Conns -> SUBSET Nat]
        BY <4>1, <4>2 DEF ServerTypes
      <4> QED BY <3>1, <4>1, <4>3 DEF ServerTypes
    <3>2. CASE stored' # stored
      <4>1. stored' = [stored EXCEPT ![job[c]][done[c] + 1] = @ + 1] /\ UNCHANGED <<session, uncommitted>>
        BY <1>6, <3>2 DEF Execute, Write
      <4>2. done[c] + 1 \in Nat
        BY DEF ThreadTypes
      <4>3. session' \in [Conns -> {"auto", "open", "null"}] /\ uncommitted' \in [Conns -> SUBSET Nat]
        BY <4>1 DEF ServerTypes
      <4> QED BY <1>b, <4>1, <4>2, <4>3, WriteTypes
    <3> QED BY <3>1, <3>2
  <2>2. CASE job[c] \in Singles
    BY <1>1, <1>3, <1>6, <1>b, <2>1, <2>2, FinishTypes DEF Execute
  <2>3. CASE job[c] \notin Singles
    <3>1. ThreadTypes'
      BY <1>6, <1>b, <2>3 DEF Execute, ThreadTypes, Busy, Conns, RetryLimit
    <3> QED BY <1>1, <1>3, <2>1, <3>1
  <2> QED BY <2>2, <2>3
<1>7. CASE ExecuteOnNull(c)
  <2>1. CASE Finish(c, "ok") /\ UNCHANGED <<uncommitted, session>>
    BY <1>1, <1>3, <1>7, <1>b, <2>1, FinishTypes DEF ExecuteOnNull, ServerTypes
  <2>2. CASE Abort(c, "error")
    BY <1>1, <1>3, <1>7, <1>b, <2>2, AbortTypes DEF ExecuteOnNull
  <2> QED BY <1>7, <2>1, <2>2 DEF ExecuteOnNull
<1>8. CASE CommitTransaction(c)
  <2>1. ServerTypes'
    BY <1>8, <1>b, <1>r, WriteTypes DEF CommitTransaction
  <2> QED BY <1>1, <1>3, <1>8, <1>b, <2>1, FinishTypes DEF CommitTransaction
<1>9. CASE LockAndRetry(c)
  <2>1. c \in Consumers
    BY <1>9 DEF LockAndRetry, ThreadTypes, Conns
  <2>2. ThreadTypes'
    BY <1>0, <1>9, <2>1, ConnsAssumption DEF LockAndRetry, ThreadTypes, Busy, Conns, RetryLimit
  <2> QED BY <1>1, <1>3, <1>9, <2>2 DEF LockAndRetry, ServerTypes, storeVars
<1>10. ASSUME NEW code, StatementFails(c, code)
       PROVE  PoolTypes'
  BY <1>1, <1>3, <1>10, <1>b, AbortTypes DEF StatementFails
<1>11. ASSUME UNCHANGED <<jobVars, outcome>>
       PROVE  ThreadTypes'
  BY <1>11 DEF jobVars, ThreadTypes, Busy, RetryLimit
<1>12. CASE Reconnect(c) \/ CommitReconnects(c)
  <2>1. UNCHANGED <<jobVars, outcome>> /\ Rollback(c)
    BY <1>12 DEF Reconnect, CommitReconnects
  <2>2. ServerTypes'
    <3>1. CASE stored' = stored
      BY <1>r, <2>1, <3>1 DEF ServerTypes
    <3>2. CASE stored' # stored
      <4>1. \/ stored' = [stored EXCEPT ![job[c]][done[c] + 1] = @ + 1]
            \/ stored' = [stored EXCEPT ![job[c]] =
                            [r \in Rows(job[c]) |-> @[r] + IF r \in uncommitted[c] THEN 1 ELSE 0]]
        BY <1>12, <3>2 DEF Reconnect, CommitReconnects
      <4> QED BY <1>b, <1>r, <2>1, <4>1, WriteTypes DEF ThreadTypes
    <3> QED BY <3>1, <3>2
  <2> QED BY <1>1, <1>3, <1>11, <2>1, <2>2
<1>13. CASE ConnectionDies(c)
  <2>1. ServerTypes'
    BY <1>13 DEF ConnectionDies, ServerTypes
  <2> QED BY <1>1, <1>3, <1>11, <1>13, <2>1 DEF ConnectionDies
<1>14. CASE BeginRefused(c)
  <2>1. ServerTypes'
    BY <1>14 DEF BeginRefused, ServerTypes, storeVars
  <2>2. ThreadTypes'
    BY <1>14 DEF BeginRefused, ThreadTypes, Busy, Conns, RetryLimit
  <2> QED BY <1>1, <1>3, <2>1, <2>2
<1>15. CASE CommitRefused(c)
  <2>1. ServerTypes'
    BY <1>15, <1>r DEF CommitRefused, ServerTypes
  <2> QED BY <1>1, <1>3, <1>15, <1>b, <2>1, FinishTypes DEF CommitRefused
<1> QED
  BY <1>4, <1>5, <1>6, <1>7, <1>8, <1>9, <1>10, <1>12, <1>13, <1>14, <1>15 DEF ConnStep, ServerFault

(* Callers, workers and the close. *)
LEMMA TypesStep ==
  ASSUME PoolTypes, InsideIsEmpty, [DbNext]_dbVars
  PROVE  PoolTypes'
<1> USE DEF PoolTypes
<1>1. CASE UNCHANGED dbVars
  BY <1>1 DEF dbVars, queueVars, jobVars, storeVars, poolVars, QueueTypeOK, ThreadTypes, ServerTypes,
     CloseTypes, Busy, RetryLimit
<1>2. ASSUME NEW t \in Values, Enqueue(t)
      PROVE  PoolTypes'
  <2>1. QueueTypeOK'
    <3>1. queue' \in Seq(Values)
      BY <1>2 DEF Enqueue, Push, QueueTypeOK
    <3>2. cstate' \in [Consumers -> {"outside", "ready", "waiting"}]
      BY <1>2 DEF Enqueue, Push, NotifyOne, Waiting, QueueTypeOK
    <3> QED BY <1>2, <3>1, <3>2 DEF Enqueue, Push, QueueTypeOK
  <2>2. ThreadTypes'
    BY <1>2 DEF Enqueue, jobVars, ThreadTypes, Busy, RetryLimit
  <2>3. CloseTypes'
    BY <1>2 DEF Enqueue, Push, CloseTypes
  <2> QED BY <1>2, <2>1, <2>2, <2>3 DEF Enqueue, ServerTypes, storeVars
<1>3. ASSUME NEW t \in Values, NEW c \in SyncConns, DirectCommit(t, c)
      PROVE  PoolTypes'
  <2>1. ThreadTypes'
    BY <1>3, NullNotAValue DEF DirectCommit, ThreadTypes, Busy, Conns, RetryLimit
  <2> QED BY <1>3, <2>1 DEF DirectCommit, queueVars, storeVars, poolVars, QueueTypeOK, ServerTypes, CloseTypes
<1>4. ASSUME NEW w \in Consumers, WorkerStep(w)
      PROVE  PoolTypes'
  <2>1. ServerTypes'
    BY <1>4 DEF WorkerStep, WorkerWaits, WorkerPops, WorkerEnds, WorkerCalls, storeVars, ServerTypes
  <2>2. QueueTypeOK'
    <3>1. CASE EnterWaitAndPop(w) \/ Wait(w) \/ SpuriousWakeup(w) \/ ReturnEmptyHanded(w)
      BY <3>1 DEF EnterWaitAndPop, Wait, SpuriousWakeup, ReturnEmptyHanded, QueueTypeOK
    <3>2. CASE Take(w)
      <4>1. Head(queue) \in Values /\ Tail(queue) \in Seq(Values)
        BY <3>2 DEF Take, QueueTypeOK
      <4> QED BY <3>2, <4>1 DEF Take, QueueTypeOK
    <3>3. CASE UNCHANGED queueVars
      BY <3>3 DEF queueVars, QueueTypeOK
    <3> QED BY <1>4, <3>1, <3>2, <3>3 DEF WorkerStep, WorkerWaits, WorkerPops, WorkerEnds, WorkerCalls
  <2>3. UNCHANGED <<poolVars, faults, shutdown>> /\ (shutdown => queue' = queue)
    BY <1>4 DEF WorkerStep, WorkerWaits, WorkerPops, WorkerEnds, WorkerCalls, queueVars,
       EnterWaitAndPop, Wait, SpuriousWakeup, Take, ReturnEmptyHanded
  <2>4. CloseTypes'
    BY <2>3 DEF CloseTypes, poolVars
  <2>5. ThreadTypes'
    <3>1. CASE WorkerWaits(w)
      BY <3>1 DEF WorkerWaits, jobVars, ThreadTypes, Busy, RetryLimit
    <3>2. CASE WorkerPops(w)
      BY <3>2, ConnsAssumption DEF WorkerPops, ThreadTypes, Busy, Conns, RetryLimit
    <3>3. CASE WorkerEnds(w)
      BY <3>3, ConnsAssumption DEF WorkerEnds, ThreadTypes, Busy, Conns, RetryLimit, Txns
    <3>4. CASE WorkerCalls(w)
      BY <3>4, ConnsAssumption DEF WorkerCalls, ThreadTypes, QueueTypeOK, Busy, Conns, RetryLimit
    <3> QED BY <1>4, <3>1, <3>2, <3>3, <3>4 DEF WorkerStep
  <2> QED BY <2>1, <2>2, <2>4, <2>5
<1>5. CASE CloseStep
  <2>1. ServerTypes'
    BY <1>5 DEF CloseStep, CloseSetsToken, CloseCancelsQueue, CloseJoins, storeVars, ServerTypes
  <2>2. QueueTypeOK'
    <3>1. CASE CloseCancelsQueue
      <4>1. queue' \in Seq(Values) /\ cstate' \in [Consumers -> {"outside", "ready", "waiting"}]
        BY <3>1 DEF CloseCancelsQueue, Cancel, NotifyAll, QueueTypeOK
      <4> QED BY <3>1, <4>1, Zenon DEF CloseCancelsQueue, Cancel, QueueTypeOK
    <3>2. CASE CloseJoins \/ \E w \in Consumers : CloseSetsToken(w)
      BY <3>2 DEF CloseJoins, CloseSetsToken, queueVars, QueueTypeOK
    <3> QED BY <1>5, <3>1, <3>2 DEF CloseStep
  <2>3. ThreadTypes'
    BY <1>5 DEF CloseStep, CloseSetsToken, CloseCancelsQueue, CloseJoins, jobVars, ThreadTypes, Busy,
       RetryLimit, Txns
  <2>4. CloseTypes'
    <3>1. CASE CloseCancelsQueue
      BY <3>1 DEF CloseCancelsQueue, Cancel, CloseTypes
    <3>2. CASE CloseJoins
      BY <3>2 DEF CloseJoins, queueVars, CloseTypes
    <3>3. ASSUME NEW w \in Consumers, CloseSetsToken(w) PROVE CloseTypes'
      BY <3>3 DEF CloseSetsToken, queueVars, CloseTypes
    <3> QED BY <1>5, <3>1, <3>2, <3>3 DEF CloseStep
  <2> QED BY <2>1, <2>2, <2>3, <2>4
<1> QED
  BY <1>1, <1>2, <1>3, <1>4, <1>5, ConnectionTypes DEF DbNext, Terminated, Txns

(* Queue, connections, sessions, database rows and the state of the close    *)
(* keep their types whatever fails, and no transaction is retried more often *)
(* than its limit.                                                           *)
THEOREM PoolTypeCorrect == DbSpec => []DbTypeOK
<1>1. DbInit => PoolTypes /\ InsideIsEmpty
  BY TypesInit, InsideInit
<1>2. PoolTypes /\ InsideIsEmpty /\ [DbNext]_dbVars => (PoolTypes /\ InsideIsEmpty)'
  BY TypesStep, InsideStep DEF PoolTypes, ThreadTypes, QueueTypeOK
<1>3. PoolTypes => DbTypeOK
  <2> SUFFICES ASSUME PoolTypes PROVE DbTypeOK
    OBVIOUS
  <2>1. \A c \in Conns : retry[c] \in 0 .. RetryLimit(c)
    BY RetriesAssumption DEF PoolTypes, ThreadTypes, RetryLimit
  <2> QED
    BY <2>1, Zenon DEF PoolTypes, ThreadTypes, ServerTypes, CloseTypes, DbTypeOK, Txns
<1> QED BY <1>1, <1>2, <1>3, PTL DEF DbSpec

-----------------------------------------------------------------------------
(* The order in which operations are settled.  The workers take what was     *)
(* pushed from the front: before the shutdown the queue is the rest of it,   *)
(* and what they have begun is always a prefix.  Behind everything settled   *)
(* there is a worker that has no part in what came earlier, namely the one   *)
(* that settled it, which from then on takes only later operations.          *)

(* What a thread has taken from the queue or a caller, until it is settled;  *)
(* a worker that ends keeps for ever what it discards.                       *)
Carried(c) ==
  IF pc[c] \in {"popped", "ended"} THEN value[c] ELSE IF Busy(c) THEN job[c] ELSE Null

Settled(t) == outcome[t] \in {"ok", "failed"}

Begun(t) == Settled(t) \/ \E c \in Consumers : Carried(c) = t

PushedOnce ==
  \A i \in 1 .. Len(pushed) :
    /\ outcome[pushed[i]] # "none"
    /\ \A j \in 1 .. Len(pushed) : pushed[i] = pushed[j] => i = j
    /\ \A c \in SyncConns : Carried(c) # pushed[i]

CarriedIsOpen ==
  \A c \in Conns : Carried(c) # Null =>
    /\ outcome[Carried(c)] = IF pc[c] = "ended" THEN "dropped" ELSE "queued"
    /\ \A d \in Conns : Carried(c) = Carried(d) => c = d

QueuedIsOpen ==
  \A i \in 1 .. Len(queue) :
    /\ outcome[queue[i]] = "queued"
    /\ \A c \in Conns : Carried(c) # queue[i]

QueueIsRest ==
  ~shutdown =>
    \E k \in 0 .. Len(pushed) :
      /\ Len(pushed) = k + Len(queue)
      /\ \A i \in 1 .. Len(queue) : queue[i] = pushed[k + i]
      /\ \A i \in 1 .. k : Begun(pushed[i])

BegunInOrder ==
  \A j \in 1 .. Len(pushed) : Begun(pushed[j]) => \A i \in 1 .. j - 1 : Begun(pushed[i])

SomebodyIsBeyond ==
  \A j \in 1 .. Len(pushed) : Settled(pushed[j]) =>
    \E c \in Consumers : \A i \in 1 .. j - 1 : Carried(c) # pushed[i]

OrderInv ==
  /\ PushedOnce /\ CarriedIsOpen /\ QueuedIsOpen
  /\ QueueIsRest /\ BegunInOrder /\ SomebodyIsBeyond

(* Nothing is pushed at first. *)
LEMMA OrderInit == DbInit => OrderInv
<1> SUFFICES ASSUME DbInit PROVE OrderInv
  OBVIOUS
<1>1. Len(pushed) = 0 /\ Len(queue) = 0 /\ \A c \in Conns : Carried(c) = Null
  BY DEF DbInit, QueueInit, Carried, Busy
<1> QED
  BY <1>1 DEF OrderInv, PushedOnce, CarriedIsOpen, QueuedIsOpen, QueueIsRest, BegunInOrder, SomebodyIsBeyond

(* What is carried, queued and pushed are operations. *)
LEMMA CarriedTyped ==
  ASSUME PoolTypes
  PROVE  /\ \A c \in Conns : Carried(c) \in Values \cup {Null}
         /\ \A i \in 1 .. Len(pushed) : pushed[i] \in Values
         /\ \A i \in 1 .. Len(queue) : queue[i] \in Values
         /\ Len(pushed) \in Nat /\ Len(queue) \in Nat
         /\ outcome \in [Values -> {"none", "queued", "ok", "failed", "dropped"}]
<1>1. \A c \in Conns : Carried(c) \in Values \cup {Null}
  BY DEF PoolTypes, ThreadTypes, QueueTypeOK, Carried, Busy, Conns
<1> QED BY <1>1 DEF PoolTypes, CloseTypes, ThreadTypes, QueueTypeOK

SameEnds == \A c \in Conns : pc'[c] = "ended" <=> pc[c] = "ended"

(* A step that hands no operation on and settles none. *)
LEMMA QuietOrder ==
  ASSUME OrderInv, UNCHANGED <<queue, shutdown, pushed, outcome>>, SameEnds,
         \A c \in Conns : Carried(c)' = Carried(c)
  PROVE  OrderInv'
<1>1. PushedOnce' /\ QueuedIsOpen'
  BY DEF OrderInv, PushedOnce, QueuedIsOpen, Conns
<1>2. CarriedIsOpen'
  BY DEF OrderInv, CarriedIsOpen, SameEnds
<1>3. \A t : Begun(t)' <=> Begun(t)
  BY DEF Begun, Settled, Conns
<1>4. QueueIsRest' /\ BegunInOrder'
  BY <1>3 DEF OrderInv, QueueIsRest, BegunInOrder
<1>5. SomebodyIsBeyond'
  BY DEF OrderInv, SomebodyIsBeyond, Settled, Conns
<1> QED BY <1>1, <1>2, <1>4, <1>5 DEF OrderInv

(* A connection settles what it carries. *)
LEMMA SettlingOrder ==
  ASSUME PoolTypes, OrderInv, UNCHANGED <<queue, shutdown, pushed>>, SameEnds,
         NEW c \in Conns, NEW t \in Values, NEW o \in {"ok", "failed"},
         Carried(c) = t, Carried(c)' = Null, \A d \in Conns \ {c} : Carried(d)' = Carried(d),
         outcome' = [outcome EXCEPT ![t] = o]
  PROVE  OrderInv'
<1>0. /\ \A d \in Conns : Carried(d) \in Values \cup {Null}
      /\ \A i \in 1 .. Len(pushed) : pushed[i] \in Values
      /\ \A i \in 1 .. Len(queue) : queue[i] \in Values
      /\ outcome \in [Values -> {"none", "queued", "ok", "failed", "dropped"}]
  BY CarriedTyped
<1>1. \A d \in Conns \ {c} : Carried(d) # t
  BY NullNotAValue DEF OrderInv, CarriedIsOpen
<1>2. PushedOnce'
  BY <1>0, NullNotAValue DEF OrderInv, PushedOnce, Conns
<1>3. CarriedIsOpen'
  BY <1>0, <1>1, NullNotAValue DEF OrderInv, CarriedIsOpen, SameEnds
<1>4. QueuedIsOpen'
  BY <1>0, NullNotAValue DEF OrderInv, QueuedIsOpen
<1>5. \A i \in 1 .. Len(pushed) : pushed[i] = t => c \in Consumers
  BY DEF OrderInv, PushedOnce, Conns
<1>6. \A i \in 1 .. Len(pushed) : Begun(pushed[i])' <=> Begun(pushed[i])
  <2> SUFFICES ASSUME NEW i \in 1 .. Len(pushed) PROVE Begun(pushed[i])' <=> Begun(pushed[i])
    OBVIOUS
  <2>1. CASE pushed[i] = t
    BY <1>0, <1>5, <2>1 DEF Begun, Settled
  <2>2. CASE pushed[i] # t
    <3>1. Settled(pushed[i])' <=> Settled(pushed[i])
      BY <1>0, <2>2 DEF Settled
    <3>2. \A d \in Consumers : Carried(d)' = pushed[i] <=> Carried(d) = pushed[i]
      BY <1>0, <2>2, NullNotAValue DEF Conns
    <3> QED BY <3>1, <3>2 DEF Begun
  <2> QED BY <2>1, <2>2
<1>7. QueueIsRest'
  BY <1>6 DEF OrderInv, QueueIsRest
<1>8. BegunInOrder'
  BY <1>6 DEF OrderInv, BegunInOrder
<1>9. SomebodyIsBeyond'
  <2> SUFFICES ASSUME NEW j \in 1 .. Len(pushed), Settled(pushed[j])'
               PROVE  \E d \in Consumers : \A i \in 1 .. j - 1 : Carried(d)' # pushed[i]
    BY DEF SomebodyIsBeyond
  <2>1. CASE pushed[j] = t
    BY <1>0, <1>5, <2>1, NullNotAValue
  <2>2. CASE pushed[j] # t
    <3>1. Settled(pushed[j])
      BY <1>0, <2>2 DEF Settled
    <3>2. PICK d \in Consumers : \A i \in 1 .. j - 1 : Carried(d) # pushed[i]
      BY <3>1 DEF OrderInv, SomebodyIsBeyond
    <3>3. \A i \in 1 .. j - 1 : Carried(d)' # pushed[i]
      BY <1>0, <3>2, NullNotAValue DEF Conns
    <3> QED BY <3>3
  <2> QED BY <2>1, <2>2
<1> QED BY <1>2, <1>3, <1>4, <1>7, <1>8, <1>9 DEF OrderInv

(* A caller enqueues an operation. *)
LEMMA EnqueueOrder ==
  ASSUME PoolTypes, OrderInv, NEW t \in Values, Enqueue(t)
  PROVE  OrderInv'
<1>0. /\ \A d \in Conns : Carried(d) \in Values \cup {Null}
      /\ \A i \in 1 .. Len(pushed) : pushed[i] \in Values
      /\ \A i \in 1 .. Len(queue) : queue[i] \in Values
      /\ Len(pushed) \in Nat /\ Len(queue) \in Nat
      /\ outcome \in [Values -> {"none", "queued", "ok", "failed", "dropped"}]
  BY CarriedTyped
<1>1. /\ outcome[t] = "none" /\ outcome' = [outcome EXCEPT ![t] = "queued"]
      /\ pushed' = Append(pushed, t) /\ queue' = Append(queue, t)
      /\ shutdown' = shutdown /\ pc' = pc
      /\ \A d \in Conns : Carried(d)' = Carried(d)
  BY DEF Enqueue, Push, jobVars, Carried, Busy
<1>2. ~shutdown
  BY DEF Enqueue, PoolTypes, CloseTypes
<1>3. PICK n \in Nat : n = Len(pushed)
  BY <1>0
<1>4. PICK m \in Nat : m = Len(queue)
  BY <1>0
<1>5. /\ Len(pushed') = n + 1 /\ pushed'[n + 1] = t /\ \A i \in 1 .. n : pushed'[i] = pushed[i]
      /\ Len(queue') = m + 1 /\ queue'[m + 1] = t /\ \A i \in 1 .. m : queue'[i] = queue[i]
  BY <1>1, <1>3, <1>4 DEF PoolTypes, CloseTypes, QueueTypeOK
<1>6. /\ \A i \in 1 .. n : pushed[i] # t
      /\ \A i \in 1 .. m : queue[i] # t
      /\ \A d \in Conns : Carried(d) # t
  BY <1>1, <1>3, <1>4, NullNotAValue DEF OrderInv, PushedOnce, QueuedIsOpen, CarriedIsOpen
<1>7. /\ ~Begun(t)' /\ ~Settled(t)'
      /\ \A i \in 1 .. n : (Begun(pushed[i])' <=> Begun(pushed[i])) /\ (Settled(pushed[i])' <=> Settled(pushed[i]))
  <2>1. ~Settled(t)' /\ ~Begun(t)'
    BY <1>0, <1>1, <1>6 DEF Begun, Settled, Conns
  <2>2. ASSUME NEW i \in 1 .. n
        PROVE  (Begun(pushed[i])' <=> Begun(pushed[i])) /\ (Settled(pushed[i])' <=> Settled(pushed[i]))
    <3>1. pushed'[i] = pushed[i] /\ pushed[i] \in Values /\ pushed[i] # t
      BY <1>0, <1>3, <1>5, <1>6, <2>2
    <3>2. outcome'[pushed[i]] = outcome[pushed[i]]
      BY <1>0, <1>1, <3>1
    <3> QED BY <1>1, <3>1, <3>2 DEF Begun, Settled, Conns
  <2> QED BY <2>1, <2>2
<1>8. PushedOnce'
  <2> SUFFICES ASSUME NEW i \in 1 .. n + 1
               PROVE  /\ outcome'[pushed'[i]] # "none"
                      /\ \A j \in 1 .. n + 1 : pushed'[i] = pushed'[j] => i = j
                      /\ \A c \in SyncConns : Carried(c)' # pushed'[i]
    BY <1>5 DEF PushedOnce
  <2>1. CASE i = n + 1
    BY <1>0, <1>1, <1>5, <1>6, <2>1 DEF Conns
  <2>2. CASE i \in 1 .. n
    BY <1>0, <1>1, <1>3, <1>5, <1>6, <2>2 DEF OrderInv, PushedOnce, Conns
  <2> QED BY <2>1, <2>2
<1>9. CarriedIsOpen'
  BY <1>0, <1>1, <1>6 DEF OrderInv, CarriedIsOpen
<1>10. QueuedIsOpen'
  <2> SUFFICES ASSUME NEW i \in 1 .. m + 1
               PROVE  outcome'[queue'[i]] = "queued" /\ \A c \in Conns : Carried(c)' # queue'[i]
    BY <1>5 DEF QueuedIsOpen
  <2>1. CASE i = m + 1
    BY <1>0, <1>1, <1>5, <1>6, <2>1
  <2>2. CASE i \in 1 .. m
    BY <1>0, <1>1, <1>4, <1>5, <1>6, <2>2 DEF OrderInv, QueuedIsOpen
  <2> QED BY <2>1, <2>2
<1>11. QueueIsRest'
  <2>1. PICK k \in 0 .. n :
          /\ n = k + m
          /\ \A i \in 1 .. m : queue[i] = pushed[k + i]
          /\ \A i \in 1 .. k : Begun(pushed[i])
    BY <1>2, <1>3, <1>4 DEF OrderInv, QueueIsRest
  <2>2. /\ k \in 0 .. n + 1 /\ n + 1 = k + (m + 1)
        /\ \A i \in 1 .. m + 1 : queue'[i] = pushed'[k + i]
    <3>1. k \in 0 .. n + 1 /\ n + 1 = k + (m + 1)
      BY <2>1
    <3>2. ASSUME NEW i \in 1 .. m + 1 PROVE queue'[i] = pushed'[k + i]
      <4>1. CASE i = m + 1
        BY <1>5, <3>1, <4>1
      <4>2. CASE i \in 1 .. m
        <5>1. k + i \in 1 .. n
          BY <2>1, <4>2
        <5> QED BY <1>5, <2>1, <4>2, <5>1
      <4> QED BY <3>2, <4>1, <4>2
    <3> QED BY <3>1, <3>2
  <2>3. \A i \in 1 .. k : Begun(pushed[i])'
    BY <1>7, <2>1
  <2> QED BY <1>5, <2>2, <2>3 DEF QueueIsRest
<1>12. BegunInOrder'
  <2> SUFFICES ASSUME NEW j \in 1 .. n + 1, Begun(pushed[j])', NEW i \in 1 .. j - 1
               PROVE  Begun(pushed[i])'
    BY <1>5 DEF BegunInOrder
  <2>1. j \in 1 .. n /\ i \in 1 .. n
    BY <1>5, <1>7
  <2> QED BY <1>3, <1>7, <2>1 DEF OrderInv, BegunInOrder
<1>13. SomebodyIsBeyond'
  <2> SUFFICES ASSUME NEW j \in 1 .. n + 1, Settled(pushed[j])'
               PROVE  \E c \in Consumers : \A i \in 1 .. j - 1 : Carried(c)' # pushed'[i]
    BY <1>5 DEF SomebodyIsBeyond
  <2>1. j \in 1 .. n
    BY <1>5, <1>7
  <2>2. PICK c \in Consumers : \A i \in 1 .. j - 1 : Carried(c) # pushed[i]
    BY <1>3, <1>7, <2>1 DEF OrderInv, SomebodyIsBeyond
  <2>3. \A i \in 1 .. j - 1 : Carried(c)' # pushed'[i]
    BY <1>1, <1>5, <2>1, <2>2 DEF Conns
  <2> QED BY <2>3
<1> QED BY <1>8, <1>9, <1>10, <1>11, <1>12, <1>13 DEF OrderInv

(* A caller commits on a connection of its own. *)
LEMMA DirectOrder ==
  ASSUME PoolTypes, OrderInv, NEW t \in Values, NEW c \in SyncConns, DirectCommit(t, c)
  PROVE  OrderInv'
<1>0. /\ \A d \in Conns : Carried(d) \in Values \cup {Null}
      /\ \A i \in 1 .. Len(pushed) : pushed[i] \in Values
      /\ \A i \in 1 .. Len(queue) : queue[i] \in Values
      /\ outcome \in [Values -> {"none", "queued", "ok", "failed", "dropped"}]
  BY CarriedTyped
<1>1. /\ outcome[t] = "none" /\ outcome' = [outcome EXCEPT ![t] = "queued"]
      /\ UNCHANGED <<pushed, queue, shutdown>>
      /\ SameEnds /\ pc'[c] # "ended"
      /\ Carried(c)' = t /\ \A d \in Conns \ {c} : Carried(d)' = Carried(d)
  BY DEF DirectCommit, queueVars, poolVars, Carried, Busy, SameEnds, PoolTypes, ThreadTypes, Conns
<1>2. c \in Conns /\ c \notin Consumers
  BY ConnsAssumption DEF Conns
<1>3. /\ \A i \in 1 .. Len(pushed) : pushed[i] # t
      /\ \A i \in 1 .. Len(queue) : queue[i] # t
      /\ \A d \in Conns : Carried(d) # t
  BY <1>1, NullNotAValue DEF OrderInv, PushedOnce, QueuedIsOpen, CarriedIsOpen
<1>4. PushedOnce'
  BY <1>0, <1>1, <1>3 DEF OrderInv, PushedOnce, Conns
<1>5. CarriedIsOpen'
  BY <1>0, <1>1, <1>2, <1>3 DEF OrderInv, CarriedIsOpen, SameEnds
<1>6. QueuedIsOpen'
  BY <1>0, <1>1, <1>2, <1>3 DEF OrderInv, QueuedIsOpen
<1>7. \A i \in 1 .. Len(pushed) : (Begun(pushed[i])' <=> Begun(pushed[i])) /\ (Settled(pushed[i])' <=> Settled(pushed[i]))
  BY <1>0, <1>1, <1>2, <1>3 DEF Begun, Settled, Conns
<1>8. QueueIsRest' /\ BegunInOrder'
  BY <1>1, <1>7 DEF OrderInv, QueueIsRest, BegunInOrder
<1>9. SomebodyIsBeyond'
  BY <1>1, <1>2, <1>7 DEF OrderInv, SomebodyIsBeyond, Conns
<1> QED BY <1>4, <1>5, <1>6, <1>8, <1>9 DEF OrderInv

(* A worker takes the oldest operation of the queue. *)
LEMMA TakeOrder ==
  ASSUME PoolTypes, OrderInv, NEW w \in Consumers, pc[w] = "idle", Take(w),
         pc' = [pc EXCEPT ![w] = "popped"], UNCHANGED <<job, pushed, outcome>>
  PROVE  OrderInv'
<1>0. /\ \A d \in Conns : Carried(d) \in Values \cup {Null}
      /\ \A i \in 1 .. Len(pushed) : pushed[i] \in Values
      /\ \A i \in 1 .. Len(queue) : queue[i] \in Values
      /\ Len(pushed) \in Nat /\ Len(queue) \in Nat
      /\ outcome \in [Values -> {"none", "queued", "ok", "failed", "dropped"}]
  BY CarriedTyped
<1>1. PICK m \in Nat : m = Len(queue)
  BY <1>0
<1>2. PICK k \in 0 .. Len(pushed) :
        /\ Len(pushed) = k + m
        /\ \A i \in 1 .. m : queue[i] = pushed[k + i]
        /\ \A i \in 1 .. k : Begun(pushed[i])
  BY <1>1 DEF Take, OrderInv, QueueIsRest
<1>3. /\ m > 0 /\ Len(queue') = m - 1 /\ \A i \in 1 .. m - 1 : queue'[i] = queue[i + 1]
      /\ ~shutdown /\ shutdown' = shutdown
  BY <1>1 DEF Take, PoolTypes, QueueTypeOK
<1>4. /\ w \in Conns /\ Carried(w)' = queue[1] /\ queue[1] = pushed[k + 1] /\ k + 1 \in 1 .. Len(pushed)
      /\ SameEnds /\ pc'[w] # "ended"
      /\ \A d \in Conns \ {w} : Carried(d)' = Carried(d)
  <2>1. w \in Conns /\ queue[1] = pushed[k + 1] /\ k + 1 \in 1 .. Len(pushed) /\ Head(queue) = queue[1]
    BY <1>1, <1>2, <1>3 DEF Conns, PoolTypes, QueueTypeOK
  <2>2. \A d \in Consumers \ {w} : value'[d] = value[d]
    BY DEF Take, PoolTypes, QueueTypeOK
  <2>3. value'[w] = queue[1]
    BY <2>1 DEF Take, PoolTypes, QueueTypeOK
  <2>4. pc'[w] = "popped" /\ \A d \in Conns \ {w} : pc'[d] = pc[d]
    BY <2>1 DEF PoolTypes, ThreadTypes
  <2>5. \A d \in Conns : pc[d] \in {"popped", "ended"} => d \in Consumers
    BY DEF PoolTypes, ThreadTypes, Conns
  <2> QED BY <2>1, <2>2, <2>3, <2>4, <2>5 DEF Carried, Busy, SameEnds
<1>n. Carried(w) = Null
  BY DEF Carried, Busy
<1>d. \A i, j \in 1 .. Len(pushed) : pushed[i] = pushed[j] => i = j
  BY DEF OrderInv, PushedOnce
<1>5. PushedOnce'
  BY <1>4, ConnsAssumption DEF OrderInv, PushedOnce, Conns
<1>6. CarriedIsOpen'
  <2>1. outcome[queue[1]] = "queued" /\ \A d \in Conns : Carried(d) # queue[1]
    BY <1>1, <1>3 DEF OrderInv, QueuedIsOpen
  <2> QED BY <1>4, <2>1 DEF OrderInv, CarriedIsOpen, SameEnds
<1>7. QueuedIsOpen'
  <2> SUFFICES ASSUME NEW i \in 1 .. m - 1
               PROVE  outcome[queue[i + 1]] = "queued" /\ \A d \in Conns : Carried(d)' # queue[i + 1]
    BY <1>3 DEF QueuedIsOpen
  <2>1. i + 1 \in 1 .. Len(queue) /\ queue[i + 1] # queue[1]
    BY <1>1, <1>2, <1>3, <1>4, <1>d
  <2> QED BY <1>4, <2>1 DEF OrderInv, QueuedIsOpen
<1>8. \A i \in 1 .. Len(pushed) : Begun(pushed[i])' <=> Begun(pushed[i]) \/ i = k + 1
  <2> SUFFICES ASSUME NEW i \in 1 .. Len(pushed)
               PROVE  Begun(pushed[i])' <=> Begun(pushed[i]) \/ i = k + 1
    OBVIOUS
  <2>1. Settled(pushed[i])' <=> Settled(pushed[i])
    BY DEF Settled
  <2>2. CASE i = k + 1
    BY <1>4, <2>2 DEF Begun
  <2>3. CASE i # k + 1
    <3>1. pushed[i] # pushed[k + 1] /\ pushed[i] # Null
      BY <1>0, <1>4, <1>d, <2>3, NullNotAValue
    <3>2. \A d \in Consumers : Carried(d)' = pushed[i] <=> Carried(d) = pushed[i]
      BY <1>4, <1>n, <3>1 DEF Conns
    <3> QED BY <2>1, <2>3, <3>2 DEF Begun
  <2> QED BY <2>2, <2>3
<1>9. \A j \in 1 .. Len(pushed) : Begun(pushed[j]) <=> j <= k
  <2> SUFFICES ASSUME NEW j \in 1 .. Len(pushed), j > k PROVE ~Begun(pushed[j])
    BY <1>2
  <2>1. j - k \in 1 .. m /\ pushed[j] = queue[j - k]
    BY <1>2
  <2> QED BY <1>1, <2>1 DEF OrderInv, QueuedIsOpen, Begun, Settled, Conns
<1>10. QueueIsRest'
  <2>1. /\ k + 1 \in 0 .. Len(pushed) /\ Len(pushed) = (k + 1) + (m - 1)
        /\ \A i \in 1 .. m - 1 : queue'[i] = pushed[(k + 1) + i]
    <3>1. k + 1 \in 0 .. Len(pushed) /\ Len(pushed) = (k + 1) + (m - 1)
      BY <1>2, <1>3
    <3>2. ASSUME NEW i \in 1 .. m - 1 PROVE queue'[i] = pushed[(k + 1) + i]
      <4>1. i + 1 \in 1 .. m /\ queue'[i] = queue[i + 1] /\ k + (i + 1) = (k + 1) + i
        BY <1>2, <1>3, <3>2
      <4> QED BY <1>2, <4>1
    <3> QED BY <3>1, <3>2
  <2>2. \A i \in 1 .. k + 1 : Begun(pushed[i])'
    BY <1>2, <1>4, <1>8, <1>9
  <2> QED BY <1>3, <2>1, <2>2 DEF QueueIsRest
<1>11. BegunInOrder'
  BY <1>2, <1>8, <1>9 DEF BegunInOrder
<1>12. SomebodyIsBeyond'
  <2> SUFFICES ASSUME NEW j \in 1 .. Len(pushed), Settled(pushed[j])
               PROVE  \E c \in Consumers : \A i \in 1 .. j - 1 : Carried(c)' # pushed[i]
    BY DEF SomebodyIsBeyond, Settled
  <2>1. j <= k
    BY <1>9 DEF Begun
  <2>2. PICK c \in Consumers : \A i \in 1 .. j - 1 : Carried(c) # pushed[i]
    BY DEF OrderInv, SomebodyIsBeyond
  <2>3. \A i \in 1 .. j - 1 : Carried(c)' # pushed[i]
    BY <1>2, <1>4, <1>d, <2>1, <2>2 DEF Conns
  <2> QED BY <2>3
<1> QED BY <1>5, <1>6, <1>7, <1>10, <1>11, <1>12 DEF OrderInv

(* A worker ends, and discards what it has popped. *)
LEMMA EndsOrder ==
  ASSUME PoolTypes, OrderInv, NEW w \in Consumers, WorkerEnds(w)
  PROVE  OrderInv'
<1>0. /\ \A d \in Conns : Carried(d) \in Values \cup {Null}
      /\ \A i \in 1 .. Len(pushed) : pushed[i] \in Values
      /\ \A i \in 1 .. Len(queue) : queue[i] \in Values
      /\ outcome \in [Values -> {"none", "queued", "ok", "failed", "dropped"}]
  BY CarriedTyped
<1>1. /\ UNCHANGED <<queue, shutdown, pushed>> /\ w \in Conns
      /\ pc'[w] = "ended" /\ pc[w] = "popped" /\ \A d \in Conns \ {w} : pc'[d] = pc[d]
      /\ outcome' = [t \in Values |-> IF t = Carried(w) THEN "dropped" ELSE outcome[t]]
  BY DEF WorkerEnds, queueVars, poolVars, Txns, Carried, PoolTypes, ThreadTypes, Conns
<1>2. \A d \in Conns : Carried(d)' = Carried(d)
  BY <1>1 DEF WorkerEnds, queueVars, Carried, Busy
<1>3. Carried(w) # Null => outcome[Carried(w)] = "queued"
  BY <1>1 DEF OrderInv, CarriedIsOpen
<1>4. \A t \in Values : /\ Settled(t)' <=> Settled(t)
                        /\ Begun(t)' <=> Begun(t)
                        /\ (outcome[t] # "none" => outcome'[t] # "none")
  BY <1>0, <1>1, <1>2, <1>3, NullNotAValue DEF Settled, Begun, Conns
<1>5. PushedOnce'
  BY <1>0, <1>1, <1>2, <1>4 DEF OrderInv, PushedOnce, Conns
<1>6. CarriedIsOpen'
  BY <1>0, <1>1, <1>2, NullNotAValue DEF OrderInv, CarriedIsOpen
<1>7. QueuedIsOpen'
  BY <1>0, <1>1, <1>2 DEF OrderInv, QueuedIsOpen
<1>8. QueueIsRest'
  BY <1>0, <1>1, <1>4 DEF OrderInv, QueueIsRest
<1>9. BegunInOrder'
  BY <1>0, <1>1, <1>4 DEF OrderInv, BegunInOrder
<1>10. SomebodyIsBeyond'
  BY <1>0, <1>1, <1>2, <1>4 DEF OrderInv, SomebodyIsBeyond, Conns
<1> QED BY <1>5, <1>6, <1>7, <1>8, <1>9, <1>10 DEF OrderInv

(* The close discards what is queued. *)
LEMMA CancelOrder ==
  ASSUME PoolTypes, OrderInv, CloseCancelsQueue
  PROVE  OrderInv'
<1>0. /\ \A d \in Conns : Carried(d) \in Values \cup {Null}
      /\ \A i \in 1 .. Len(pushed) : pushed[i] \in Values
      /\ Len(queue) \in Nat
      /\ outcome \in [Values -> {"none", "queued", "ok", "failed", "dropped"}]
  BY CarriedTyped
<1> DEFINE InQueue(t) == \E i \in 1 .. Len(queue) : queue[i] = t
<1>1. /\ UNCHANGED pushed /\ pc' = pc /\ Len(queue') = 0 /\ shutdown'
      /\ outcome' = [t \in Values |-> IF InQueue(t) THEN "dropped" ELSE outcome[t]]
      /\ \A d \in Conns : Carried(d)' = Carried(d)
  <2>1. DOMAIN queue = 1 .. Len(queue)
    BY DEF PoolTypes, QueueTypeOK
  <2>2. UNCHANGED pushed /\ pc' = pc /\ Len(queue') = 0 /\ \A d \in Conns : Carried(d)' = Carried(d)
    BY DEF CloseCancelsQueue, Cancel, jobVars, Carried, Busy
  <2>3. shutdown'
    BY Zenon DEF CloseCancelsQueue, Cancel
  <2> QED BY <2>1, <2>2, <2>3 DEF CloseCancelsQueue, Txns
<1>2. \A t \in Values : InQueue(t) => outcome[t] = "queued" /\ \A d \in Conns : Carried(d) # t
  BY DEF OrderInv, QueuedIsOpen
<1> HIDE DEF InQueue
<1>3. \A t \in Values : /\ Settled(t)' <=> Settled(t)
                        /\ Begun(t)' <=> Begun(t)
                        /\ (outcome[t] # "none" => outcome'[t] # "none")
  BY <1>0, <1>1, <1>2 DEF Settled, Begun, Conns
<1>4. PushedOnce'
  BY <1>0, <1>1, <1>3 DEF OrderInv, PushedOnce, Conns
<1>5. CarriedIsOpen'
  BY <1>0, <1>1, <1>2, NullNotAValue DEF OrderInv, CarriedIsOpen
<1>6. QueuedIsOpen' /\ QueueIsRest'
  BY <1>1 DEF QueuedIsOpen, QueueIsRest
<1>7. BegunInOrder'
  BY <1>0, <1>1, <1>3 DEF OrderInv, BegunInOrder
<1>8. SomebodyIsBeyond'
  BY <1>0, <1>1, <1>3 DEF OrderInv, SomebodyIsBeyond, Conns
<1> QED BY <1>4, <1>5, <1>6, <1>7, <1>8 DEF OrderInv

(* A step of a connection settles what it carries, or nothing. *)
LEMMA ConnectionOrder ==
  ASSUME PoolTypes, OrderInv, NEW c \in Conns, ConnStep(c) \/ ServerFault(c)
  PROVE  OrderInv'
<1>1. UNCHANGED <<queue, shutdown, value, pushed>>
  BY DEF ConnStep, ServerFault, BeginRefused, CommitRefused, ExecuteEmpty, BeginTransaction, Execute, ExecuteOnNull,
     CommitTransaction, LockAndRetry, StatementFails, Reconnect, CommitReconnects, ConnectionDies,
     queueVars, poolVars
<1>2. Busy(c)
  BY DEF ConnStep, ServerFault, BeginRefused, CommitRefused, ExecuteEmpty, BeginTransaction, Execute, ExecuteOnNull,
     CommitTransaction, LockAndRetry, StatementFails, Reconnect, CommitReconnects, ConnectionDies, Busy
<1>3. PICK t \in Values : t = job[c] /\ Carried(c) = t
  BY <1>2 DEF PoolTypes, ThreadTypes, Carried, Busy
<1>4. ASSUME NEW o \in {"ok", "failed"}, Finish(c, o)
      PROVE  OrderInv'
  <2>1. /\ pc'[c] = "idle" /\ \A d \in Conns \ {c} : pc'[d] = pc[d] /\ job'[d] = job[d]
        /\ outcome' = [outcome EXCEPT ![t] = o]
    BY <1>3, <1>4 DEF Finish, PoolTypes, ThreadTypes
  <2>2. SameEnds
    BY <1>2, <2>1 DEF SameEnds, Busy
  <2>3. Carried(c)' = Null /\ \A d \in Conns \ {c} : Carried(d)' = Carried(d)
    BY <1>1, <2>1 DEF Carried, Busy
  <2> QED BY <1>1, <1>3, <2>1, <2>2, <2>3, SettlingOrder
<1>5. ASSUME UNCHANGED <<job, outcome>>,
             pc' = pc \/ \E p \in {"begin", "statement", "commit", "lock"} : pc' = [pc EXCEPT ![c] = p]
      PROVE  OrderInv'
  <2>1. Busy(c)' /\ \A d \in Conns \ {c} : pc'[d] = pc[d]
    BY <1>2, <1>5 DEF Busy, PoolTypes, ThreadTypes
  <2>2. SameEnds
    BY <1>2, <2>1 DEF SameEnds, Busy
  <2>3. \A d \in Conns : Carried(d)' = Carried(d)
    BY <1>1, <1>2, <1>5, <2>1 DEF Carried, Busy
  <2> QED BY <1>1, <1>5, <2>2, <2>3, QuietOrder
<1>6. \/ \E o \in {"ok", "failed"} : Finish(c, o)
      \/ /\ UNCHANGED <<job, outcome>>
         /\ pc' = pc \/ \E p \in {"begin", "statement", "commit", "lock"} : pc' = [pc EXCEPT ![c] = p]
  <2>1. ASSUME NEW code, Abort(c, code)
        PROVE  \/ Finish(c, "failed")
               \/ UNCHANGED <<job, outcome>> /\ \E p \in {"begin", "lock"} : pc' = [pc EXCEPT ![c] = p]
    BY <2>1 DEF Abort
  <2>2. CASE ExecuteEmpty(c) \/ BeginTransaction(c) \/ Execute(c) \/ CommitTransaction(c) \/ LockAndRetry(c)
    BY <2>2 DEF ExecuteEmpty, BeginTransaction, Execute, CommitTransaction, LockAndRetry
  <2>3. CASE ExecuteOnNull(c) \/ StatementFails(c, "deadlock") \/ StatementFails(c, "error")
    BY <2>1, <2>3 DEF ExecuteOnNull, StatementFails
  <2>4. CASE Reconnect(c) \/ CommitReconnects(c) \/ ConnectionDies(c)
    BY <2>4 DEF Reconnect, CommitReconnects, ConnectionDies, jobVars
  <2>5. CASE BeginRefused(c) \/ CommitRefused(c)
    BY <2>5 DEF BeginRefused, CommitRefused
  <2> QED BY <2>2, <2>3, <2>4, <2>5 DEF ConnStep, ServerFault
<1> QED BY <1>4, <1>5, <1>6

(* Every step keeps the order. *)
LEMMA OrderStep ==
  ASSUME PoolTypes, InsideIsEmpty, OrderInv, [DbNext]_dbVars
  PROVE  OrderInv'
<1>1. CASE UNCHANGED dbVars
  BY <1>1, QuietOrder DEF dbVars, queueVars, jobVars, poolVars, SameEnds, Carried, Busy
<1>2. ASSUME NEW w \in Consumers, WorkerStep(w)
      PROVE  OrderInv'
  <2>1. CASE WorkerWaits(w)
    <3>1. /\ pc[w] = "idle" /\ UNCHANGED <<queue, shutdown, pushed, outcome, pc, job>>
          /\ value' = value \/ value' = [value EXCEPT ![w] = Null]
      BY <2>1 DEF WorkerWaits, EnterWaitAndPop, Wait, SpuriousWakeup, jobVars, poolVars
    <3>2. \A d \in Consumers \ {w} : value'[d] = value[d]
      BY <3>1 DEF PoolTypes, QueueTypeOK
    <3>3. \A d \in Conns : pc[d] \in {"popped", "ended"} => d \in Consumers
      BY DEF PoolTypes, ThreadTypes, Conns
    <3>4. SameEnds /\ \A d \in Conns : Carried(d)' = Carried(d)
      BY <3>1, <3>2, <3>3 DEF SameEnds, Carried, Busy
    <3> QED BY <3>1, <3>4, QuietOrder
  <2>2. CASE WorkerPops(w) /\ Take(w)
    BY <2>2, TakeOrder DEF WorkerPops, poolVars
  <2>3. CASE WorkerPops(w) /\ ReturnEmptyHanded(w)
    <3>1. /\ pc[w] = "idle" /\ value[w] = Null /\ UNCHANGED <<queue, shutdown, value, pushed, outcome, job>>
          /\ pc'[w] = "popped" /\ \A d \in Conns \ {w} : pc'[d] = pc[d]
      BY <2>3 DEF WorkerPops, ReturnEmptyHanded, InsideIsEmpty, poolVars, PoolTypes, ThreadTypes, Conns
    <3>2. SameEnds /\ \A d \in Conns : Carried(d)' = Carried(d)
      BY <3>1 DEF SameEnds, Carried, Busy
    <3> QED BY <3>1, <3>2, QuietOrder
  <2>4. CASE WorkerCalls(w)
    <3>1. /\ pc[w] = "popped" /\ UNCHANGED <<queue, shutdown, value, pushed, outcome>>
          /\ pc'[w] = "begin" /\ job'[w] = value[w]
          /\ \A d \in Conns \ {w} : pc'[d] = pc[d] /\ job'[d] = job[d]
      BY <2>4 DEF WorkerCalls, queueVars, poolVars, PoolTypes, ThreadTypes, Conns
    <3>2. SameEnds /\ \A d \in Conns : Carried(d)' = Carried(d)
      BY <3>1 DEF SameEnds, Carried, Busy
    <3> QED BY <3>1, <3>2, QuietOrder
  <2> QED BY <1>2, <2>1, <2>2, <2>3, <2>4, EndsOrder DEF WorkerStep, WorkerPops
<1>3. CASE CloseJoins \/ \E w \in Consumers : CloseSetsToken(w)
  BY <1>3, QuietOrder DEF CloseJoins, CloseSetsToken, queueVars, jobVars, SameEnds, Carried, Busy
<1> QED
  BY <1>1, <1>2, <1>3, EnqueueOrder, DirectOrder, ConnectionOrder, CancelOrder
     DEF DbNext, CloseStep, Terminated, Txns

(* What is not settled before a settled operation is carried by workers,     *)
(* each by another one, and by one less than there are.                      *)
LEMMA InvariantMeansOrder ==
  ASSUME PoolTypes, OrderInv
  PROVE  SettledInOrder
<1>0. /\ \A i \in 1 .. Len(pushed) : pushed[i] \in Values
      /\ Len(pushed) \in Nat
  BY CarriedTyped
<1>1. DOMAIN pushed = 1 .. Len(pushed)
  BY DEF PoolTypes, CloseTypes
<1> SUFFICES ASSUME NEW j \in 1 .. Len(pushed), Settled(pushed[j])
             PROVE  Cardinality({i \in 1 .. j - 1 : ~Settled(pushed[i])}) < Cardinality(Consumers)
  BY <1>1 DEF SettledInOrder, Settled
<1> DEFINE Late == {i \in 1 .. j - 1 : ~Settled(pushed[i])}
<1>2. PICK e \in Consumers : \A i \in 1 .. j - 1 : Carried(e) # pushed[i]
  BY DEF OrderInv, SomebodyIsBeyond
<1>3. \A i \in Late : \E c \in Consumers \ {e} : Carried(c) = pushed[i]
  BY <1>2 DEF OrderInv, BegunInOrder, Begun
<1> DEFINE f == [i \in Late |-> CHOOSE c \in Consumers \ {e} : Carried(c) = pushed[i]]
<1>4. \A i \in Late : f[i] \in Consumers \ {e} /\ Carried(f[i]) = pushed[i]
  BY <1>3
<1>5. \A i, k \in Late : f[i] = f[k] => i = k
  <2> SUFFICES ASSUME NEW i \in Late, NEW k \in Late, f[i] = f[k] PROVE i = k
    OBVIOUS
  <2>1. pushed[i] = pushed[k]
    BY <1>4
  <2>2. i \in 1 .. Len(pushed) /\ k \in 1 .. Len(pushed)
    BY <1>0
  <2> QED BY <2>1, <2>2 DEF OrderInv, PushedOnce
<1>6. f \in Injection(Late, Consumers \ {e})
  <2> HIDE DEF Late
  <2>1. f \in [Late -> Consumers \ {e}]
    BY <1>4
  <2> HIDE DEF f
  <2> QED BY <1>5, <2>1 DEF Injection, IsInjective
<1>7. IsFiniteSet(Consumers \ {e}) /\ Cardinality(Consumers \ {e}) = Cardinality(Consumers) - 1
  BY ConsumersFinite, FS_RemoveElement
<1>8. Cardinality(Late) <= Cardinality(Consumers \ {e}) /\ IsFiniteSet(Late)
  BY <1>6, <1>7, FS_Injection
<1>9. Cardinality(Consumers) \in Nat /\ Cardinality(Late) \in Nat
  BY <1>8, ConsumersFinite, FS_CardinalityType
<1> QED BY <1>7, <1>8, <1>9

(* An operation overtakes only what other workers are executing, with any    *)
(* number of workers and synchronous connections and whatever fails: when it *)
(* is settled, fewer earlier ones than there are workers are not.            *)
THEOREM OperationsSettleInOrder == DbSpec => []SettledInOrder
<1>1. DbInit => PoolTypes /\ InsideIsEmpty /\ OrderInv
  BY TypesInit, InsideInit, OrderInit
<1>2. PoolTypes /\ InsideIsEmpty /\ OrderInv /\ [DbNext]_dbVars
        => (PoolTypes /\ InsideIsEmpty /\ OrderInv)'
  BY TypesStep, InsideStep, OrderStep DEF PoolTypes, ThreadTypes, QueueTypeOK
<1>3. PoolTypes /\ OrderInv => SettledInOrder
  BY InvariantMeansOrder
<1> QED BY <1>1, <1>2, <1>3, PTL DEF DbSpec
=============================================================================
