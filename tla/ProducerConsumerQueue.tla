------------------------ MODULE ProducerConsumerQueue ------------------------
(***************************************************************************)
(* The blocking queue of src/common/Threading/ProducerConsumerQueue.h, used *)
(* by the map-update threads and by the asynchronous database workers.     *)
(*                                                                         *)
(* Every critical section of _queueLock is one atomic step, except that    *)
(* _condition.wait releases the lock: a consumer inside WaitAndPop is       *)
(* either about to test the loop condition with the lock ("ready") or       *)
(* asleep on the condition variable ("waiting").  std::condition_variable  *)
(* allows spurious wakeups, so any sleeping consumer may become ready.     *)
(***************************************************************************)
EXTENDS Integers, Sequences, FiniteSets

CONSTANTS Consumers,    \* the threads that call WaitAndPop
          Values,       \* what may be queued (pointers to heap objects)
          Null          \* the nullptr WaitAndPop's out parameter starts with

ASSUME ConsumersFinite == IsFiniteSet(Consumers)
ASSUME NullNotAValue == Null \notin Values

VARIABLES queue,        \* _queue
          shutdown,     \* _shutdown
          cstate,       \* where each consumer is with respect to WaitAndPop
          value         \* the out parameter of each consumer's last WaitAndPop

queueVars == <<queue, shutdown, cstate, value>>

Waiting == {c \in Consumers : cstate[c] = "waiting"}
Ready   == {c \in Consumers : cstate[c] = "ready"}

QueueTypeOK ==
  /\ queue \in Seq(Values)
  /\ shutdown \in BOOLEAN
  /\ cstate \in [Consumers -> {"outside", "ready", "waiting"}]
  /\ value \in [Consumers -> Values \cup {Null}]

QueueInit ==
  /\ queue = <<>>
  /\ shutdown = FALSE
  /\ cstate = [c \in Consumers |-> "outside"]
  /\ value = [c \in Consumers |-> Null]

-----------------------------------------------------------------------------
(* The condition variable. *)

NotifyNobody == UNCHANGED cstate

NotifyOne ==
  \/ Waiting = {} /\ UNCHANGED cstate
  \/ \E c \in Waiting : cstate' = [cstate EXCEPT ![c] = "ready"]

NotifyAll ==
  cstate' = [c \in Consumers |-> IF cstate[c] = "waiting" THEN "ready" ELSE cstate[c]]

SpuriousWakeup(c) ==
  /\ cstate[c] = "waiting"
  /\ cstate' = [cstate EXCEPT ![c] = "ready"]
  /\ UNCHANGED <<queue, shutdown, value>>

-----------------------------------------------------------------------------
(* The operations of the queue. *)

PushWithoutNotify(v) ==
  /\ queue' = Append(queue, v)
  /\ NotifyNobody
  /\ UNCHANGED <<shutdown, value>>

Push(v) ==
  /\ queue' = Append(queue, v)
  /\ NotifyOne
  /\ UNCHANGED <<shutdown, value>>

(* A consumer calls WaitAndPop with its out parameter set to nullptr. *)
EnterWaitAndPop(c) ==
  /\ cstate[c] = "outside"
  /\ cstate' = [cstate EXCEPT ![c] = "ready"]
  /\ value' = [value EXCEPT ![c] = Null]
  /\ UNCHANGED <<queue, shutdown>>

(* while (_queue.empty() && !_shutdown) _condition.wait(lock); *)
Wait(c) ==
  /\ cstate[c] = "ready"
  /\ queue = <<>> /\ ~shutdown
  /\ cstate' = [cstate EXCEPT ![c] = "waiting"]
  /\ UNCHANGED <<queue, shutdown, value>>

(* if (_queue.empty() || _shutdown) return;  -- the out parameter keeps nullptr *)
ReturnEmptyHanded(c) ==
  /\ cstate[c] = "ready"
  /\ shutdown
  /\ cstate' = [cstate EXCEPT ![c] = "outside"]
  /\ UNCHANGED <<queue, shutdown, value>>

(* The newest element is taken: a plausible slip. *)
TakeNewest(c) ==
  /\ cstate[c] = "ready"
  /\ queue # <<>> /\ ~shutdown
  /\ value' = [value EXCEPT ![c] = queue[Len(queue)]]
  /\ queue' = SubSeq(queue, 1, Len(queue) - 1)
  /\ cstate' = [cstate EXCEPT ![c] = "outside"]
  /\ UNCHANGED shutdown

Take(c) ==
  /\ cstate[c] = "ready"
  /\ queue # <<>> /\ ~shutdown
  /\ value' = [value EXCEPT ![c] = Head(queue)]
  /\ queue' = Tail(queue)
  /\ cstate' = [cstate EXCEPT ![c] = "outside"]
  /\ UNCHANGED shutdown

CancelNotifyOne ==
  /\ queue' = <<>>
  /\ shutdown' = TRUE
  /\ NotifyOne
  /\ UNCHANGED value

(* Deletes what is queued, then wakes every consumer. *)
Cancel ==
  /\ queue' = <<>>
  /\ shutdown' = TRUE
  /\ NotifyAll
  /\ UNCHANGED value

ConsumerStep(c) ==
  \/ EnterWaitAndPop(c)
  \/ Wait(c)
  \/ SpuriousWakeup(c)
  \/ ReturnEmptyHanded(c)
  \/ Take(c)

QueueNext ==
  \/ \E v \in Values : Push(v)
  \/ Cancel
  \/ \E c \in Consumers : ConsumerStep(c)

QueueSpec == QueueInit /\ [][QueueNext]_queueVars

-----------------------------------------------------------------------------
(* Properties. *)

(* Push wakes one consumer per element, so as long as some consumer sleeps,  *)
(* every queued element has an awake consumer about to take it: no wakeup is *)
(* lost and no element is stranded behind a sleeping pool.                   *)
WorkConserving ==
  Waiting # {} => Len(queue) <= Cardinality(Ready)

(* Cancel wakes everyone and nobody goes to sleep on a shut down queue, so   *)
(* joining the consumers after Cancel terminates.                            *)
NobodySleepsAfterShutdown ==
  shutdown => Waiting = {}
=============================================================================
