---------------------- MODULE ProducerConsumerQueueProofs ----------------------
(***************************************************************************)
(* No wakeup is lost in ProducerConsumerQueue, for any number of consumers  *)
(* and any values.                                                          *)
(***************************************************************************)
EXTENDS ProducerConsumerQueue, FiniteSetTheorems, TLAPS

(* The inductive invariant: WorkConserving alone is not inductive, because   *)
(* a consumer that returns empty-handed from a shut down queue lowers the    *)
(* number of ready consumers; nobody sleeps then.                            *)
QueueIInv == QueueTypeOK /\ WorkConserving /\ NobodySleepsAfterShutdown

(* The sets of sleeping and of awake consumers are finite and disjoint.      *)
LEMMA ReadyWaiting ==
  ASSUME QueueTypeOK
  PROVE  /\ IsFiniteSet(Ready) /\ IsFiniteSet(Waiting)
         /\ Cardinality(Ready) \in Nat
         /\ Ready \cap Waiting = {}
<1>1. Ready \subseteq Consumers /\ Waiting \subseteq Consumers
  BY DEF Ready, Waiting
<1>2. IsFiniteSet(Ready) /\ IsFiniteSet(Waiting)
  BY <1>1, ConsumersFinite, FS_Subset
<1>3. Cardinality(Ready) \in Nat
  BY <1>2, FS_CardinalityType
<1>4. Ready \cap Waiting = {}
  BY DEF Ready, Waiting
<1> QED
  BY <1>2, <1>3, <1>4

(* Waking consumer c moves it from the sleeping to the awake set.            *)
LEMMA WakeOne ==
  ASSUME QueueTypeOK, NEW c \in Consumers, cstate[c] # "ready",
         cstate' = [cstate EXCEPT ![c] = "ready"]
  PROVE  /\ Cardinality(Ready') = Cardinality(Ready) + 1
         /\ Waiting' = Waiting \ {c}
<1>1. Ready' = Ready \cup {c} /\ c \notin Ready
  BY DEF Ready, QueueTypeOK
<1>2. Waiting' = Waiting \ {c}
  BY DEF Waiting, QueueTypeOK
<1>3. Cardinality(Ready \cup {c}) = Cardinality(Ready) + 1
  BY <1>1, ReadyWaiting, FS_AddElement
<1> QED
  BY <1>1, <1>2, <1>3

(* A consumer that leaves WaitAndPop leaves the awake set.                   *)
LEMMA LeaveReady ==
  ASSUME QueueTypeOK, NEW c \in Consumers, cstate[c] = "ready",
         cstate' = [cstate EXCEPT ![c] = "outside"]
  PROVE  /\ Cardinality(Ready') = Cardinality(Ready) - 1
         /\ Waiting' = Waiting
<1>1. Ready' = Ready \ {c} /\ c \in Ready
  BY DEF Ready, QueueTypeOK
<1>2. Waiting' = Waiting
  BY DEF Waiting, QueueTypeOK
<1>3. Cardinality(Ready \ {c}) = Cardinality(Ready) - 1
  BY <1>1, ReadyWaiting, FS_RemoveElement
<1> QED
  BY <1>1, <1>2, <1>3

(* Every operation of the queue keeps the types.                             *)
LEMMA QueueTypeStep ==
  ASSUME QueueTypeOK, [QueueNext]_queueVars
  PROVE  QueueTypeOK'
<1>1. ASSUME NEW v \in Values, Push(v) PROVE QueueTypeOK'
  BY <1>1 DEF QueueTypeOK, Push, NotifyOne, Waiting
<1>2. CASE Cancel
  BY <1>2 DEF QueueTypeOK, Cancel, NotifyAll
<1>3. ASSUME NEW c \in Consumers, EnterWaitAndPop(c) PROVE QueueTypeOK'
  BY <1>3 DEF QueueTypeOK, EnterWaitAndPop
<1>4. ASSUME NEW c \in Consumers, Wait(c) \/ SpuriousWakeup(c) \/ ReturnEmptyHanded(c)
      PROVE QueueTypeOK'
  BY <1>4 DEF QueueTypeOK, Wait, SpuriousWakeup, ReturnEmptyHanded
<1>5. ASSUME NEW c \in Consumers, Take(c) PROVE QueueTypeOK'
  <2>1. Head(queue) \in Values /\ Tail(queue) \in Seq(Values)
    BY <1>5 DEF QueueTypeOK, Take
  <2> QED
    BY <1>5, <2>1 DEF QueueTypeOK, Take
<1>6. CASE UNCHANGED queueVars
  BY <1>6 DEF QueueTypeOK, queueVars
<1> QED
  BY <1>1, <1>2, <1>3, <1>4, <1>5, <1>6 DEF QueueNext, ConsumerStep

(* The inductive step, one case per operation.                               *)
LEMMA QueueStep ==
  ASSUME QueueIInv, [QueueNext]_queueVars
  PROVE  QueueIInv'
<1> USE DEF QueueIInv
<1>0. QueueTypeOK'
  BY QueueTypeStep
<1>1. Len(queue) \in Nat /\ Cardinality(Ready) \in Nat
  BY ReadyWaiting DEF QueueTypeOK
<1>2. ASSUME NEW v \in Values, Push(v) PROVE QueueIInv'
  <2>1. Len(queue') = Len(queue) + 1 /\ shutdown' = shutdown
    BY <1>2 DEF Push, QueueTypeOK
  <2>2. CASE Waiting = {} /\ cstate' = cstate
    <3>1. Waiting' = {}
      BY <2>2 DEF Waiting
    <3> QED
      BY <3>1, <1>0 DEF WorkConserving, NobodySleepsAfterShutdown
  <2>3. ASSUME NEW c \in Waiting, cstate' = [cstate EXCEPT ![c] = "ready"] PROVE QueueIInv'
    <3>1. c \in Consumers /\ cstate[c] # "ready"
      BY <2>3 DEF Waiting
    <3>2. Cardinality(Ready') = Cardinality(Ready) + 1 /\ Waiting' = Waiting \ {c}
      BY <2>3, <3>1, WakeOne
    <3> QED
      BY <1>0, <1>1, <2>1, <3>2 DEF WorkConserving, NobodySleepsAfterShutdown
  <2> QED
    BY <1>2, <2>2, <2>3 DEF Push, NotifyOne
<1>3. CASE Cancel
  <2>1. Waiting' = {}
    BY <1>3 DEF Cancel, NotifyAll, Waiting
  <2> QED
    BY <1>0, <2>1 DEF WorkConserving, NobodySleepsAfterShutdown
<1>4. ASSUME NEW c \in Consumers, EnterWaitAndPop(c) \/ SpuriousWakeup(c) PROVE QueueIInv'
  <2>1. /\ cstate[c] # "ready" /\ cstate' = [cstate EXCEPT ![c] = "ready"]
        /\ queue' = queue /\ shutdown' = shutdown
    BY <1>4 DEF EnterWaitAndPop, SpuriousWakeup
  <2>2. Cardinality(Ready') = Cardinality(Ready) + 1 /\ Waiting' = Waiting \ {c}
    BY <2>1, WakeOne
  <2> QED
    BY <1>0, <1>1, <2>1, <2>2 DEF WorkConserving, NobodySleepsAfterShutdown
<1>5. ASSUME NEW c \in Consumers, Wait(c) PROVE QueueIInv'
  <2>1. Len(queue') = 0 /\ shutdown' = FALSE
    BY <1>5 DEF Wait, QueueTypeOK
  <2>2. Cardinality(Ready)' \in Nat
    BY <1>0, ReadyWaiting, ConsumersFinite, FS_Subset, FS_CardinalityType DEF Ready
  <2> QED
    BY <1>0, <2>1, <2>2 DEF WorkConserving, NobodySleepsAfterShutdown
<1>6. ASSUME NEW c \in Consumers, ReturnEmptyHanded(c) PROVE QueueIInv'
  <2>1. Waiting = {} /\ shutdown' = shutdown
    BY <1>6 DEF ReturnEmptyHanded, NobodySleepsAfterShutdown
  <2>2. Waiting' = Waiting
    BY <1>6, LeaveReady DEF ReturnEmptyHanded
  <2> QED
    BY <1>0, <2>1, <2>2 DEF WorkConserving, NobodySleepsAfterShutdown
<1>7. ASSUME NEW c \in Consumers, Take(c) PROVE QueueIInv'
  <2>1. Len(queue') = Len(queue) - 1 /\ shutdown' = shutdown
    BY <1>7 DEF Take, QueueTypeOK
  <2>2. Cardinality(Ready') = Cardinality(Ready) - 1 /\ Waiting' = Waiting
    BY <1>7, LeaveReady DEF Take
  <2> QED
    BY <1>0, <1>1, <2>1, <2>2 DEF WorkConserving, NobodySleepsAfterShutdown
<1>8. CASE UNCHANGED queueVars
  <2>1. Ready' = Ready /\ Waiting' = Waiting
    BY <1>8 DEF Ready, Waiting, queueVars
  <2> QED
    BY <1>0, <1>8, <2>1 DEF WorkConserving, NobodySleepsAfterShutdown, queueVars
<1> QED
  BY <1>2, <1>3, <1>4, <1>5, <1>6, <1>7, <1>8 DEF QueueNext, ConsumerStep

(* The queue is created empty. *)
LEMMA QueueInitially == QueueInit => QueueIInv
<1> SUFFICES ASSUME QueueInit PROVE QueueIInv
  OBVIOUS
<1>1. QueueTypeOK
  <2>1. queue \in Seq(Values)
    BY DEF QueueInit
  <2>2. shutdown \in BOOLEAN
    BY DEF QueueInit
  <2>3. cstate \in [Consumers -> {"outside", "ready", "waiting"}]
    BY DEF QueueInit
  <2>4. value \in [Consumers -> Values \cup {Null}]
    BY DEF QueueInit
  <2> QED
    BY <2>1, <2>2, <2>3, <2>4 DEF QueueTypeOK
<1>2. Waiting = {} /\ shutdown = FALSE
  BY DEF QueueInit, Waiting
<1> QED
  BY <1>1, <1>2 DEF QueueIInv, WorkConserving, NobodySleepsAfterShutdown

(* The queue never strands an element behind a sleeping pool and never       *)
(* leaves a consumer asleep after Cancel.                                    *)
THEOREM QueueCorrect == QueueSpec => [](WorkConserving /\ NobodySleepsAfterShutdown)
<1>1. QueueInit => QueueIInv
  BY QueueInitially
<1>2. QueueIInv /\ [QueueNext]_queueVars => QueueIInv'
  BY QueueStep
<1>3. QueueIInv => WorkConserving /\ NobodySleepsAfterShutdown
  BY DEF QueueIInv
<1> QED
  BY <1>1, <1>2, <1>3, PTL DEF QueueSpec
=============================================================================
