------------------------------- MODULE MPSCQueue -------------------------------
(***************************************************************************)
(* The lock free queue with many producers and one consumer of               *)
(* src/common/Threading/MPSCQueue.h, in its intrusive variant: the elements   *)
(* are the nodes of a singly linked list, and a dummy node keeps the list     *)
(* from becoming empty.                                                      *)
(*                                                                         *)
(* A step is one access to _head or to the link of a node that another        *)
(* thread may see; _tail belongs to the consumer.  Between the two steps of   *)
(* an Enqueue the list is cut in two, and nothing a consumer sees tells it    *)
(* how much is behind the cut.  The acquire and release orders of the code    *)
(* make every interleaving below one of sequentially consistent steps.        *)
(***************************************************************************)
EXTENDS Naturals, Sequences

CONSTANTS Producers,
          Nodes,   \* the elements; each is enqueued at most once
          Dummy,   \* _dummyPtr
          Null

ASSUME NodesAssumption == Dummy \notin Nodes /\ Null \notin Nodes \cup {Dummy}

VARIABLES link,     \* IntrusiveLink of every node
          head,     \* _head
          tail,     \* _tail
          enq,      \* where each producer is in Enqueue, and with which nodes
          deq,      \* where the consumer is in Dequeue, and with which node
          enqueued, \* history: the nodes in the order of the exchanges
          dequeued  \* history: the nodes Dequeue has returned

queueVars == <<link, head, tail, enq, deq, enqueued, dequeued>>

Places == Nodes \cup {Dummy, Null}
Idle == [at |-> "idle", node |-> Null, prev |-> Null]

MPSCTypeOK ==
  /\ link \in [Nodes \cup {Dummy} -> Places]
  /\ head \in Nodes \cup {Dummy} /\ tail \in Nodes \cup {Dummy}
  /\ enq \in [Producers -> [at : {"idle", "link"}, node : Places, prev : Places]]
  /\ deq \in [at : {"idle", "second", "head", "exchange", "link", "reload", "got", "none"},
              node : Places, prev : Places]
  /\ enqueued \in Seq(Nodes) /\ dequeued \in Seq(Nodes)

QueueInit ==
  /\ link = [n \in Nodes \cup {Dummy} |-> Null]
  /\ head = Dummy /\ tail = Dummy
  /\ enq = [p \in Producers |-> Idle] /\ deq = Idle
  /\ enqueued = <<>> /\ dequeued = <<>>

-----------------------------------------------------------------------------
(* Enqueue. *)

(* The link is cleared and the node becomes the head ...                     *)
EnqueueExchange(p, n) ==
  /\ enq[p] = Idle
  /\ link' = [link EXCEPT ![n] = Null]
  /\ enq' = [enq EXCEPT ![p] = [at |-> "link", node |-> n, prev |-> head]]
  /\ head' = n
  /\ enqueued' = Append(enqueued, n)
  /\ UNCHANGED <<tail, deq, dequeued>>

(* ... and later the previous head is linked to it.                          *)
EnqueueLink(p) ==
  /\ enq[p].at = "link"
  /\ link' = [link EXCEPT ![enq[p].prev] = enq[p].node]
  /\ enq' = [enq EXCEPT ![p] = Idle]
  /\ UNCHANGED <<head, tail, deq, enqueued, dequeued>>

-----------------------------------------------------------------------------
(* Dequeue. *)

Return(n, next) ==
  /\ tail' = next
  /\ deq' = [Idle EXCEPT !.at = "got", !.node = n]
  /\ dequeued' = Append(dequeued, n)
  /\ UNCHANGED <<link, head, enq, enqueued>>

ReturnFalse ==
  /\ deq' = [Idle EXCEPT !.at = "none"]
  /\ UNCHANGED <<link, head, tail, enq, enqueued, dequeued>>

DequeueGoesTo(at, n) ==
  /\ deq' = [Idle EXCEPT !.at = at, !.node = n]
  /\ UNCHANGED <<link, head, enq, enqueued, dequeued>>

(* The dummy is skipped whether or not there is a node behind it: a          *)
(* plausible slip.                                                           *)
DequeueLoadUnchecked ==
  /\ deq.at = "idle"
  /\ tail' = link[tail]
  /\ DequeueGoesTo("second", link[tail])

(* _tail and its link are loaded; the dummy is skipped.                      *)
DequeueLoad ==
  /\ deq.at = "idle"
  /\ LET next == link[tail] IN
     \/ tail = Dummy /\ next = Null /\ ReturnFalse
     \/ tail = Dummy /\ next # Null /\ tail' = next /\ DequeueGoesTo("second", next)
     \/ tail # Dummy /\ next # Null /\ Return(tail, next)
     \/ tail # Dummy /\ next = Null /\ DequeueGoesTo("head", tail) /\ UNCHANGED tail

(* The link of the node behind the dummy is loaded. *)
DequeueSecond ==
  /\ deq.at = "second"
  /\ LET next == link[deq.node] IN
     \/ next # Null /\ Return(deq.node, next)
     \/ next = Null /\ DequeueGoesTo("head", deq.node) /\ UNCHANGED tail

(* The node has no successor.  If it is not the head, an Enqueue is at its   *)
(* second step.                                                              *)
DequeueHead ==
  /\ deq.at = "head"
  /\ \/ deq.node # head /\ ReturnFalse
     \/ deq.node = head /\ DequeueGoesTo("exchange", deq.node) /\ UNCHANGED tail

(* Enqueue(_dummyPtr), so that the last node can leave. *)
DequeueExchange ==
  /\ deq.at = "exchange"
  /\ link' = [link EXCEPT ![Dummy] = Null]
  /\ head' = Dummy
  /\ deq' = [deq EXCEPT !.at = "link", !.prev = head]
  /\ UNCHANGED <<tail, enq, enqueued, dequeued>>

DequeueLink ==
  /\ deq.at = "link"
  /\ link' = [link EXCEPT ![deq.prev] = Dummy]
  /\ deq' = [deq EXCEPT !.at = "reload"]
  /\ UNCHANGED <<head, tail, enq, enqueued, dequeued>>

(* The dummy is behind the node whatever was enqueued meanwhile: a plausible *)
(* slip.                                                                     *)
DequeueReloadDummy ==
  /\ deq.at = "reload"
  /\ Return(deq.node, Dummy)

(* A node enqueued before the dummy may still be unlinked. *)
DequeueReload ==
  /\ deq.at = "reload"
  /\ LET next == link[deq.node] IN
     \/ next # Null /\ Return(deq.node, next)
     \/ next = Null /\ ReturnFalse

DequeueStep ==
  \/ DequeueLoad \/ DequeueSecond \/ DequeueHead
  \/ DequeueExchange \/ DequeueLink \/ DequeueReload

-----------------------------------------------------------------------------
(* Properties. *)

Queue == INSTANCE PacketStream WITH
  Packets <- Nodes, sent <- enqueued, received <- dequeued

(* The queue is a FIFO in the order of the exchanges: however the steps of   *)
(* producers and consumer interleave, Dequeue returns every node once, and   *)
(* never one before another that became the head earlier.                    *)
QueueIsStream == Queue!StreamSpec
=============================================================================
