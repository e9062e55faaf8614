-------------------------- MODULE WorldSocketProofs --------------------------
(***************************************************************************)
(* The lock free queue and the socket that uses it: the queue is a FIFO, for *)
(* any number of producers and packets and every interleaving of their       *)
(* steps, the connection behind it delivers the packets as they were sent,   *)
(* and the session is alive whenever the network thread uses it.             *)
(***************************************************************************)
EXTENDS WorldSocket, Integers, SequenceTheorems, WellFoundedInduction, TLAPS

-----------------------------------------------------------------------------
(* The queue.  Its list holds the nodes that were enqueued and not yet       *)
(* dequeued, in order, with the dummy behind node k, or without the dummy    *)
(* (k = -1).                                                                 *)

Element(s, d, k, i) ==
  IF k = -1 \/ i <= k - d THEN s[d + i]
  ELSE IF i = k - d + 1 THEN Dummy ELSE s[d + i - 1]

Holds(l, s, d, k) ==
  /\ l \in Seq(Nodes \cup {Dummy})
  /\ Len(l) = Len(s) - d + (IF k = -1 THEN 0 ELSE 1)
  /\ \A i \in 1 .. Len(l) : l[i] = Element(s, d, k, i)

IsList(l, k) == Holds(l, enqueued, Len(dequeued), k)

(* A list with its ends and its links: a link that is not yet set is null.   *)
Chain(l, h, t, lnk) ==
  /\ l # <<>>
  /\ t = l[1] /\ h = l[Len(l)]
  /\ \A i, j \in 1 .. Len(l) : l[i] = l[j] => i = j
  /\ \A i \in 1 .. Len(l) - 1 : lnk[l[i]] \in {l[i + 1], Null}
  /\ lnk[l[Len(l)]] = Null

(* An Enqueue between its two steps has still to link x to y. *)
Cut(l, lnk, x, y) ==
  \E i \in 1 .. Len(l) - 1 : x = l[i] /\ y = l[i + 1] /\ lnk[x] = Null

Linking(p) == enq[p].at = "link"

(* What the list l and the position k of the dummy have to do with the       *)
(* threads in the queue.                                                     *)
ThreadsFit(k, l) ==
  /\ \A p \in Producers : Linking(p) => Cut(l, link, enq[p].prev, enq[p].node)
  /\ \A p, q \in Producers : (Linking(p) /\ Linking(q) /\ p # q) => enq[p].prev # enq[q].prev
  /\ deq.at = "link" =>
       /\ Cut(l, link, deq.prev, Dummy)
       /\ \A p \in Producers : Linking(p) => enq[p].prev # deq.prev
  /\ deq.at \in {"second", "head", "exchange", "link", "reload"} =>
       deq.node = l[1] /\ l[1] # Dummy
  /\ deq.at \in {"second", "exchange"} => k = -1

DequeuedFirst ==
  /\ Len(dequeued) <= Len(enqueued)
  /\ \A i \in 1 .. Len(dequeued) : dequeued[i] = enqueued[i]

EnqueuedOnce == \A i, j \in 1 .. Len(enqueued) : enqueued[i] = enqueued[j] => i = j

ListFits(k, l) ==
  IsList(l, k) /\ Chain(l, head, tail, link) /\ ThreadsFit(k, l)

QueueIInv ==
  /\ MPSCTypeOK /\ DequeuedFirst /\ EnqueuedOnce
  /\ \E k \in {-1} \cup (Len(dequeued) .. Len(enqueued)), l \in Seq(Nodes \cup {Dummy}) : ListFits(k, l)

(* What happens to the queue: a node is enqueued once, and the consumer goes *)
(* on with what Dequeue returned.                                            *)
QueueStep ==
  \/ \E p \in Producers, n \in Nodes : ~Contains(enqueued, n) /\ EnqueueExchange(p, n)
  \/ \E p \in Producers : EnqueueLink(p)
  \/ DequeueStep
  \/ deq' = Idle /\ UNCHANGED <<link, head, tail, enq, enqueued, dequeued>>
  \/ UNCHANGED queueVars

-----------------------------------------------------------------------------
Typed(l, lnk) ==
  /\ l \in Seq(Nodes \cup {Dummy})
  /\ lnk \in [Nodes \cup {Dummy} -> (Nodes \cup {Dummy}) \cup {Null}]

New(l, x) == x \in Nodes \cup {Dummy} /\ \A i \in 1 .. Len(l) : l[i] # x

Set(lnk, x, y, lnk2) == lnk2 = [lnk EXCEPT ![x] = y]

(* A new element at the end of a chain: the old end is cut off from it until *)
(* it is linked.                                                             *)
LEMMA ChainAppend ==
  ASSUME NEW l, NEW h, NEW t, NEW lnk, Typed(l, lnk), Chain(l, h, t, lnk),
         NEW x, New(l, x), NEW lnk2, Set(lnk, x, Null, lnk2)
  PROVE  /\ Chain(Append(l, x), x, t, lnk2)
         /\ Cut(Append(l, x), lnk2, h, x)
         /\ \A u, v : Cut(l, lnk, u, v) => Cut(Append(l, x), lnk2, u, v) /\ u # h
<1> DEFINE S == Nodes \cup {Dummy}
           l2 == Append(l, x)
           n == Len(l)
<1>0. /\ l \in Seq(S) /\ lnk \in [S -> S \cup {Null}] /\ x \in S
      /\ \A i \in 1 .. n : l[i] # x
      /\ lnk2 = [lnk EXCEPT ![x] = Null]
  BY DEF Typed, New, Set
<1> HIDE DEF S
<1> USE <1>0
<1>1. /\ l2 \in Seq(S) /\ Len(l2) = n + 1 /\ n \in Nat \ {0}
      /\ \A i \in 1 .. n : l2[i] = l[i]
      /\ l2[n + 1] = x
  BY DEF Chain
<1>2. \A i \in 1 .. n : l[i] \in S /\ l2[i] = l[i] /\ lnk2[l2[i]] = lnk[l[i]]
  BY <1>1
<1>3. lnk2[x] = Null
  OBVIOUS
<1>4. /\ t = l[1] /\ h = l[n]
      /\ \A i, j \in 1 .. n : l[i] = l[j] => i = j
      /\ \A i \in 1 .. n - 1 : lnk[l[i]] \in {l[i + 1], Null}
      /\ lnk[l[n]] = Null
  BY DEF Chain
<1> HIDE DEF l2, n
<1>5. Chain(l2, x, t, lnk2)
  <2>1. \A i \in 1 .. n : lnk2[l2[i]] \in {l2[i + 1], Null}
    <3> TAKE i \in 1 .. n
    <3>1. CASE i = n
      BY <3>1, <1>1, <1>2, <1>4
    <3>2. CASE i # n
      <4>1. i \in 1 .. n - 1 /\ i + 1 \in 1 .. n
        BY <3>2, <1>1
      <4>2. l2[i + 1] = l[i + 1] /\ lnk2[l2[i]] = lnk[l[i]]
        BY <4>1, <1>2
      <4> QED BY <4>1, <4>2, <1>4
    <3> QED BY <3>1, <3>2
  <2>2. \A i, j \in 1 .. n + 1 : l2[i] = l2[j] => i = j
    <3> SUFFICES ASSUME NEW i \in 1 .. n + 1, NEW j \in 1 .. n + 1, l2[i] = l2[j] PROVE i = j
      OBVIOUS
    <3>1. CASE i \in 1 .. n /\ j \in 1 .. n
      BY <3>1, <1>2, <1>4
    <3>2. CASE i = n + 1 \/ j = n + 1
      <4>1. \A a \in 1 .. n : l2[a] # x
        BY <1>2 DEF n
      <4> QED BY <3>2, <4>1, <1>1
    <3> QED BY <3>1, <3>2, <1>1
  <2>3. l2 # <<>> /\ t = l2[1]
    BY <1>1, <1>4
  <2>4. Len(l2) = n + 1 /\ Len(l2) - 1 = n
    BY <1>1
  <2> QED BY <2>1, <2>2, <2>3, <2>4, <1>1, <1>3 DEF Chain
<1>6. Cut(l2, lnk2, h, x)
  <2>1. n \in 1 .. Len(l2) - 1 /\ h = l2[n] /\ x = l2[n + 1] /\ lnk2[h] = Null
    BY <1>1, <1>2, <1>4
  <2> QED BY <2>1 DEF Cut
<1>7. ASSUME NEW u, NEW v, Cut(l, lnk, u, v) PROVE Cut(l2, lnk2, u, v) /\ u # h
  <2>1. PICK i \in 1 .. n - 1 : u = l[i] /\ v = l[i + 1] /\ lnk[u] = Null
    BY <1>7 DEF Cut, n
  <2>2. i \in 1 .. n /\ i + 1 \in 1 .. n /\ i \in 1 .. Len(l2) - 1
    BY <1>1
  <2>3. u = l2[i] /\ v = l2[i + 1] /\ lnk2[u] = Null
    BY <2>1, <2>2, <1>2
  <2>4. u # h
    BY <2>1, <2>2, <1>4, <1>1
  <2> QED BY <2>2, <2>3, <2>4 DEF Cut
<1> QED BY <1>5, <1>6, <1>7 DEF l2

(* The second step of an Enqueue mends its cut, and no other. *)
LEMMA ChainLink ==
  ASSUME NEW l, NEW h, NEW t, NEW lnk, Typed(l, lnk), Chain(l, h, t, lnk),
         NEW x, NEW y, Cut(l, lnk, x, y), NEW lnk2, Set(lnk, x, y, lnk2)
  PROVE  /\ Chain(l, h, t, lnk2)
         /\ \A u, v : Cut(l, lnk, u, v) /\ u # x => Cut(l, lnk2, u, v)
<1> DEFINE S == Nodes \cup {Dummy}
           n == Len(l)
<1>0. /\ l \in Seq(S) /\ lnk \in [S -> S \cup {Null}]
      /\ lnk2 = [lnk EXCEPT ![x] = y]
  BY DEF Typed, Set
<1> HIDE DEF S
<1> USE <1>0
<1>1. n \in Nat \ {0} /\ \A i \in 1 .. n : l[i] \in S
  BY DEF Chain
<1>2. PICK k \in 1 .. n - 1 : x = l[k] /\ y = l[k + 1]
  BY DEF Cut
<1>3. /\ t = l[1] /\ h = l[n]
      /\ \A i, j \in 1 .. n : l[i] = l[j] => i = j
      /\ \A i \in 1 .. n - 1 : lnk[l[i]] \in {l[i + 1], Null}
      /\ lnk[l[n]] = Null
  BY DEF Chain
<1>4. \A u \in S : lnk2[u] = IF u = x THEN y ELSE lnk[u]
  OBVIOUS
<1> HIDE DEF n
<1>5. \A i \in 1 .. n - 1 : lnk2[l[i]] \in {l[i + 1], Null}
  BY <1>1, <1>2, <1>3, <1>4
<1>6. lnk2[l[n]] = Null
  BY <1>1, <1>2, <1>3, <1>4
<1>7. Chain(l, h, t, lnk2)
  BY <1>3, <1>5, <1>6 DEF Chain, n
<1>8. ASSUME NEW u, NEW v, Cut(l, lnk, u, v), u # x PROVE Cut(l, lnk2, u, v)
  <2>1. PICK i \in 1 .. n - 1 : u = l[i] /\ v = l[i + 1] /\ lnk[u] = Null
    BY <1>8 DEF Cut, n
  <2>2. lnk2[u] = Null
    BY <2>1, <1>1, <1>4, <1>8
  <2> QED BY <2>1, <2>2 DEF Cut, n
<1> QED BY <1>7, <1>8

(* The first element leaves a chain once it is linked to the second. *)
LEMMA ChainTail ==
  ASSUME NEW l, NEW h, NEW t, NEW lnk, Typed(l, lnk), Chain(l, h, t, lnk), lnk[t] # Null
  PROVE  /\ Len(l) > 1 /\ lnk[t] = l[2]
         /\ Chain(Tail(l), h, lnk[t], lnk)
         /\ \A u, v : Cut(l, lnk, u, v) => Cut(Tail(l), lnk, u, v)
<1> DEFINE S == Nodes \cup {Dummy}
           n == Len(l)
           l2 == Tail(l)
<1>0. l \in Seq(S) /\ lnk \in [S -> S \cup {Null}]
  BY DEF Typed
<1> HIDE DEF S
<1> USE <1>0
<1>1. /\ n \in Nat \ {0}
      /\ t = l[1] /\ h = l[n]
      /\ \A i, j \in 1 .. n : l[i] = l[j] => i = j
      /\ \A i \in 1 .. n - 1 : lnk[l[i]] \in {l[i + 1], Null}
      /\ lnk[l[n]] = Null
  BY DEF Chain
<1>2. n # 1 /\ lnk[t] = l[2]
  <2>1. n # 1
    BY <1>1
  <2>2. 1 \in 1 .. n - 1 /\ 1 + 1 = 2
    BY <2>1, <1>1
  <2> QED BY <2>1, <2>2, <1>1
<1>3. /\ l2 \in Seq(S) /\ Len(l2) = n - 1 /\ n - 1 >= 1
      /\ \A i \in 1 .. n - 1 : l2[i] = l[i + 1]
  BY <1>1, <1>2
<1> HIDE DEF n, l2
<1>4. Chain(l2, h, lnk[t], lnk)
  <2>1. \A i \in 1 .. Len(l2) - 1 : lnk[l2[i]] \in {l2[i + 1], Null}
    <3> TAKE i \in 1 .. Len(l2) - 1
    <3>1. i \in 1 .. n - 1 /\ i + 1 \in 1 .. n - 1 /\ (i + 1) + 1 \in 1 .. n
      BY <1>1, <1>3
    <3> QED BY <3>1, <1>1, <1>3
  <2>2. l2[1] = l[2] /\ l2[Len(l2)] = l[n] /\ l2 # <<>>
    BY <1>1, <1>3
  <2>3. \A i, j \in 1 .. Len(l2) : l2[i] = l2[j] => i = j
    BY <1>1, <1>3
  <2> QED BY <1>1, <1>2, <2>1, <2>2, <2>3 DEF Chain
<1>5. ASSUME NEW u, NEW v, Cut(l, lnk, u, v) PROVE Cut(l2, lnk, u, v)
  <2>1. PICK i \in 1 .. n - 1 : u = l[i] /\ v = l[i + 1] /\ lnk[u] = Null
    BY <1>5 DEF Cut, n
  <2>2. i # 1
    BY <2>1, <1>1
  <2>3. i - 1 \in 1 .. Len(l2) - 1 /\ l2[i - 1] = l[i] /\ l2[(i - 1) + 1] = l[i + 1]
    BY <2>2, <1>1, <1>3
  <2> QED BY <2>1, <2>3 DEF Cut
<1> QED BY <1>1, <1>2, <1>4, <1>5 DEF n, l2

-----------------------------------------------------------------------------
(* An enqueued node is the new end of the list, and so is the dummy. *)
LEMMA ListAppendsNode ==
  ASSUME NEW s \in Seq(Nodes), NEW d \in 0 .. Len(s), NEW k \in {-1} \cup (d .. Len(s)),
         NEW n \in Nodes, NEW l, Holds(l, s, d, k)
  PROVE  Holds(Append(l, n), Append(s, n), d, k)
<1> DEFINE s2 == Append(s, n)
           l2 == Append(l, n)
<1>1. /\ s2 \in Seq(Nodes) /\ Len(s2) = Len(s) + 1 /\ Len(s) \in Nat
      /\ \A i \in 1 .. Len(s) : s2[i] = s[i]
      /\ s2[Len(s) + 1] = n
  OBVIOUS
<1>2. /\ l \in Seq(Nodes \cup {Dummy})
      /\ Len(l) = Len(s) - d + (IF k = -1 THEN 0 ELSE 1)
      /\ \A i \in 1 .. Len(l) : l[i] = Element(s, d, k, i)
  BY DEF Holds
<1>3. /\ l2 \in Seq(Nodes \cup {Dummy}) /\ Len(l2) = Len(l) + 1 /\ Len(l) \in Nat
      /\ \A i \in 1 .. Len(l) : l2[i] = l[i]
      /\ l2[Len(l) + 1] = n
  <2>1. l \in Seq(Nodes \cup {Dummy}) /\ n \in Nodes \cup {Dummy}
    BY <1>2
  <2> QED BY ONLY <2>1
<1> HIDE DEF s2, l2
<1>4. \A i \in 1 .. Len(l2) : l2[i] = Element(s2, d, k, i)
  <2> TAKE i \in 1 .. Len(l2)
  <2>1. CASE i = Len(l) + 1
    BY <2>1, <1>1, <1>2, <1>3 DEF Element
  <2>2. CASE i \in 1 .. Len(l)
    <3>1. Element(s2, d, k, i) = Element(s, d, k, i)
      <4>1. d \in Nat /\ d + i \in Int /\ d + i - 1 \in Int
        BY <2>2
      <4>2. CASE k = -1
        BY <4>1, <4>2, <2>2, <1>1, <1>2 DEF Element
      <4>3. CASE k # -1 /\ i <= k - d
        <5>1. d + i \in 1 .. Len(s)
          BY <4>3, <2>2, <1>1
        <5> QED BY <5>1, <4>3, <1>1 DEF Element
      <4>4. CASE k # -1 /\ ~(i <= k - d) /\ i # k - d + 1
        <5>1. d + i - 1 \in 1 .. Len(s)
          BY <4>4, <2>2, <1>1, <1>2
        <5>2. s2[d + i - 1] = s[d + i - 1]
          BY <5>1, <1>1
        <5> QED BY <5>2, <4>1, <4>4, SMTT(30) DEF Element
      <4>5. CASE k # -1 /\ i = k - d + 1
        BY <4>5, <2>2, <1>1 DEF Element
      <4> QED BY <4>2, <4>3, <4>4, <4>5
    <3> QED BY <3>1, <2>2, <1>2, <1>3
  <2> QED BY <2>1, <2>2, <1>3
<1>5. Len(l2) = Len(s2) - d + (IF k = -1 THEN 0 ELSE 1)
  BY <1>1, <1>2, <1>3
<1>6. Holds(l2, s2, d, k)
  BY <1>3, <1>4, <1>5 DEF Holds
<1> QED BY <1>6 DEF l2, s2

(* The dummy at the end of a list that has none. *)
LEMMA ListAppendsDummy ==
  ASSUME NEW s \in Seq(Nodes), NEW d \in 0 .. Len(s), NEW l, Holds(l, s, d, -1)
  PROVE  Holds(Append(l, Dummy), s, d, Len(s))
<1> DEFINE l2 == Append(l, Dummy)
<1>1. /\ l \in Seq(Nodes \cup {Dummy})
      /\ Len(l) = Len(s) - d /\ Len(s) \in Nat
      /\ \A i \in 1 .. Len(l) : l[i] = s[d + i]
  BY DEF Holds, Element
<1>2. /\ l2 \in Seq(Nodes \cup {Dummy}) /\ Len(l2) = Len(l) + 1 /\ Len(l) \in Nat
      /\ \A i \in 1 .. Len(l) : l2[i] = l[i]
      /\ l2[Len(l) + 1] = Dummy
  BY <1>1
<1> HIDE DEF l2
<1>3. \A i \in 1 .. Len(l2) : l2[i] = Element(s, d, Len(s), i)
  BY <1>1, <1>2 DEF Element
<1>4. Len(l2) = Len(s) - d + (IF Len(s) = -1 THEN 0 ELSE 1)
  BY <1>1, <1>2
<1>5. Holds(l2, s, d, Len(s))
  BY <1>2, <1>3, <1>4 DEF Holds
<1> QED BY <1>5 DEF l2

(* The first of the list is the oldest node that was not dequeued, or the    *)
(* dummy; without it the list is that of the queue without it.               *)
LEMMA ListDropsNode ==
  ASSUME NEW s \in Seq(Nodes), NEW d \in 0 .. Len(s), NEW k \in {-1} \cup (d .. Len(s)),
         NEW l, Holds(l, s, d, k), l # <<>>, l[1] # Dummy
  PROVE  /\ d + 1 \in 1 .. Len(s) /\ l[1] = s[d + 1]
         /\ k \in {-1} \cup (d + 1 .. Len(s))
         /\ Holds(Tail(l), s, d + 1, k)
<1> DEFINE l2 == Tail(l)
<1>1. /\ l \in Seq(Nodes \cup {Dummy})
      /\ Len(l) = Len(s) - d + (IF k = -1 THEN 0 ELSE 1)
      /\ \A i \in 1 .. Len(l) : l[i] = Element(s, d, k, i)
      /\ Len(s) \in Nat /\ Len(l) \in Nat /\ Len(l) # 0
  BY DEF Holds
<1>2. /\ l2 \in Seq(Nodes \cup {Dummy}) /\ Len(l2) = Len(l) - 1
      /\ \A i \in 1 .. Len(l2) : l2[i] = l[i + 1]
  BY <1>1
<1>3. k # d
  BY <1>1 DEF Element
<1>4. d + 1 \in 1 .. Len(s) /\ k \in {-1} \cup (d + 1 .. Len(s))
  BY <1>1, <1>3
<1>5. l[1] = s[d + 1]
  BY <1>1, <1>4 DEF Element
<1> HIDE DEF l2
<1>6. \A i \in 1 .. Len(l2) : l2[i] = Element(s, d + 1, k, i)
  <2> TAKE i \in 1 .. Len(l2)
  <2>1. l2[i] = Element(s, d, k, i + 1)
    BY <1>1, <1>2
  <2>2. Element(s, d, k, i + 1) = Element(s, d + 1, k, i)
    BY <1>1, <1>2, <1>4 DEF Element
  <2> QED BY <2>1, <2>2
<1>7. Len(l2) = Len(s) - (d + 1) + (IF k = -1 THEN 0 ELSE 1)
  BY <1>1, <1>2
<1>8. Holds(l2, s, d + 1, k)
  BY <1>2, <1>6, <1>7 DEF Holds
<1> QED BY <1>4, <1>5, <1>8 DEF l2

(* The dummy leaves the list, which goes on with the same node. *)
LEMMA ListDropsDummy ==
  ASSUME NEW s \in Seq(Nodes), NEW d \in 0 .. Len(s), NEW k \in {-1} \cup (d .. Len(s)),
         NEW l, Holds(l, s, d, k), l # <<>>, l[1] = Dummy
  PROVE  k = d /\ Holds(Tail(l), s, d, -1)
<1> DEFINE l2 == Tail(l)
<1>1. /\ l \in Seq(Nodes \cup {Dummy})
      /\ Len(l) = Len(s) - d + (IF k = -1 THEN 0 ELSE 1)
      /\ \A i \in 1 .. Len(l) : l[i] = Element(s, d, k, i)
      /\ Len(s) \in Nat /\ Len(l) \in Nat /\ Len(l) # 0
      /\ \A i \in 1 .. Len(s) : s[i] # Dummy
  BY NodesAssumption DEF Holds
<1>2. k = d
  BY <1>1 DEF Element
<1>3. /\ l2 \in Seq(Nodes \cup {Dummy}) /\ Len(l2) = Len(l) - 1
      /\ \A i \in 1 .. Len(l2) : l2[i] = l[i + 1]
  BY <1>1
<1> HIDE DEF l2
<1>4. \A i \in 1 .. Len(l2) : l2[i] = Element(s, d, -1, i)
  <2> TAKE i \in 1 .. Len(l2)
  <2>0. i + 1 \in 1 .. Len(l) /\ l2[i] = l[i + 1]
    BY <1>1, <1>3
  <2>1. l2[i] = Element(s, d, k, i + 1)
    BY <2>0, <1>1
  <2>2. Element(s, d, k, i + 1) = Element(s, d, -1, i)
    BY <1>1, <1>2, <1>3 DEF Element
  <2> QED BY <2>1, <2>2
<1>5. Len(l2) = Len(s) - d + (IF -1 = -1 THEN 0 ELSE 1)
  BY <1>1, <1>2, <1>3
<1>6. Holds(l2, s, d, -1)
  BY <1>3, <1>4, <1>5 DEF Holds
<1> QED BY <1>2, <1>6 DEF l2

-----------------------------------------------------------------------------
(* What the steps of the queue preserve, for the list l at hand. *)

LinkTyped == link \in [Nodes \cup {Dummy} -> (Nodes \cup {Dummy}) \cup {Null}]

(* The types of the links, with null apart. *)
LEMMA TypedLinks == MPSCTypeOK => LinkTyped
<1>1. Places = (Nodes \cup {Dummy}) \cup {Null}
  BY DEF Places
<1> QED BY <1>1 DEF MPSCTypeOK, LinkTyped

(* The list holds nodes that are enqueued and not dequeued, and the dummy    *)
(* only if it is there.                                                      *)
LEMMA ListMembers ==
  ASSUME NEW s \in Seq(Nodes), NEW d \in 0 .. Len(s), NEW k \in {-1} \cup (d .. Len(s)),
         NEW l, Holds(l, s, d, k)
  PROVE  /\ \A i \in 1 .. Len(l) : l[i] = Dummy \/ \E j \in 1 .. Len(s) : l[i] = s[j]
         /\ k = -1 => \A i \in 1 .. Len(l) : l[i] # Dummy
<1>1. /\ l \in Seq(Nodes \cup {Dummy})
      /\ Len(l) = Len(s) - d + (IF k = -1 THEN 0 ELSE 1)
      /\ \A i \in 1 .. Len(l) : l[i] = Element(s, d, k, i)
      /\ Len(s) \in Nat /\ Len(l) \in Nat
  BY DEF Holds
<1>2. ASSUME NEW i \in 1 .. Len(l) PROVE l[i] = Dummy \/ \E j \in 1 .. Len(s) : l[i] = s[j]
  <2>0. l[i] = Element(s, d, k, i)
    BY <1>1
  <2>1. CASE k = -1 \/ i <= k - d
    <3>1. d + i \in 1 .. Len(s) /\ l[i] = s[d + i]
      BY <2>0, <2>1, <1>1 DEF Element
    <3> QED BY <3>1
  <2>2. CASE ~(k = -1 \/ i <= k - d) /\ i # k - d + 1
    <3>1. d + i - 1 \in 1 .. Len(s) /\ l[i] = s[d + i - 1]
      BY <2>0, <2>2, <1>1 DEF Element
    <3> QED BY <3>1
  <2>3. CASE ~(k = -1 \/ i <= k - d) /\ i = k - d + 1
    BY <2>0, <2>3 DEF Element
  <2> QED BY <2>1, <2>2, <2>3
<1>3. ASSUME k = -1, NEW i \in 1 .. Len(l) PROVE l[i] # Dummy
  <2>1. d + i \in 1 .. Len(s) /\ l[i] = s[d + i]
    BY <1>1, <1>3 DEF Element
  <2>2. s[d + i] \in Nodes
    BY <2>1
  <2> QED BY <2>1, <2>2, NodesAssumption
<1> QED BY <1>2, <1>3

(* For k = -1 the dummy is not in the list. *)
LEMMA ListWithoutDummy ==
  ASSUME NEW s \in Seq(Nodes), NEW d \in 0 .. Len(s), NEW l, Holds(l, s, d, -1)
  PROVE  \A i \in 1 .. Len(l) : l[i] # Dummy
<1> SUFFICES ASSUME NEW i \in 1 .. Len(l) PROVE l[i] # Dummy
  OBVIOUS
<1>1. /\ Len(l) = Len(s) - d /\ Len(s) \in Nat
      /\ l[i] = s[d + i]
  BY DEF Holds, Element
<1>2. d + i \in 1 .. Len(s)
  BY <1>1
<1>3. s[d + i] \in Nodes
  BY <1>2
<1> QED BY <1>1, <1>3, NodesAssumption

(* The first step of an Enqueue. *)
LEMMA ExchangeKeepsQueue ==
  ASSUME QueueIInv, NEW p \in Producers, NEW n \in Nodes,
         ~Contains(enqueued, n), EnqueueExchange(p, n)
  PROVE  QueueIInv'
<1>i. MPSCTypeOK /\ DequeuedFirst /\ EnqueuedOnce /\ LinkTyped
  BY TypedLinks DEF QueueIInv
<1>k. PICK k \in {-1} \cup (Len(dequeued) .. Len(enqueued)), l \in Seq(Nodes \cup {Dummy}) : ListFits(k, l)
  BY DEF QueueIInv
<1>l. IsList(l, k) /\ Chain(l, head, tail, link) /\ ThreadsFit(k, l)
  BY <1>k DEF ListFits
<1>t. /\ enqueued \in Seq(Nodes) /\ dequeued \in Seq(Nodes)
      /\ Len(dequeued) \in 0 .. Len(enqueued) /\ Len(enqueued) \in Nat
  BY <1>i DEF MPSCTypeOK, DequeuedFirst
<1>e. /\ link' = [link EXCEPT ![n] = Null]
      /\ enq' = [enq EXCEPT ![p] = [at |-> "link", node |-> n, prev |-> head]]
      /\ head' = n
      /\ enqueued' = Append(enqueued, n)
      /\ tail' = tail /\ deq' = deq /\ dequeued' = dequeued
      /\ enq[p].at # "link"
  BY DEF EnqueueExchange, Idle
<1>a. /\ enqueued' \in Seq(Nodes) /\ Len(enqueued') = Len(enqueued) + 1
      /\ \A i \in 1 .. Len(enqueued) : enqueued'[i] = enqueued[i]
      /\ enqueued'[Len(enqueued) + 1] = n
  BY <1>e, <1>t
<1>1. MPSCTypeOK'
  <2>1. n \in Places /\ head \in Places /\ Null \in Places
    BY <1>i DEF MPSCTypeOK, Places
  <2>2. [at |-> "link", node |-> n, prev |-> head] \in [at : {"idle", "link"}, node : Places, prev : Places]
    BY <2>1
  <2>3. enq' \in [Producers -> [at : {"idle", "link"}, node : Places, prev : Places]]
    BY <1>i, <1>e, <2>2 DEF MPSCTypeOK
  <2>4. link' \in [Nodes \cup {Dummy} -> Places]
    BY <1>i, <1>e, <2>1 DEF MPSCTypeOK
  <2> QED BY <2>3, <2>4, <1>i, <1>e, <1>a DEF MPSCTypeOK
<1>2. DequeuedFirst'
  BY <1>i, <1>e, <1>a, <1>t DEF DequeuedFirst
<1>n. \A i \in 1 .. Len(enqueued) : enqueued[i] # n
  BY DEF Contains
<1>3. EnqueuedOnce'
  <2> SUFFICES ASSUME NEW i \in 1 .. Len(enqueued) + 1, NEW j \in 1 .. Len(enqueued) + 1,
                      enqueued'[i] = enqueued'[j]
               PROVE  i = j
    BY <1>a DEF EnqueuedOnce
  <2>1. CASE i \in 1 .. Len(enqueued) /\ j \in 1 .. Len(enqueued)
    BY <2>1, <1>a, <1>i DEF EnqueuedOnce
  <2>2. CASE i = Len(enqueued) + 1 \/ j = Len(enqueued) + 1
    BY <2>2, <1>a, <1>n, <1>t
  <2> QED BY <2>1, <2>2, <1>t
<1> DEFINE l2 == Append(l, n)
<1>4. IsList(l2, k)' /\ l2 \in Seq(Nodes \cup {Dummy})
  <2>1. Holds(l2, Append(enqueued, n), Len(dequeued), k)
    BY <1>l, <1>t, ListAppendsNode DEF IsList
  <2> QED BY <2>1, <1>e DEF IsList, Holds
<1>m. \A i \in 1 .. Len(l) : l[i] # n
  <2>1. \A i \in 1 .. Len(l) : l[i] = Dummy \/ \E j \in 1 .. Len(enqueued) : l[i] = enqueued[j]
    BY <1>l, <1>t, ListMembers DEF IsList
  <2> QED BY <2>1, <1>n, NodesAssumption
<1>5. /\ Chain(l2, n, tail, link')
      /\ Cut(l2, link', head, n)
      /\ \A u, v : Cut(l, link, u, v) => Cut(l2, link', u, v) /\ u # head
  <2>1. Typed(l, link) /\ New(l, n) /\ Set(link, n, Null, link')
    BY <1>i, <1>m, <1>e DEF Typed, New, Set, LinkTyped
  <2>2. Chain(l, head, tail, link)
    BY <1>l
  <2> QED BY <2>1, <2>2, ChainAppend
<1>6. ThreadsFit(k, l2)'
  <2>0. /\ Linking(p)' /\ enq'[p].prev = head /\ enq'[p].node = n
        /\ \A q \in Producers \ {p} : enq'[q] = enq[q]
    BY <1>e, <1>i DEF MPSCTypeOK, Linking
  <2>1. \A q \in Producers : Linking(q)' => Cut(l2, link', enq'[q].prev, enq'[q].node)
    BY <2>0, <1>5, <1>l DEF ThreadsFit, Linking
  <2>2. \A q, r \in Producers : (Linking(q)' /\ Linking(r)' /\ q # r) => enq'[q].prev # enq'[r].prev
    <3> SUFFICES ASSUME NEW q \in Producers, NEW r \in Producers, Linking(q)', Linking(r)', q # r
                 PROVE  enq'[q].prev # enq'[r].prev
      OBVIOUS
    <3>1. CASE q # p /\ r # p
      BY <3>1, <2>0, <1>l DEF ThreadsFit, Linking
    <3>2. CASE q = p
      BY <3>2, <2>0, <1>5, <1>l DEF ThreadsFit, Linking
    <3>3. CASE r = p
      BY <3>3, <2>0, <1>5, <1>l DEF ThreadsFit, Linking
    <3> QED BY <3>1, <3>2, <3>3
  <2>3. deq.at = "link" =>
          /\ Cut(l2, link', deq.prev, Dummy)
          /\ \A q \in Producers : Linking(q)' => enq'[q].prev # deq.prev
    BY <2>0, <1>5, <1>l DEF ThreadsFit, Linking
  <2>4. l2[1] = l[1]
    BY <1>l DEF Chain
  <2> HIDE DEF l2
  <2> QED BY <2>1, <2>2, <2>3, <2>4, <1>e, <1>l DEF ThreadsFit
<1> HIDE DEF l2
<1>7. ListFits(k, l2)'
  BY <1>4, <1>5, <1>6, <1>e DEF ListFits
<1>8. k \in {-1} \cup (Len(dequeued') .. Len(enqueued'))
  BY <1>a, <1>e, <1>t
<1> QED BY <1>1, <1>2, <1>3, <1>4, <1>7, <1>8 DEF QueueIInv

(* What a step finds: the list, and the types. *)
LEMMA QueueFacts ==
  ASSUME QueueIInv
  PROVE  /\ MPSCTypeOK /\ DequeuedFirst /\ EnqueuedOnce
         /\ enqueued \in Seq(Nodes) /\ dequeued \in Seq(Nodes)
         /\ Len(dequeued) \in 0 .. Len(enqueued) /\ Len(enqueued) \in Nat
         /\ \E k \in {-1} \cup (Len(dequeued) .. Len(enqueued)), l \in Seq(Nodes \cup {Dummy}) :
              IsList(l, k) /\ Chain(l, head, tail, link) /\ ThreadsFit(k, l) /\ Typed(l, link)
<1>1. MPSCTypeOK /\ DequeuedFirst /\ EnqueuedOnce /\ LinkTyped
  BY TypedLinks DEF QueueIInv
<1>2. /\ enqueued \in Seq(Nodes) /\ dequeued \in Seq(Nodes)
      /\ Len(dequeued) \in 0 .. Len(enqueued) /\ Len(enqueued) \in Nat
  BY <1>1 DEF MPSCTypeOK, DequeuedFirst
<1>3. \E k \in {-1} \cup (Len(dequeued) .. Len(enqueued)), l \in Seq(Nodes \cup {Dummy}) :
         IsList(l, k) /\ Chain(l, head, tail, link) /\ ThreadsFit(k, l) /\ Typed(l, link)
  BY <1>1 DEF QueueIInv, ListFits, Typed, LinkTyped
<1> QED BY <1>1, <1>2, <1>3

(* The second step of an Enqueue. *)
LEMMA LinkKeepsQueue ==
  ASSUME QueueIInv, NEW p \in Producers, EnqueueLink(p)
  PROVE  QueueIInv'
<1>i. /\ MPSCTypeOK /\ DequeuedFirst /\ EnqueuedOnce
      /\ enqueued \in Seq(Nodes) /\ dequeued \in Seq(Nodes)
  BY QueueFacts
<1>k. PICK k \in {-1} \cup (Len(dequeued) .. Len(enqueued)), l \in Seq(Nodes \cup {Dummy}) :
         IsList(l, k) /\ Chain(l, head, tail, link) /\ ThreadsFit(k, l) /\ Typed(l, link)
  BY QueueFacts
<1>e. /\ Linking(p)
      /\ Set(link, enq[p].prev, enq[p].node, link')
      /\ enq' = [enq EXCEPT ![p] = Idle]
      /\ head' = head /\ tail' = tail /\ deq' = deq /\ enqueued' = enqueued /\ dequeued' = dequeued
  BY DEF EnqueueLink, Linking, Set
<1>c. Cut(l, link, enq[p].prev, enq[p].node)
  BY <1>k, <1>e DEF ThreadsFit
<1>1. MPSCTypeOK'
  <2>1. Null \in Places /\ enq[p].node \in Places
    BY <1>i DEF MPSCTypeOK, Places
  <2>2. Idle \in [at : {"idle", "link"}, node : Places, prev : Places]
    BY <2>1 DEF Idle
  <2>3. enq' \in [Producers -> [at : {"idle", "link"}, node : Places, prev : Places]]
    BY <1>i, <1>e, <2>2 DEF MPSCTypeOK
  <2>4. link' \in [Nodes \cup {Dummy} -> Places]
    BY <1>i, <1>e, <2>1 DEF MPSCTypeOK, Set
  <2> QED BY <2>3, <2>4, <1>i, <1>e DEF MPSCTypeOK
<1>2. DequeuedFirst' /\ EnqueuedOnce' /\ IsList(l, k)'
  BY <1>i, <1>e, <1>k DEF DequeuedFirst, EnqueuedOnce, IsList
<1>3. /\ Chain(l, head, tail, link')
      /\ \A u, v : Cut(l, link, u, v) /\ u # enq[p].prev => Cut(l, link', u, v)
  BY <1>c, <1>e, <1>k, ChainLink
<1>4. ThreadsFit(k, l)'
  <2>0. ~Linking(p)' /\ \A q \in Producers \ {p} : enq'[q] = enq[q]
    BY <1>e, <1>i DEF MPSCTypeOK, Linking, Idle
  <2>1. \A q \in Producers : Linking(q)' => Cut(l, link', enq'[q].prev, enq'[q].node)
    <3> SUFFICES ASSUME NEW q \in Producers, Linking(q)' PROVE Cut(l, link', enq'[q].prev, enq'[q].node)
      OBVIOUS
    <3>1. q # p /\ enq'[q] = enq[q] /\ Linking(q)
      BY <2>0 DEF Linking
    <3>2. Cut(l, link, enq[q].prev, enq[q].node) /\ enq[q].prev # enq[p].prev
      BY <3>1, <1>e, <1>k DEF ThreadsFit
    <3> QED BY <3>1, <3>2, <1>3
  <2>2. \A q, r \in Producers : (Linking(q)' /\ Linking(r)' /\ q # r) => enq'[q].prev # enq'[r].prev
    BY <2>0, <1>k DEF ThreadsFit, Linking
  <2>3. deq.at = "link" =>
          /\ Cut(l, link', deq.prev, Dummy)
          /\ \A q \in Producers : Linking(q)' => enq'[q].prev # deq.prev
    BY <2>0, <1>3, <1>e, <1>k DEF ThreadsFit, Linking
  <2> QED BY <2>1, <2>2, <2>3, <1>e, <1>k DEF ThreadsFit
<1>5. ListFits(k, l)'
  BY <1>2, <1>3, <1>4, <1>e DEF ListFits
<1> QED BY <1>1, <1>2, <1>5, <1>e, <1>k DEF QueueIInv

(* When the node at both ends is not the dummy, the dummy is not in the      *)
(* list.                                                                     *)
LEMMA LastNodeIsAlone ==
  ASSUME NEW s \in Seq(Nodes), NEW d \in 0 .. Len(s), NEW k \in {-1} \cup (d .. Len(s)),
         NEW l, Holds(l, s, d, k),
         NEW lnk, NEW h, Chain(l, h, h, lnk), h # Dummy
  PROVE  k = -1
<1> SUFFICES ASSUME k # -1 PROVE FALSE
  OBVIOUS
<1>1. /\ l \in Seq(Nodes \cup {Dummy})
      /\ Len(l) = Len(s) - d + 1
      /\ \A i \in 1 .. Len(l) : l[i] = Element(s, d, k, i)
      /\ Len(s) \in Nat /\ d \in Nat
  BY DEF Holds
<1>2. /\ l[1] = l[Len(l)] /\ l[1] # Dummy
      /\ \A i, j \in 1 .. Len(l) : l[i] = l[j] => i = j
  BY DEF Chain
<1>3. Len(l) = 1
  BY <1>1, <1>2
<1>4. k = d
  <2>1. k \in d .. Len(s)
    OBVIOUS
  <2>2. Len(s) = d
    <3>1. 1 = Len(s) - d + 1 /\ Len(s) \in Nat /\ d \in Nat
      BY <1>1, <1>3
    <3> QED BY ONLY <3>1
  <2> QED BY ONLY <2>1, <2>2, <1>1
<1>5. l[1] = Element(s, d, k, 1)
  BY <1>1, <1>3
<1> QED BY <1>1, <1>2, <1>4, <1>5 DEF Element

(* Steps of the consumer that only move it on. *)
Moves(at, n) ==
  /\ deq' = [at |-> at, node |-> n, prev |-> Null]
  /\ UNCHANGED <<link, head, tail, enq, enqueued, dequeued>>
  /\ at \in {"idle", "none"} => n = Null
  /\ at \in {"head", "exchange"} => n = tail /\ tail # Dummy
  /\ at = "exchange" => n = head

(* They change neither the list nor the links. *)
LEMMA MovingOnKeepsQueue ==
  ASSUME QueueIInv, NEW at \in {"idle", "head", "exchange", "none"}, NEW n, Moves(at, n)
  PROVE  QueueIInv'
<1>i. /\ MPSCTypeOK /\ DequeuedFirst /\ EnqueuedOnce
      /\ enqueued \in Seq(Nodes) /\ dequeued \in Seq(Nodes)
      /\ Len(dequeued) \in 0 .. Len(enqueued) /\ Len(enqueued) \in Nat
  BY QueueFacts
<1>k. PICK k \in {-1} \cup (Len(dequeued) .. Len(enqueued)), l \in Seq(Nodes \cup {Dummy}) :
         IsList(l, k) /\ Chain(l, head, tail, link) /\ ThreadsFit(k, l) /\ Typed(l, link)
  BY QueueFacts
<1>e. /\ link' = link /\ head' = head /\ tail' = tail /\ enq' = enq
      /\ enqueued' = enqueued /\ dequeued' = dequeued
  BY DEF Moves
<1>d. deq' = [at |-> at, node |-> n, prev |-> Null]
  BY DEF Moves
<1>n. /\ at \in {"head", "exchange"} => n = tail /\ tail # Dummy
      /\ at \in {"idle", "none"} => n = Null
      /\ at = "exchange" => n = head
  BY DEF Moves
<1>1. MPSCTypeOK'
  <2>1. Null \in Places /\ n \in Places
    BY <1>i, <1>n DEF MPSCTypeOK, Places
  <2>2. deq' \in [at : {"idle", "second", "head", "exchange", "link", "reload", "got", "none"},
                  node : Places, prev : Places]
    BY <2>1, <1>d
  <2> QED BY <2>2, <1>i, <1>e DEF MPSCTypeOK
<1>2. DequeuedFirst' /\ EnqueuedOnce' /\ IsList(l, k)'
  BY <1>i, <1>e, <1>k DEF DequeuedFirst, EnqueuedOnce, IsList
<1>3. at = "exchange" => k = -1
  <2>1. tail = head /\ tail # Dummy => k = -1
    <3> SUFFICES ASSUME tail = head, head # Dummy PROVE k = -1
      OBVIOUS
    <3>1. Holds(l, enqueued, Len(dequeued), k) /\ Chain(l, head, head, link)
      BY <1>k DEF IsList
    <3> QED BY <3>1, <1>i, LastNodeIsAlone
  <2> QED BY <2>1, <1>n
<1>4. ThreadsFit(k, l)'
  <2>1. deq'.at = at /\ deq'.node = n
    BY <1>d
  <2>2. at \in {"head", "exchange"} => n = l[1] /\ l[1] # Dummy
    BY <1>k, <1>n DEF Chain
  <2> QED BY <2>1, <2>2, <1>3, <1>e, <1>k DEF ThreadsFit, Linking
<1>5. ListFits(k, l)'
  BY <1>2, <1>4, <1>e, <1>k DEF ListFits
<1> QED BY <1>1, <1>2, <1>5, <1>e, <1>k DEF QueueIInv

(* The consumer skips the dummy. *)
SkipsDummy ==
  /\ tail = Dummy /\ link[tail] # Null /\ tail' = link[tail]
  /\ deq' = [at |-> "second", node |-> link[tail], prev |-> Null]
  /\ UNCHANGED <<link, head, enq, enqueued, dequeued>>

(* The list loses the dummy. *)
LEMMA SkippingKeepsQueue ==
  ASSUME QueueIInv, SkipsDummy
  PROVE  QueueIInv'
<1>i. /\ MPSCTypeOK /\ DequeuedFirst /\ EnqueuedOnce
      /\ enqueued \in Seq(Nodes) /\ dequeued \in Seq(Nodes)
      /\ Len(dequeued) \in 0 .. Len(enqueued) /\ Len(enqueued) \in Nat
  BY QueueFacts
<1>k. PICK k \in {-1} \cup (Len(dequeued) .. Len(enqueued)), l \in Seq(Nodes \cup {Dummy}) :
         IsList(l, k) /\ Chain(l, head, tail, link) /\ ThreadsFit(k, l) /\ Typed(l, link)
  BY QueueFacts
<1>e. /\ link' = link /\ head' = head /\ tail' = link[tail] /\ enq' = enq
      /\ enqueued' = enqueued /\ dequeued' = dequeued
      /\ tail = Dummy /\ link[tail] # Null
  BY DEF SkipsDummy
<1>d. deq' = [at |-> "second", node |-> link[tail], prev |-> Null]
  BY DEF SkipsDummy
<1> DEFINE l2 == Tail(l)
<1>c. /\ Len(l) > 1 /\ link[tail] = l[2]
      /\ Chain(l2, head, link[tail], link)
      /\ \A u, v : Cut(l, link, u, v) => Cut(l2, link, u, v)
  BY <1>k, <1>e, ChainTail
<1>h. l # <<>> /\ l[1] = Dummy
  BY <1>k, <1>e DEF Chain
<1>2. Holds(l2, enqueued, Len(dequeued), -1)
  BY <1>h, <1>k, <1>i, ListDropsDummy DEF IsList
<1> HIDE DEF l2
<1>3. l2 \in Seq(Nodes \cup {Dummy}) /\ l2[1] = link[tail] /\ l2[1] # Dummy /\ l2[1] \in Nodes \cup {Dummy}
  <2>1. l2 \in Seq(Nodes \cup {Dummy})
    BY <1>2 DEF Holds
  <2>2. l2 # <<>> /\ link[tail] = l2[1]
    BY <1>c DEF Chain
  <2>3. 1 \in 1 .. Len(l2)
    BY <2>1, <2>2
  <2>4. \A i \in 1 .. Len(l2) : l2[i] # Dummy
    BY <1>2, <1>i, ListWithoutDummy
  <2> QED BY <2>1, <2>2, <2>3, <2>4
<1>4. MPSCTypeOK'
  <2>1. Null \in Places /\ link[tail] \in Places
    BY <1>3 DEF Places
  <2>2. deq' \in [at : {"idle", "second", "head", "exchange", "link", "reload", "got", "none"},
                  node : Places, prev : Places]
    BY <2>1, <1>d
  <2> QED BY <2>2, <1>3, <1>i, <1>e DEF MPSCTypeOK
<1>5. DequeuedFirst' /\ EnqueuedOnce' /\ IsList(l2, -1)'
  BY <1>i, <1>e, <1>2 DEF DequeuedFirst, EnqueuedOnce, IsList
<1>6. ThreadsFit(-1, l2)'
  <2>1. deq'.at = "second" /\ deq'.node = l2[1]
    BY <1>d, <1>3
  <2> QED BY <2>1, <1>3, <1>c, <1>e, <1>k DEF ThreadsFit, Linking
<1>7. ListFits(-1, l2)'
  BY <1>5, <1>6, <1>c, <1>e DEF ListFits
<1> QED BY <1>3, <1>4, <1>5, <1>7, <1>e DEF QueueIInv

(* Dequeue returns the first node of the list. *)
Returns ==
  /\ tail # Dummy /\ link[tail] # Null /\ tail' = link[tail]
  /\ deq' = [at |-> "got", node |-> tail, prev |-> Null]
  /\ dequeued' = Append(dequeued, tail)
  /\ UNCHANGED <<link, head, enq, enqueued>>

(* The list loses its first node, the oldest one not yet dequeued. *)
LEMMA ReturningKeepsQueue ==
  ASSUME QueueIInv, Returns
  PROVE  /\ QueueIInv'
         /\ Len(dequeued) + 1 \in 1 .. Len(enqueued)
         /\ tail = enqueued[Len(dequeued) + 1]
<1>i. /\ MPSCTypeOK /\ DequeuedFirst /\ EnqueuedOnce
      /\ enqueued \in Seq(Nodes) /\ dequeued \in Seq(Nodes)
      /\ Len(dequeued) \in 0 .. Len(enqueued) /\ Len(enqueued) \in Nat
  BY QueueFacts
<1>k. PICK k \in {-1} \cup (Len(dequeued) .. Len(enqueued)), l \in Seq(Nodes \cup {Dummy}) :
         IsList(l, k) /\ Chain(l, head, tail, link) /\ ThreadsFit(k, l) /\ Typed(l, link)
  BY QueueFacts
<1>e. /\ link' = link /\ head' = head /\ tail' = link[tail] /\ enq' = enq
      /\ enqueued' = enqueued /\ dequeued' = Append(dequeued, tail)
      /\ tail # Dummy /\ link[tail] # Null
  BY DEF Returns
<1>d. deq' = [at |-> "got", node |-> tail, prev |-> Null]
  BY DEF Returns
<1> DEFINE l2 == Tail(l)
<1>c. /\ Len(l) > 1 /\ link[tail] = l[2]
      /\ Chain(l2, head, link[tail], link)
      /\ \A u, v : Cut(l, link, u, v) => Cut(l2, link, u, v)
  BY <1>k, <1>e, ChainTail
<1>h. l # <<>> /\ l[1] = tail /\ l[1] # Dummy
  BY <1>k, <1>e DEF Chain
<1>2. /\ Len(dequeued) + 1 \in 1 .. Len(enqueued) /\ l[1] = enqueued[Len(dequeued) + 1]
      /\ k \in {-1} \cup (Len(dequeued) + 1 .. Len(enqueued))
      /\ Holds(l2, enqueued, Len(dequeued) + 1, k)
  BY <1>h, <1>k, <1>i, ListDropsNode DEF IsList
<1> HIDE DEF l2
<1>q. /\ tail \in Nodes
      /\ dequeued' \in Seq(Nodes) /\ Len(dequeued') = Len(dequeued) + 1
      /\ \A i \in 1 .. Len(dequeued) : dequeued'[i] = dequeued[i]
      /\ dequeued'[Len(dequeued) + 1] = tail
  <2>1. tail \in Nodes
    BY <1>h, <1>2, <1>i
  <2> QED BY <2>1, <1>e, <1>i
<1>3. l2 \in Seq(Nodes \cup {Dummy}) /\ link[tail] \in Nodes \cup {Dummy}
  <2>1. l2 \in Seq(Nodes \cup {Dummy})
    BY <1>2 DEF Holds
  <2>2. l2 # <<>> /\ link[tail] = l2[1]
    BY <1>c DEF Chain
  <2>3. 1 \in 1 .. Len(l2)
    BY <2>1, <2>2
  <2> QED BY <2>1, <2>2, <2>3
<1>4. MPSCTypeOK'
  <2>1. Null \in Places /\ tail \in Places
    BY <1>q DEF Places
  <2>2. deq' \in [at : {"idle", "second", "head", "exchange", "link", "reload", "got", "none"},
                  node : Places, prev : Places]
    BY <2>1, <1>d
  <2> QED BY <2>2, <1>3, <1>i, <1>e, <1>q DEF MPSCTypeOK
<1>5. DequeuedFirst'
  <2>1. Len(dequeued) + 1 <= Len(enqueued)
    BY <1>2
  <2>2. \A i \in 1 .. Len(dequeued) + 1 : dequeued'[i] = enqueued[i]
    BY <1>q, <1>h, <1>2, <1>i DEF DequeuedFirst
  <2> QED BY <2>1, <2>2, <1>q, <1>e DEF DequeuedFirst
<1>6. EnqueuedOnce' /\ IsList(l2, k)'
  BY <1>i, <1>e, <1>q, <1>2 DEF EnqueuedOnce, IsList
<1>7. ThreadsFit(k, l2)'
  <2>1. deq'.at = "got"
    BY <1>d
  <2> QED BY <2>1, <1>c, <1>e, <1>k DEF ThreadsFit, Linking
<1>8. ListFits(k, l2)'
  BY <1>6, <1>7, <1>c, <1>e DEF ListFits
<1>9. QueueIInv'
  BY <1>2, <1>3, <1>4, <1>5, <1>6, <1>8, <1>e, <1>q DEF QueueIInv
<1> QED BY <1>9, <1>2, <1>h

(* The consumer enqueues the dummy, when it is not in the list. *)
LEMMA DummyKeepsQueue ==
  ASSUME QueueIInv, DequeueExchange
  PROVE  QueueIInv'
<1>i. /\ MPSCTypeOK /\ DequeuedFirst /\ EnqueuedOnce
      /\ enqueued \in Seq(Nodes) /\ dequeued \in Seq(Nodes)
      /\ Len(dequeued) \in 0 .. Len(enqueued) /\ Len(enqueued) \in Nat
  BY QueueFacts
<1>k. PICK k \in {-1} \cup (Len(dequeued) .. Len(enqueued)), l \in Seq(Nodes \cup {Dummy}) :
         IsList(l, k) /\ Chain(l, head, tail, link) /\ ThreadsFit(k, l) /\ Typed(l, link)
  BY QueueFacts
<1>e. /\ Set(link, Dummy, Null, link') /\ head' = Dummy /\ tail' = tail /\ enq' = enq
      /\ enqueued' = enqueued /\ dequeued' = dequeued
  BY DEF DequeueExchange, Set
<1>f. deq.at = "exchange" /\ deq' = [deq EXCEPT !.at = "link", !.prev = head]
  BY DEF DequeueExchange
<1>d. deq' \in [at : {"idle", "second", "head", "exchange", "link", "reload", "got", "none"},
                node : Places, prev : Places]
      /\ deq'.at = "link" /\ deq'.prev = head /\ deq'.node = deq.node
  <2>1. head \in Places
    BY <1>i DEF MPSCTypeOK, Places
  <2> QED BY <2>1, <1>i, <1>f DEF MPSCTypeOK
<1>0. k = -1 /\ deq.node = l[1] /\ l[1] # Dummy
  BY <1>k, <1>f DEF ThreadsFit
<1> DEFINE l2 == Append(l, Dummy)
<1>1. /\ Holds(l, enqueued, Len(dequeued), -1)
      /\ Holds(l2, enqueued, Len(dequeued), Len(enqueued))
      /\ \A i \in 1 .. Len(l) : l[i] # Dummy
  <2>1. Holds(l, enqueued, Len(dequeued), -1)
    BY <1>0, <1>k DEF IsList
  <2> QED BY <2>1, <1>i, ListAppendsDummy, ListWithoutDummy
<1>c. /\ Chain(l2, Dummy, tail, link')
      /\ Cut(l2, link', head, Dummy)
      /\ \A u, v : Cut(l, link, u, v) => Cut(l2, link', u, v) /\ u # head
  <2>1. New(l, Dummy)
    BY <1>1 DEF New
  <2> QED BY <2>1, <1>k, <1>e, ChainAppend
<1>2. l2 \in Seq(Nodes \cup {Dummy}) /\ l2[1] = l[1]
  BY <1>k DEF Chain
<1> HIDE DEF l2
<1>3. MPSCTypeOK'
  <2>1. Null \in Places
    BY DEF Places
  <2>2. link' \in [Nodes \cup {Dummy} -> Places]
    BY <2>1, <1>e, <1>i DEF MPSCTypeOK, Set
  <2> QED BY <2>2, <1>d, <1>i, <1>e DEF MPSCTypeOK
<1>z. PICK e \in Nat : e = Len(enqueued)
  BY <1>i
<1>4. DequeuedFirst' /\ EnqueuedOnce' /\ IsList(l2, e)'
  BY <1>i, <1>e, <1>z, <1>1 DEF DequeuedFirst, EnqueuedOnce, IsList
<1>5. ThreadsFit(e, l2)'
  <2>1. \A q \in Producers : Linking(q) => Cut(l2, link', enq[q].prev, enq[q].node) /\ enq[q].prev # head
    BY <1>c, <1>k DEF ThreadsFit
  <2> QED BY <2>1, <1>0, <1>2, <1>c, <1>d, <1>e, <1>k DEF ThreadsFit, Linking
<1>6. ListFits(e, l2)'
  BY <1>4, <1>5, <1>c, <1>e DEF ListFits
<1>7. e \in {-1} \cup (Len(dequeued') .. Len(enqueued'))
  BY <1>e, <1>i, <1>z
<1> QED BY <1>2, <1>3, <1>4, <1>6, <1>7 DEF QueueIInv

(* The consumer links the dummy. *)
LEMMA LinkingDummyKeepsQueue ==
  ASSUME QueueIInv, DequeueLink
  PROVE  QueueIInv'
<1>i. /\ MPSCTypeOK /\ DequeuedFirst /\ EnqueuedOnce
      /\ enqueued \in Seq(Nodes) /\ dequeued \in Seq(Nodes)
  BY QueueFacts
<1>k. PICK k \in {-1} \cup (Len(dequeued) .. Len(enqueued)), l \in Seq(Nodes \cup {Dummy}) :
         IsList(l, k) /\ Chain(l, head, tail, link) /\ ThreadsFit(k, l) /\ Typed(l, link)
  BY QueueFacts
<1>e. /\ Set(link, deq.prev, Dummy, link') /\ head' = head /\ tail' = tail /\ enq' = enq
      /\ enqueued' = enqueued /\ dequeued' = dequeued
  BY DEF DequeueLink, Set
<1>f. deq.at = "link" /\ deq' = [deq EXCEPT !.at = "reload"]
  BY DEF DequeueLink
<1>d. /\ deq' \in [at : {"idle", "second", "head", "exchange", "link", "reload", "got", "none"},
                   node : Places, prev : Places]
      /\ deq'.at = "reload" /\ deq'.node = deq.node
  BY <1>i, <1>f DEF MPSCTypeOK
<1>c. /\ Chain(l, head, tail, link')
      /\ \A u, v : Cut(l, link, u, v) /\ u # deq.prev => Cut(l, link', u, v)
  <2>1. Cut(l, link, deq.prev, Dummy)
    BY <1>k, <1>f DEF ThreadsFit
  <2> QED BY <2>1, <1>e, <1>k, ChainLink
<1>1. MPSCTypeOK'
  <2>1. Dummy \in Places
    BY DEF Places
  <2>2. link' \in [Nodes \cup {Dummy} -> Places]
    BY <2>1, <1>e, <1>i DEF MPSCTypeOK, Set
  <2> QED BY <2>2, <1>d, <1>i, <1>e DEF MPSCTypeOK
<1>2. DequeuedFirst' /\ EnqueuedOnce' /\ IsList(l, k)'
  BY <1>i, <1>e, <1>k DEF DequeuedFirst, EnqueuedOnce, IsList
<1>3. ThreadsFit(k, l)'
  <2>1. \A q \in Producers : Linking(q) => Cut(l, link', enq[q].prev, enq[q].node)
    BY <1>c, <1>f, <1>k DEF ThreadsFit
  <2> QED BY <2>1, <1>d, <1>e, <1>f, <1>k DEF ThreadsFit, Linking
<1>4. ListFits(k, l)'
  BY <1>2, <1>3, <1>c, <1>e DEF ListFits
<1> QED BY <1>1, <1>2, <1>4, <1>e, <1>k DEF QueueIInv

(* Every step of Dequeue is one of these. *)
LEMMA DequeueSteps ==
  ASSUME QueueIInv, DequeueStep
  PROVE  \/ \E at \in {"idle", "head", "exchange", "none"} : \E n : Moves(at, n)
         \/ SkipsDummy \/ Returns \/ DequeueExchange \/ DequeueLink
<1>k. PICK k \in {-1} \cup (Len(dequeued) .. Len(enqueued)), l \in Seq(Nodes \cup {Dummy}) :
         IsList(l, k) /\ Chain(l, head, tail, link) /\ ThreadsFit(k, l) /\ Typed(l, link)
  BY QueueFacts
<1>t. deq.at \in {"second", "head", "exchange", "link", "reload"} => deq.node = tail /\ tail # Dummy
  BY <1>k DEF ThreadsFit, Chain
<1>i. \A at, n : [Idle EXCEPT !.at = at, !.node = n] = [at |-> at, node |-> n, prev |-> Null]
  <2> TAKE at, n
  <2>1. [Idle EXCEPT !.at = at, !.node = n] = [[Idle EXCEPT !.at = at] EXCEPT !.node = n]
    BY DEF Idle
  <2>2. [Idle EXCEPT !.at = at] = [at |-> at, node |-> Null, prev |-> Null]
    BY DEF Idle
  <2>3. [[at |-> at, node |-> Null, prev |-> Null] EXCEPT !.node = n]
          = [at |-> at, node |-> n, prev |-> Null]
    OBVIOUS
  <2> QED BY <2>1, <2>2, <2>3
<1>j. \A at : [Idle EXCEPT !.at = at] = [at |-> at, node |-> Null, prev |-> Null]
  BY DEF Idle
<1>f. ReturnFalse => Moves("none", Null)
  BY <1>j DEF ReturnFalse, Moves
<1>r. tail # Dummy /\ link[tail] # Null /\ Return(tail, link[tail]) => Returns
  BY <1>i DEF Return, Returns
<1>h. tail # Dummy /\ DequeueGoesTo("head", tail) /\ UNCHANGED tail => Moves("head", tail)
  BY <1>i DEF DequeueGoesTo, Moves
<1>x. tail # Dummy /\ head = tail /\ DequeueGoesTo("exchange", tail) /\ UNCHANGED tail => Moves("exchange", tail)
  BY <1>i DEF DequeueGoesTo, Moves
<1>s. tail = Dummy /\ link[tail] # Null /\ tail' = link[tail] /\ DequeueGoesTo("second", link[tail]) => SkipsDummy
  BY <1>i DEF DequeueGoesTo, SkipsDummy
<1>1. CASE DequeueLoad
  BY <1>1, <1>f, <1>r, <1>h, <1>s DEF DequeueLoad
<1>2. CASE DequeueSecond
  BY <1>2, <1>t, <1>r, <1>h DEF DequeueSecond
<1>3. CASE DequeueHead
  BY <1>3, <1>t, <1>f, <1>x DEF DequeueHead
<1>4. CASE DequeueReload
  BY <1>4, <1>t, <1>f, <1>r DEF DequeueReload
<1> QED BY <1>1, <1>2, <1>3, <1>4 DEF DequeueStep

(* The invariant of the queue is inductive. *)
LEMMA QueueStepKeepsQueue ==
  ASSUME QueueIInv, QueueStep
  PROVE  QueueIInv'
<1>1. CASE \E p \in Producers, n \in Nodes : ~Contains(enqueued, n) /\ EnqueueExchange(p, n)
  BY <1>1, ExchangeKeepsQueue
<1>2. CASE \E p \in Producers : EnqueueLink(p)
  BY <1>2, LinkKeepsQueue
<1>3. CASE DequeueStep
  BY <1>3, DequeueSteps, MovingOnKeepsQueue, SkippingKeepsQueue, ReturningKeepsQueue,
     DummyKeepsQueue, LinkingDummyKeepsQueue
<1>4. CASE deq' = Idle /\ UNCHANGED <<link, head, tail, enq, enqueued, dequeued>>
  <2>1. Moves("idle", Null)
    BY <1>4 DEF Moves, Idle
  <2> QED BY <2>1, MovingOnKeepsQueue
<1>5. CASE UNCHANGED queueVars
  BY <1>5 DEF queueVars, QueueIInv, MPSCTypeOK, DequeuedFirst, EnqueuedOnce, ListFits, IsList,
     ThreadsFit, Linking
<1> QED BY <1>1, <1>2, <1>3, <1>4, <1>5 DEF QueueStep

(* At first the list is the dummy alone. *)
LEMMA QueueInitIInv ==
  ASSUME QueueInit
  PROVE  QueueIInv
<1>1. MPSCTypeOK
  <2>1. Null \in Places
    BY DEF Places
  <2>2. Idle \in [at : {"idle", "link"}, node : Places, prev : Places]
    BY <2>1 DEF Idle
  <2>3. Idle \in [at : {"idle", "second", "head", "exchange", "link", "reload", "got", "none"},
                  node : Places, prev : Places]
    BY <2>1 DEF Idle
  <2> QED BY <2>1, <2>2, <2>3 DEF QueueInit, MPSCTypeOK
<1>2. DequeuedFirst /\ EnqueuedOnce
  BY DEF QueueInit, DequeuedFirst, EnqueuedOnce
<1> DEFINE l == <<Dummy>>
<1>3. l \in Seq(Nodes \cup {Dummy}) /\ Len(l) = 1 /\ l[1] = Dummy /\ l # <<>>
  OBVIOUS
<1> HIDE DEF l
<1>4. IsList(l, 0)
  BY <1>3 DEF QueueInit, IsList, Holds, Element
<1>5. Chain(l, head, tail, link)
  <2>1. l # <<>> /\ link[Dummy] = Null /\ head = Dummy /\ tail = Dummy
    BY <1>3 DEF QueueInit
  <2>2. Len(l) - 1 = 0 /\ 1 .. 0 = {} /\ 1 .. Len(l) = {1}
    BY <1>3
  <2> QED BY <1>3, <2>1, <2>2 DEF Chain
<1>6. ThreadsFit(0, l)
  <2>1. deq.at = "idle" /\ \A p \in Producers : enq[p].at = "idle"
    BY DEF QueueInit, Idle
  <2> QED BY <2>1 DEF ThreadsFit, Linking
<1>7. 0 \in Len(dequeued) .. Len(enqueued)
  BY DEF QueueInit
<1> QED BY <1>1, <1>2, <1>3, <1>4, <1>5, <1>6, <1>7 DEF QueueIInv, ListFits

-----------------------------------------------------------------------------
(* Dequeue delivers the next packet of the stream. *)
LEMMA ReturningDelivers ==
  ASSUME QueueIInv, Returns
  PROVE  Queue!Deliver
<1>i. /\ DequeuedFirst
      /\ enqueued \in Seq(Nodes) /\ dequeued \in Seq(Nodes)
      /\ Len(dequeued) \in 0 .. Len(enqueued) /\ Len(enqueued) \in Nat
  BY QueueFacts
<1>1. /\ Len(dequeued) + 1 \in 1 .. Len(enqueued)
      /\ tail = enqueued[Len(dequeued) + 1]
  BY ReturningKeepsQueue
<1>2. dequeued' = Append(dequeued, tail) /\ enqueued' = enqueued
  BY DEF Returns
<1> DEFINE n == Len(dequeued) + 1
           a == Append(dequeued, tail)
           b == SubSeq(enqueued, 1, n)
<1>3. /\ a \in Seq(Nodes) /\ Len(a) = n
      /\ \A i \in 1 .. Len(dequeued) : a[i] = dequeued[i]
      /\ a[n] = tail
  <2>1. tail \in Nodes
    BY <1>1, <1>i
  <2> QED BY <2>1, <1>i
<1>4. /\ b \in Seq(Nodes) /\ Len(b) = n
      /\ \A i \in 1 .. n : b[i] = enqueued[i]
  BY <1>1, <1>i
<1>5. n \in Nat /\ n = Len(dequeued) + 1 /\ Len(dequeued) \in Nat
  BY <1>i
<1> HIDE DEF n, a, b
<1>6. \A i \in 1 .. n : a[i] = b[i]
  <2> TAKE i \in 1 .. n
  <2>1. CASE i = n
    BY <2>1, <1>1, <1>3, <1>4 DEF n
  <2>2. CASE i \in 1 .. Len(dequeued)
    BY <2>2, <1>3, <1>4, <1>i DEF DequeuedFirst
  <2> QED BY <2>1, <2>2, <1>5
<1>7. a = b
  BY <1>3, <1>4, <1>6, SeqEqual
<1>8. n \in Len(dequeued) + 1 .. Len(enqueued)
  BY <1>1, <1>5, <1>i
<1>9. dequeued' = SubSeq(enqueued, 1, n)
  BY <1>2, <1>7 DEF a, b
<1> QED BY <1>2, <1>8, <1>9 DEF Queue!Deliver

(* The queue implements the stream of packets, step by step. *)
LEMMA QueueStepIsStreamStep ==
  ASSUME QueueIInv, QueueStep
  PROVE  [Queue!Send \/ Queue!Deliver]_(Queue!streamVars)
<1>1. CASE \E p \in Producers, n \in Nodes : ~Contains(enqueued, n) /\ EnqueueExchange(p, n)
  BY <1>1 DEF EnqueueExchange, Queue!Send
<1>2. CASE \E p \in Producers : EnqueueLink(p)
  BY <1>2 DEF EnqueueLink, Queue!streamVars
<1>3. CASE DequeueStep
  <2>1. CASE Returns
    BY <2>1, ReturningDelivers
  <2>2. CASE UNCHANGED <<enqueued, dequeued>>
    BY <2>2 DEF Queue!streamVars
  <2> QED BY <2>1, <2>2, <1>3, DequeueSteps DEF Moves, SkipsDummy, DequeueExchange, DequeueLink
<1>4. CASE deq' = Idle /\ UNCHANGED <<link, head, tail, enq, enqueued, dequeued>>
  BY <1>4 DEF Queue!streamVars
<1>5. CASE UNCHANGED queueVars
  BY <1>5 DEF queueVars, Queue!streamVars
<1> QED BY <1>1, <1>2, <1>3, <1>4, <1>5 DEF QueueStep

-----------------------------------------------------------------------------
(* The socket.  What the consumer has got is a packet. *)
GotPacket == deq.at = "got" => deq.node \in Nodes

Sent(n) == Contains(enqueued, n)

(* The handshake: while it waits for an answer of the database nothing is    *)
(* read, and after a refusal nothing is asked and read any more, so that the *)
(* challenge and the refusal are sent once.                                  *)
HandshakeInv ==
  /\ query = "ip" => ~Sent(Challenge)
  /\ reading = "init" => query = "none" /\ ~Sent(Challenge)
  /\ query \in {"ip", "account"} => ~authed
  /\ query \in {"ip", "account"} \/ Sent(Response) =>
       reading = "none" /\ netpc \notin {"handle", "using", "rearm"}
  /\ Sent(Response) => query = "none" /\ ~authed
  /\ closing \/ netpc = "reject" => Sent(Response)

(* A thread in SendPacket has a packet that it has not enqueued. *)
SendersInv ==
  \A p \in sending : \E i \in 1 .. Len(Outgoing[p]) : ~Sent(Outgoing[p][i])

(* The session: only who closed the socket, until it has taken the pointer   *)
(* away, may leave it set behind; before the session is added to the world   *)
(* nobody but the network thread closes the socket.                          *)
SessionInv ==
  /\ ~authed => ~worldSession /\ session = "none"
  /\ locked <=> netpc \in {"using", "logging"}
  /\ netpc = "using" => worldSession
  /\ worldSession /\ closed => wpc = "onClose" \/ netpc = "onClose"
  /\ worldSession /\ netpc # "onClose" => session \in {"created", "added"}
  /\ netpc = "onClose" => closed
  /\ wpc = "onClose" => session = "added"
  /\ query = "permissions" => session = "created" /\ (~closed => worldSession)
  /\ netpc \in {"write", "callbacks"} /\ session \in {"none", "created"} /\ ~closing => ~closed

SocketIInv ==
  SocketTypeOK /\ QueueIInv /\ GotPacket /\ HandshakeInv /\ SendersInv /\ SessionInv

(* The index that SelectInSeq chooses is one of the candidates. *)
LEMMA NonEmptySetOfNaturalsHasMin ==
  ASSUME NEW S, S \subseteq Nat, S # {}
  PROVE  Min(S) \in S
<1> DEFINE R == OpToRel(<, Nat)
<1>1. IsWellFoundedOn(R, Nat)
  BY NatLessThanWellFounded
<1>2. PICK x \in S : \A y \in S : <<y, x>> \notin R
  <2> HIDE DEF R
  <2> QED BY <1>1, WFMin
<1>3. \A y \in S : x <= y
  <2> TAKE y \in S
  <2>1. x \in Nat /\ y \in Nat
    OBVIOUS
  <2>2. y < x => <<y, x>> \in R
    BY <2>1 DEF OpToRel
  <2>3. ~(y < x)
    <3> HIDE DEF R
    <3> QED BY <1>2, <2>2
  <2> QED BY <2>1, <2>3
<1> QED BY <1>3 DEF Min

(* What SendPacket enqueues was not enqueued before. *)
LEMMA NextPacketIsNew ==
  ASSUME NEW p \in Senders, NEW i \in 1 .. Len(Outgoing[p]), ~Sent(Outgoing[p][i])
  PROVE  LET n == Outgoing[p][NextPacket(p)]
         IN NextPacket(p) \in 1 .. Len(Outgoing[p]) /\ n \in Nodes /\ ~Sent(n)
<1> DEFINE I == {j \in 1 .. Len(Outgoing[p]) : ~Contains(enqueued, Outgoing[p][j])}
<1>1. i \in I
  BY DEF Sent
<1>2. NextPacket(p) = Min(I)
  BY <1>1 DEF NextPacket, SelectInSeq
<1>3. Outgoing[p] \in Seq(Nodes)
  BY OutgoingAssumption DEF Senders
<1>4. I \subseteq Nat
  BY <1>3
<1>5. Min(I) \in I
  <2> HIDE DEF I
  <2> QED BY <1>1, <1>4, NonEmptySetOfNaturalsHasMin
<1>6. NextPacket(p) \in 1 .. Len(Outgoing[p]) /\ ~Contains(enqueued, Outgoing[p][NextPacket(p)])
  BY <1>2, <1>5
<1>7. Outgoing[p][NextPacket(p)] \in Nodes
  BY ONLY <1>3, <1>6
<1> QED BY <1>6, <1>7 DEF Sent

(* A thread enters SendPacket with a packet that was not sent. *)
LEMMA NextPacketExists ==
  ASSUME NEW p \in Senders, NextPacket(p) # 0
  PROVE  \E i \in 1 .. Len(Outgoing[p]) : ~Sent(Outgoing[p][i])
BY DEF NextPacket, SelectInSeq, Sent

(* Which packets are sent after one more is. *)
LEMMA SentAfterEnqueue ==
  ASSUME enqueued \in Seq(Nodes), NEW m \in Nodes, enqueued' = Append(enqueued, m), NEW n
  PROVE  Sent(n)' <=> Sent(n) \/ n = m
<1>1. /\ Len(enqueued') = Len(enqueued) + 1 /\ Len(enqueued) \in Nat
      /\ \A i \in 1 .. Len(enqueued) : enqueued'[i] = enqueued[i]
      /\ enqueued'[Len(enqueued) + 1] = m
  OBVIOUS
<1>2. Len(enqueued) + 1 \in 1 .. Len(enqueued')
      /\ \A i \in 1 .. Len(enqueued') : i \in 1 .. Len(enqueued) \/ i = Len(enqueued) + 1
  BY <1>1
<1>3. \A i \in 1 .. Len(enqueued) : i \in 1 .. Len(enqueued')
  BY <1>1
<1> QED BY <1>1, <1>2, <1>3 DEF Sent, Contains

(* The steps that enqueue a packet, and which. *)
Sends(n) ==
  \/ SendAuthResponseError /\ n = Response
  \/ ReadInitializer /\ n = Challenge
  \/ AnswerPing /\ n = Pong
  \/ \E p \in Senders : SendPacketEnqueues(p) /\ n = Outgoing[p][NextPacket(p)]

(* Each of them enqueues a packet that was not enqueued before. *)
LEMMA SendsNewPacket ==
  ASSUME HandshakeInv, SendersInv, NEW n, Sends(n)
  PROVE  /\ n \in Nodes /\ ~Sent(n)
         /\ \E p \in Producers : EnqueueExchange(p, n)
<1>0. Net \in Producers /\ \A p \in Senders : p \in Producers
  BY ProducersAssumption DEF Senders
<1>1. CASE SendAuthResponseError /\ n = Response
  BY <1>0, <1>1, NetPacketsAssumption DEF SendAuthResponseError, HandshakeInv
<1>2. CASE ReadInitializer /\ n = Challenge
  BY <1>0, <1>2, NetPacketsAssumption DEF ReadInitializer, HandshakeInv
<1>3. CASE AnswerPing /\ n = Pong
  BY <1>0, <1>3, NetPacketsAssumption DEF AnswerPing, Sent
<1>4. CASE \E p \in Senders : SendPacketEnqueues(p) /\ n = Outgoing[p][NextPacket(p)]
  <2>1. PICK p \in Senders : SendPacketEnqueues(p) /\ n = Outgoing[p][NextPacket(p)]
    BY <1>4
  <2>2. p \in sending /\ EnqueueExchange(p, n)
    BY <2>1 DEF SendPacketEnqueues
  <2>3. PICK i \in 1 .. Len(Outgoing[p]) : ~Sent(Outgoing[p][i])
    BY <2>2 DEF SendersInv
  <2>4. n \in Nodes /\ ~Sent(n)
    BY <2>1, <2>3, NextPacketIsNew
  <2> QED BY <2>2, <2>4, <1>0
<1> QED BY <1>1, <1>2, <1>3, <1>4 DEF Sends

(* Every step of the socket is one of the queue. *)
LEMMA SocketStepIsQueueStep ==
  ASSUME HandshakeInv, SendersInv, [SocketNext]_vars
  PROVE  /\ QueueStep
         /\ (\E n : Sends(n)) \/ enqueued' = enqueued
<1>0. Net \in Producers /\ \A p \in Senders : p \in Producers
  BY ProducersAssumption DEF Senders
<1>1. ASSUME NEW n, Sends(n) PROVE QueueStep
  BY <1>1, SendsNewPacket DEF QueueStep, Sent
<1>2. ASSUME NEW p \in Producers, EnqueueLink(p) PROVE QueueStep /\ enqueued' = enqueued
  BY <1>2 DEF QueueStep, EnqueueLink
<1>3. ASSUME UNCHANGED queueVars PROVE QueueStep /\ enqueued' = enqueued
  BY <1>3 DEF QueueStep, queueVars
<1>4. ASSUME deq' = Idle /\ UNCHANGED <<link, head, tail, enq, enqueued, dequeued>>
      PROVE  QueueStep /\ enqueued' = enqueued
  BY <1>4 DEF QueueStep
<1>5. ASSUME DequeueStep PROVE QueueStep /\ enqueued' = enqueued
  BY <1>5 DEF QueueStep, DequeueStep, DequeueLoad, DequeueSecond, DequeueHead, DequeueExchange,
     DequeueLink, DequeueReload, Return, ReturnFalse, DequeueGoesTo
<1>6. CASE NetContinues
  <2>1. CASE NetDequeue
    BY <2>1, <1>5 DEF NetDequeue
  <2>2. CASE NetBuffers
    BY <2>2, <1>4 DEF NetBuffers
  <2>3. CASE NetDrained
    BY <2>3, <1>4 DEF NetDrained
  <2>4. CASE NetBaseUpdate \/ HandleQueue
    BY <2>4, <1>3 DEF NetBaseUpdate, HandleQueue, WouldBlock, PartialWrite, WriteFails, WriteAll
  <2>5. CASE NetCallback
    BY <2>5, <1>1, <1>3 DEF NetCallback, NothingReady, IpIsAllowed, AccountIsAccepted,
       LoadSessionPermissionsCallback, Sends
  <2>6. CASE DelayedCloseSocket \/ NetOnClose \/ LockSession \/ NoSession \/ UseSession \/ AsyncRead
    BY <2>6, <1>3 DEF DelayedCloseSocket, NetOnClose, LockSession, NoSession, NetCloses, UseSession, AsyncRead
  <2>9. CASE NeedsNoSession \/ LockDuplicateAuth \/ LogDuplicateAuth \/ DuplicateAuthUnlogged
    BY <2>9, <1>3 DEF NeedsNoSession, LockDuplicateAuth, LogDuplicateAuth, DuplicateAuthUnlogged, NetCloses
  <2>7. CASE AnswerPing
    BY <2>7, <1>1 DEF Sends
  <2>8. CASE SendPacketLinks(Net)
    BY <2>8, <1>0, <1>2 DEF SendPacketLinks
  <2> QED BY <1>6, <2>1, <2>2, <2>3, <2>4, <2>5, <2>6, <2>7, <2>8, <2>9 DEF NetContinues
<1>7. CASE NetRead \/ ReadFails
  BY <1>7, <1>1, <1>3 DEF NetRead, ReadFails, ReadError, ReadWhenClosed, ReadAuthSession, ReadPacket,
     NetCloses, Sends
<1>8. CASE \E p \in Senders : SendPacket(p) \/ SendPacketEnqueues(p) \/ SendPacketLinks(p)
  <2> PICK p \in Senders : SendPacket(p) \/ SendPacketEnqueues(p) \/ SendPacketLinks(p)
    BY <1>8
  <2>1. CASE SendPacket(p)
    BY <2>1, <1>3 DEF SendPacket
  <2>2. CASE SendPacketEnqueues(p)
    <3>1. Sends(Outgoing[p][NextPacket(p)])
      BY <2>2 DEF Sends
    <3> QED BY <3>1, <1>1
  <2>3. CASE SendPacketLinks(p)
    BY <2>3, <1>0, <1>2 DEF SendPacketLinks
  <2> QED BY <2>1, <2>2, <2>3
<1>9. CASE NetUpdate \/ WriteHandlerWrapper \/ DbAnswers \/ PeerGoes
           \/ KickPlayer \/ OnClose \/ DeleteSession \/ Finished
  BY <1>9, <1>3 DEF NetUpdate, WriteHandlerWrapper, DbAnswers, PeerGoes, KickPlayer, OnClose,
     DeleteSession, Finished, vars
<1>10. CASE UNCHANGED vars
  BY <1>10, <1>3 DEF vars
<1> QED BY <1>6, <1>7, <1>8, <1>9, <1>10 DEF SocketNext

(* What Dequeue has got is a packet. *)
LEMMA QueueStepKeepsGotPacket ==
  ASSUME QueueIInv, GotPacket, QueueStep
  PROVE  GotPacket'
<1>1. CASE \E p \in Producers, n \in Nodes : ~Contains(enqueued, n) /\ EnqueueExchange(p, n)
  BY <1>1 DEF EnqueueExchange, GotPacket
<1>2. CASE \E p \in Producers : EnqueueLink(p)
  BY <1>2 DEF EnqueueLink, GotPacket
<1>3. CASE DequeueStep
  <2>1. CASE \E at \in {"idle", "head", "exchange", "none"} : \E n : Moves(at, n)
    BY <2>1 DEF Moves, GotPacket
  <2>2. CASE SkipsDummy
    BY <2>2 DEF SkipsDummy, GotPacket
  <2>3. CASE Returns
    <3>1. Len(dequeued) + 1 \in 1 .. Len(enqueued) /\ tail = enqueued[Len(dequeued) + 1]
      BY <2>3, ReturningKeepsQueue
    <3>2. tail \in Nodes
      BY <3>1, QueueFacts
    <3>3. deq'.node = tail
      BY <2>3 DEF Returns
    <3> QED BY <3>2, <3>3 DEF GotPacket
  <2>4. CASE DequeueExchange
    <3>1. deq'.at = "link"
      BY <2>4, QueueFacts DEF DequeueExchange, MPSCTypeOK
    <3> QED BY <3>1 DEF GotPacket
  <2>5. CASE DequeueLink
    <3>1. deq'.at = "reload"
      BY <2>5, QueueFacts DEF DequeueLink, MPSCTypeOK
    <3> QED BY <3>1 DEF GotPacket
  <2> QED BY <1>3, <2>1, <2>2, <2>3, <2>4, <2>5, DequeueSteps
<1>4. CASE deq' = Idle /\ UNCHANGED <<link, head, tail, enq, enqueued, dequeued>>
  BY <1>4 DEF Idle, GotPacket
<1>5. CASE UNCHANGED queueVars
  BY <1>5 DEF queueVars, GotPacket
<1> QED BY <1>1, <1>2, <1>3, <1>4, <1>5 DEF QueueStep

(* Only SendPacket brings a thread into sending. *)
LEMMA SendingGrowsBySendPacket ==
  ASSUME [SocketNext]_vars
  PROVE  sending' \subseteq sending \/ \E p \in Senders : SendPacket(p)
<1>1. CASE NetContinues
  BY <1>1 DEF NetContinues, NetDequeue, NetBuffers, NetDrained, NetBaseUpdate, HandleQueue, WouldBlock,
     PartialWrite, WriteFails, WriteAll, NetCallback, NothingReady, IpIsAllowed, SendAuthResponseError,
     AccountIsAccepted, LoadSessionPermissionsCallback, DelayedCloseSocket, NetOnClose, LockSession,
     NoSession, NetCloses, UseSession, AnswerPing, AsyncRead, SendPacketLinks,
     NeedsNoSession, LockDuplicateAuth, LogDuplicateAuth, DuplicateAuthUnlogged, otherVars
<1>2. CASE NetRead \/ ReadFails
  BY <1>2 DEF NetRead, ReadFails, ReadError, ReadWhenClosed, ReadInitializer, ReadAuthSession,
     ReadPacket, NetCloses, otherVars
<1>3. CASE \E p \in Senders : SendPacket(p) \/ SendPacketEnqueues(p) \/ SendPacketLinks(p)
  BY <1>3 DEF SendPacketEnqueues, SendPacketLinks, otherVars
<1>4. CASE NetUpdate \/ WriteHandlerWrapper \/ DbAnswers \/ PeerGoes
           \/ KickPlayer \/ OnClose \/ DeleteSession \/ Finished \/ UNCHANGED vars
  BY <1>4 DEF NetUpdate, WriteHandlerWrapper, DbAnswers, PeerGoes, KickPlayer, OnClose,
     DeleteSession, Finished, vars, otherVars
<1> QED BY <1>1, <1>2, <1>3, <1>4 DEF SocketNext

(* A thread in SendPacket keeps a packet to send: nobody else enqueues it. *)
LEMMA StepKeepsSenders ==
  ASSUME SocketIInv, [SocketNext]_vars
  PROVE  SendersInv'
<1>i. HandshakeInv /\ SendersInv /\ sending \subseteq Senders /\ enqueued \in Seq(Nodes)
  BY DEF SocketIInv, SocketTypeOK, MPSCTypeOK, Senders
<1>1. CASE enqueued' = enqueued
  <2>1. \A n : Sent(n)' <=> Sent(n)
    BY <1>1 DEF Sent
  <2>2. CASE sending' \subseteq sending
    BY <2>1, <2>2, <1>i DEF SendersInv
  <2>3. CASE \E p \in Senders : SendPacket(p)
    <3>1. PICK p \in Senders : SendPacket(p)
      BY <2>3
    <3>2. sending' = sending \cup {p} /\ NextPacket(p) # 0
      BY <3>1 DEF SendPacket
    <3>3. \E i \in 1 .. Len(Outgoing[p]) : ~Sent(Outgoing[p][i])
      BY <3>2, NextPacketExists
    <3> QED BY <2>1, <3>2, <3>3, <1>i DEF SendersInv
  <2>4. sending' \subseteq sending \/ \E p \in Senders : SendPacket(p)
    BY SendingGrowsBySendPacket
  <2> QED BY <2>2, <2>3, <2>4
<1>2. CASE \E n : Sends(n)
  <2>1. PICK n : Sends(n)
    BY <1>2
  <2>2. n \in Nodes /\ enqueued' = Append(enqueued, n)
    BY <1>i, <2>1, SendsNewPacket DEF EnqueueExchange
  <2>3. \A m : Sent(m)' <=> Sent(m) \/ m = n
    BY <2>2, <1>i, SentAfterEnqueue
  <2> SUFFICES ASSUME NEW p \in sending' PROVE \E i \in 1 .. Len(Outgoing[p]) : ~Sent(Outgoing[p][i])'
    BY DEF SendersInv
  <2>4. p \in sending /\ p \in Senders /\ \A i \in 1 .. Len(Outgoing[p]) : Outgoing[p][i] # n
    <3>1. CASE n \in {Response, Challenge, Pong} /\ sending' = sending
      BY <3>1, <1>i, PacketsAreDistinct DEF Senders
    <3>2. CASE \E q \in Senders : SendPacketEnqueues(q) /\ n = Outgoing[q][NextPacket(q)]
      <4>1. PICK q \in Senders : SendPacketEnqueues(q) /\ n = Outgoing[q][NextPacket(q)]
        BY <3>2
      <4>2. q \in sending /\ sending' = sending \ {q}
        BY <4>1 DEF SendPacketEnqueues
      <4>3. NextPacket(q) \in 1 .. Len(Outgoing[q])
        BY <4>2, <1>i, NextPacketIsNew DEF SendersInv
      <4>4. p # q /\ p \in Senders
        BY <4>2, <1>i
      <4> QED BY <4>1, <4>2, <4>3, <4>4, PacketsAreDistinct DEF Senders
    <3> QED BY <2>1, <3>1, <3>2 DEF Sends, SendAuthResponseError, ReadInitializer, AnswerPing, otherVars
  <2>5. PICK i \in 1 .. Len(Outgoing[p]) : ~Sent(Outgoing[p][i])
    BY <2>4, <1>i DEF SendersInv
  <2>6. ~Sent(Outgoing[p][i])'
    BY <2>3, <2>4, <2>5
  <2> QED BY <2>6
<1> QED BY <1>1, <1>2, <1>i, SocketStepIsQueueStep

(* The handshake goes forward. *)
LEMMA StepKeepsHandshake ==
  ASSUME SocketIInv, [SocketNext]_vars
  PROVE  HandshakeInv'
<1>i. HandshakeInv /\ SendersInv /\ SessionInv /\ enqueued \in Seq(Nodes)
  BY DEF SocketIInv, SocketTypeOK, MPSCTypeOK
<1>q. (\E n : Sends(n)) \/ enqueued' = enqueued
  BY <1>i, SocketStepIsQueueStep
<1>n. ASSUME NEW n, Sends(n)
      PROVE  \A m : Sent(m)' <=> Sent(m) \/ m = n
  <2>1. n \in Nodes /\ enqueued' = Append(enqueued, n)
    BY <1>n, <1>i, SendsNewPacket DEF EnqueueExchange
  <2> QED BY <2>1, <1>i, SentAfterEnqueue
<1>1. CASE SendAuthResponseError
  <2>1. \A m : Sent(m)' <=> Sent(m) \/ m = Response
    BY <1>1, <1>n DEF Sends
  <2> QED BY <2>1, <1>1, <1>i, PacketsAreDistinct DEF SendAuthResponseError, HandshakeInv, closeVars
<1>2. CASE ReadInitializer
  <2>1. \A m : Sent(m)' <=> Sent(m) \/ m = Challenge
    BY <1>2, <1>n DEF Sends
  <2> QED BY <2>1, <1>2, <1>i, PacketsAreDistinct DEF ReadInitializer, HandshakeInv, closeVars
<1>3. CASE AnswerPing
  <2>1. \A m : Sent(m)' <=> Sent(m) \/ m = Pong
    BY <1>3, <1>n DEF Sends
  <2> QED BY <2>1, <1>3, <1>i, PacketsAreDistinct DEF AnswerPing, NetAt, HandshakeInv, closeVars, authVars
<1>4. CASE \E p \in Senders : SendPacketEnqueues(p)
  <2>1. PICK p \in Senders : SendPacketEnqueues(p)
    BY <1>4
  <2> DEFINE n == Outgoing[p][NextPacket(p)]
  <2>2. Sends(n)
    BY <2>1 DEF Sends
  <2>3. PICK i \in 1 .. Len(Outgoing[p]) : ~Sent(Outgoing[p][i])
    BY <2>1, <1>i DEF SendPacketEnqueues, SendersInv
  <2>4. n # Challenge /\ n # Response
    BY <2>3, NextPacketIsNew, PacketsAreDistinct DEF Senders
  <2> HIDE DEF n
  <2>5. (Sent(Challenge)' <=> Sent(Challenge)) /\ (Sent(Response)' <=> Sent(Response))
    BY <2>2, <2>4, <1>n
  <2> QED BY <2>1, <2>5, <1>i DEF SendPacketEnqueues, HandshakeInv, closeVars, authVars
<1>5. ASSUME enqueued' = enqueued PROVE HandshakeInv'
  <2>0. (Sent(Challenge)' <=> Sent(Challenge)) /\ (Sent(Response)' <=> Sent(Response))
    BY <1>5 DEF Sent
  <2>1. ASSUME UNCHANGED <<closing, reading, query, authed>>,
               netpc' \in {"handle", "using", "rearm", "reject"} => netpc' = netpc
        PROVE  HandshakeInv'
    BY <2>0, <2>1, <1>i DEF HandshakeInv
  <2>2. CASE NetUpdate \/ WriteHandlerWrapper \/ DbAnswers \/ PeerGoes
             \/ KickPlayer \/ OnClose \/ DeleteSession \/ Finished \/ UNCHANGED vars
    BY <2>1, <2>2 DEF NetUpdate, WriteHandlerWrapper, DbAnswers, PeerGoes, KickPlayer, OnClose,
       DeleteSession, Finished, vars, closeVars, authVars
  <2>3. CASE NetDequeue \/ NetBuffers \/ NetDrained \/ NetBaseUpdate
    BY <2>1, <2>3 DEF NetDequeue, NetBuffers, NetDrained, NetBaseUpdate, closeVars, authVars
  <2>4. CASE HandleQueue
    BY <2>1, <2>4 DEF HandleQueue, WouldBlock, PartialWrite, WriteFails, WriteAll, AfterHandleQueue,
       closeVars, authVars
  <2>5. CASE NothingReady \/ NetOnClose
    BY <2>1, <2>5 DEF NothingReady, NetOnClose, closeVars, authVars
  <2>6. CASE \E p \in Senders : SendPacket(p)
    BY <2>1, <2>6 DEF SendPacket, closeVars, authVars
  <2>7. CASE \E p \in Producers : SendPacketLinks(p)
    BY <2>1, <2>7 DEF SendPacketLinks, closeVars, authVars
  <2>8. CASE IpIsAllowed
    BY <2>0, <2>8, <1>i DEF IpIsAllowed, NetAt, HandshakeInv, closeVars
  <2>9. CASE AccountIsAccepted
    BY <2>0, <2>9, <1>i DEF AccountIsAccepted, NetAt, HandshakeInv, closeVars
  <2>10. CASE LoadSessionPermissionsCallback
    BY <2>0, <2>10, <1>i DEF LoadSessionPermissionsCallback, NetAt, HandshakeInv, closeVars
  <2>11. CASE DelayedCloseSocket
    BY <2>0, <2>11, <1>i DEF DelayedCloseSocket, NetAt, HandshakeInv, authVars
  <2>12. CASE LockSession \/ UseSession \/ NeedsNoSession \/ LockDuplicateAuth
    BY <2>0, <2>12, <1>i DEF LockSession, UseSession, NeedsNoSession, LockDuplicateAuth, NetAt, HandshakeInv, closeVars, authVars
  <2>13. CASE NoSession \/ ReadFails \/ ReadError \/ LogDuplicateAuth \/ DuplicateAuthUnlogged
    BY <2>0, <2>13, <1>i DEF NoSession, LogDuplicateAuth, DuplicateAuthUnlogged, ReadFails, ReadError, NetCloses, HandshakeInv
  <2>14. CASE AsyncRead
    BY <2>0, <2>14, <1>i DEF AsyncRead, NetAt, HandshakeInv, closeVars
  <2>15. CASE ReadWhenClosed
    BY <2>0, <2>15, <1>i DEF ReadWhenClosed, HandshakeInv, closeVars
  <2>16. CASE ReadAuthSession
    BY <2>0, <2>16, <1>i DEF ReadAuthSession, NetAt, HandshakeInv, closeVars
  <2>17. CASE ReadPacket
    BY <2>0, <2>17, <1>i DEF ReadPacket, NetAt, HandshakeInv, closeVars
  <2>18. Net \in Producers /\ Senders \subseteq Producers
    BY ProducersAssumption DEF Senders
  <2> QED BY <2>2, <2>3, <2>4, <2>5, <2>6, <2>7, <2>8, <2>9, <2>10, <2>11, <2>12, <2>13, <2>14, <2>15,
             <2>16, <2>17, <2>18, <1>1, <1>2, <1>3, <1>4
          DEF SocketNext, NetContinues, NetCallback, NetRead
<1> QED BY <1>q, <1>1, <1>2, <1>3, <1>4, <1>5 DEF Sends

(* The pointer to the session, and who may close the socket. *)
LEMMA StepKeepsSession ==
  ASSUME SocketIInv, [SocketNext]_vars
  PROVE  SessionInv'
<1>i. HandshakeInv /\ SessionInv
  BY DEF SocketIInv
<1>1. ASSUME UNCHANGED <<closed, closing, query, authed, worldSession, session, locked, wpc>>,
             netpc' \in {"using", "logging", "onClose", "write", "callbacks"}
               \/ netpc \in {"using", "logging", "onClose"} => netpc' = netpc
      PROVE  SessionInv'
  BY <1>1, <1>i DEF SessionInv
<1>2. CASE NetUpdate \/ WriteHandlerWrapper \/ PeerGoes \/ DbAnswers \/ Finished \/ UNCHANGED vars
  BY <1>1, <1>2 DEF NetUpdate, WriteHandlerWrapper, PeerGoes, DbAnswers, Finished, vars, NetAt,
     closeVars, authVars, sessionVars, otherVars
<1>3. CASE NetDequeue \/ NetBuffers \/ NetDrained \/ NothingReady
  BY <1>1, <1>3 DEF NetDequeue, NetBuffers, NetDrained, NothingReady, NetAt,
     closeVars, authVars, sessionVars, otherVars
<1>4. CASE NetBaseUpdate
  BY <1>4, <1>i DEF NetBaseUpdate, NetAt, SessionInv, closeVars, authVars, sessionVars, otherVars
<1>5. CASE WouldBlock \/ PartialWrite
  BY <1>5, <1>i DEF WouldBlock, PartialWrite, AfterHandleQueue, SessionInv, closeVars, authVars, sessionVars, otherVars
<1>6. CASE WriteFails \/ WriteAll
  <2>1. /\ netpc \in {"write", "ready"} /\ netpc' \in {"write", "callbacks", "poll"}
        /\ netpc' \in {"write", "callbacks"} => netpc = "write"
        /\ UNCHANGED <<closing, query, authed, session, locked, wpc>>
    BY <1>6 DEF WriteFails, WriteAll, AfterHandleQueue, authVars, otherVars
  <2>2. CASE closed' = closed /\ worldSession' = worldSession
    BY <2>1, <2>2, <1>i DEF SessionInv
  <2>3. CASE closing /\ closed' /\ ~worldSession'
    BY <2>1, <2>3, <1>i DEF SessionInv, HandshakeInv
  <2>4. \/ closed' = closed /\ worldSession' = worldSession
        \/ closing /\ closed' /\ ~worldSession'
    <3>0. Pop /\ closed \in BOOLEAN /\ worldSession \in BOOLEAN
      BY <1>6 DEF WriteFails, WriteAll, SocketIInv, SocketTypeOK
    <3> QED BY <3>0 DEF Pop
  <2> QED BY <2>2, <2>3, <2>4
<1>7. CASE IpIsAllowed \/ SendAuthResponseError
  BY <1>7, <1>i DEF IpIsAllowed, SendAuthResponseError, NetAt, SessionInv, HandshakeInv, closeVars, sessionVars, otherVars
<1>8. CASE AccountIsAccepted
  BY <1>8, <1>i DEF AccountIsAccepted, NetAt, SessionInv, HandshakeInv, closeVars, otherVars
<1>9. CASE LoadSessionPermissionsCallback
  BY <1>9, <1>i DEF LoadSessionPermissionsCallback, NetAt, SessionInv, HandshakeInv, closeVars, otherVars
<1>10. CASE DelayedCloseSocket
  BY <1>10, <1>i DEF DelayedCloseSocket, NetAt, SessionInv, HandshakeInv, authVars, sessionVars, otherVars
<1>11. CASE NetOnClose
  BY <1>11, <1>i DEF NetOnClose, NetAt, SessionInv, HandshakeInv, authVars, otherVars
<1>12. CASE LockSession \/ UseSession \/ AnswerPing \/ LockDuplicateAuth
  BY <1>12, <1>i DEF LockSession, UseSession, AnswerPing, LockDuplicateAuth, NetAt, SessionInv, closeVars, authVars, otherVars
<1>22. CASE LogDuplicateAuth
  <2>1. /\ netpc = "logging" /\ closed' /\ netpc' = (IF closed THEN "poll" ELSE "onClose") /\ ~locked'
        /\ UNCHANGED <<closing, query, authed, worldSession, session, wpc>>
    BY <1>22 DEF LogDuplicateAuth, NetCloses, NetAt, otherVars
  <2>2. CASE closed
    BY <2>1, <2>2, <1>i DEF SessionInv
  <2>3. CASE ~closed
    BY <2>1, <2>3, <1>i DEF SessionInv
  <2> QED BY <2>2, <2>3
<1>13. CASE NoSession \/ DuplicateAuthUnlogged \/ ReadFails \/ ReadError
  <2>1. /\ netpc \in {"handle", "poll"} /\ closed' /\ netpc' = (IF closed THEN "poll" ELSE "onClose")
        /\ UNCHANGED <<closing, query, authed, worldSession, session, locked, wpc>>
    BY <1>13 DEF NoSession, DuplicateAuthUnlogged, ReadFails, ReadError, NetCloses, NetAt, otherVars
  <2>2. CASE closed
    BY <2>1, <2>2, <1>i DEF SessionInv
  <2>3. CASE ~closed
    BY <2>1, <2>3, <1>i DEF SessionInv
  <2> QED BY <2>2, <2>3
<1>14. CASE AsyncRead \/ ReadWhenClosed \/ ReadInitializer \/ ReadPacket \/ NeedsNoSession
  BY <1>1, <1>14 DEF AsyncRead, NeedsNoSession, ReadWhenClosed, ReadInitializer, ReadPacket, NetAt,
     closeVars, authVars, sessionVars, otherVars
<1>15. CASE ReadAuthSession
  BY <1>15, <1>i DEF ReadAuthSession, NetAt, SessionInv, HandshakeInv, closeVars, sessionVars, otherVars
<1>16. CASE \E p \in Senders : SendPacket(p) \/ SendPacketEnqueues(p)
  BY <1>1, <1>16 DEF SendPacket, SendPacketEnqueues, closeVars, authVars, sessionVars, otherVars
<1>17. CASE \E p \in Producers : SendPacketLinks(p)
  BY <1>1, <1>17 DEF SendPacketLinks, closeVars, authVars, sessionVars, otherVars
<1>18. CASE KickPlayer
  BY <1>18, <1>i DEF KickPlayer, WorldIdle, SessionInv, authVars, sessionVars
<1>19. CASE OnClose
  BY <1>19, <1>i DEF OnClose, SessionInv, authVars
<1>20. CASE DeleteSession
  BY <1>20, <1>i DEF DeleteSession, WorldIdle, SessionInv, closeVars, authVars, otherVars
<1>21. Net \in Producers /\ Senders \subseteq Producers
  BY ProducersAssumption DEF Senders
<1> QED BY <1>2, <1>3, <1>4, <1>5, <1>6, <1>7, <1>8, <1>9, <1>10, <1>11, <1>12, <1>13, <1>14, <1>15, <1>16,
           <1>17, <1>18, <1>19, <1>20, <1>21, <1>22
        DEF SocketNext, NetContinues, NetCallback, NetRead, HandleQueue

-----------------------------------------------------------------------------
(* The types, part by part. *)
OutTypeOK ==
  /\ buffer \in Seq(Nodes) /\ writeQueue \in Seq(Seq(Nodes \cup {Initializer}))
  /\ wire \in Seq(Nodes \cup {Initializer}) /\ stalls \in 0 .. MaxStalls

ControlTypeOK ==
  /\ netpc \in {"poll", "drain", "base", "write", "ready", "callbacks", "reject", "handle",
                "using", "logging", "rearm", "onClose", "removed"}
  /\ reading \in {"none", "init", "read"}
  /\ query \in {"none", "ip", "account", "permissions"}
  /\ session \in {"none", "created", "added", "deleted"}
  /\ sending \subseteq {World, MapWorker}
  /\ wpc \in {"idle", "onClose"}

FlagsTypeOK ==
  /\ closed \in BOOLEAN /\ closing \in BOOLEAN /\ isWritingAsync \in BOOLEAN /\ shut \in BOOLEAN
  /\ peerUp \in BOOLEAN /\ answered \in BOOLEAN /\ authed \in BOOLEAN /\ worldSession \in BOOLEAN
  /\ locked \in BOOLEAN

(* Together they are SocketTypeOK. *)
LEMMA SocketTypeParts ==
  SocketTypeOK <=> MPSCTypeOK /\ OutTypeOK /\ ControlTypeOK /\ FlagsTypeOK
BY DEF SocketTypeOK, OutTypeOK, ControlTypeOK, FlagsTypeOK

(* Where the threads and the handshake are. *)
LEMMA StepKeepsControl ==
  ASSUME ControlTypeOK, [SocketNext]_vars
  PROVE  ControlTypeOK'
<1>1. CASE NetContinues
  <2>1. CASE NetDequeue \/ NetBuffers \/ NetDrained \/ NetBaseUpdate \/ HandleQueue
    BY <2>1 DEF ControlTypeOK, NetDequeue, NetBuffers, NetDrained, NetBaseUpdate, HandleQueue, WouldBlock,
       PartialWrite, WriteFails, WriteAll, AfterHandleQueue, authVars, sessionVars, otherVars
  <2>2. CASE NetCallback
    BY <2>2 DEF ControlTypeOK, NetCallback, NothingReady, IpIsAllowed, SendAuthResponseError,
       AccountIsAccepted, LoadSessionPermissionsCallback, authVars, sessionVars, otherVars
  <2>3. CASE DelayedCloseSocket \/ NetOnClose \/ LockSession \/ NoSession \/ UseSession \/ AnswerPing
             \/ AsyncRead \/ SendPacketLinks(Net)
    BY <2>3 DEF ControlTypeOK, DelayedCloseSocket, NetOnClose, LockSession, NoSession, NetCloses,
       UseSession, AnswerPing, AsyncRead, SendPacketLinks, authVars, sessionVars, otherVars
  <2>4. CASE NeedsNoSession \/ LockDuplicateAuth \/ LogDuplicateAuth \/ DuplicateAuthUnlogged
    BY <2>4 DEF ControlTypeOK, NeedsNoSession, LockDuplicateAuth, LogDuplicateAuth, DuplicateAuthUnlogged, NetCloses,
       authVars, sessionVars, otherVars
  <2> QED BY <1>1, <2>1, <2>2, <2>3, <2>4 DEF NetContinues
<1>2. CASE NetRead \/ ReadFails
  BY <1>2 DEF ControlTypeOK, NetRead, ReadFails, ReadError, ReadWhenClosed, ReadInitializer,
     ReadAuthSession, ReadPacket, NetCloses, authVars, sessionVars, otherVars
<1>3. CASE \E p \in Senders : SendPacket(p) \/ SendPacketEnqueues(p) \/ SendPacketLinks(p)
  BY <1>3 DEF ControlTypeOK, SendPacket, SendPacketEnqueues, SendPacketLinks, Senders, authVars,
     sessionVars, otherVars
<1>4. CASE NetUpdate \/ WriteHandlerWrapper \/ DbAnswers \/ PeerGoes
           \/ KickPlayer \/ OnClose \/ DeleteSession \/ Finished \/ UNCHANGED vars
  BY <1>4 DEF ControlTypeOK, NetUpdate, WriteHandlerWrapper, DbAnswers, PeerGoes, KickPlayer, OnClose,
     DeleteSession, Finished, vars, authVars, sessionVars, otherVars
<1> QED BY <1>1, <1>2, <1>3, <1>4 DEF SocketNext

(* The flags are Boolean. *)
LEMMA StepKeepsFlags ==
  ASSUME FlagsTypeOK, [SocketNext]_vars
  PROVE  FlagsTypeOK'
<1>1. CASE NetContinues
  <2>1. CASE NetDequeue \/ NetBuffers \/ NetDrained \/ NetBaseUpdate
    <3>1. CASE NetDequeue
      BY <3>1 DEF FlagsTypeOK, NetDequeue, outVars, closeVars, authVars, sessionVars, otherVars
    <3>2. CASE NetBuffers
      BY <3>2 DEF FlagsTypeOK, NetBuffers, outVars, closeVars, authVars, sessionVars, otherVars
    <3>3. CASE NetDrained
      BY <3>3 DEF FlagsTypeOK, NetDrained, outVars, closeVars, authVars, sessionVars, otherVars
    <3>4. CASE NetBaseUpdate
      BY <3>4 DEF FlagsTypeOK, NetBaseUpdate, outVars, closeVars, authVars, sessionVars, otherVars
    <3> QED BY <2>1, <3>1, <3>2, <3>3, <3>4
  <2>2. CASE WouldBlock \/ PartialWrite
    BY <2>2 DEF FlagsTypeOK, WouldBlock, PartialWrite, closeVars, authVars, sessionVars, otherVars
  <2>3. CASE WriteFails \/ WriteAll
    BY <2>3 DEF FlagsTypeOK, WriteFails, WriteAll, Pop, closeVars, authVars, otherVars
  <2>4. CASE NetCallback
    <3>1. CASE NothingReady
      BY <3>1 DEF FlagsTypeOK, NothingReady, outVars, closeVars, authVars, sessionVars, otherVars
    <3>2. CASE IpIsAllowed
      BY <3>2 DEF FlagsTypeOK, IpIsAllowed, outVars, closeVars, authVars, sessionVars, otherVars
    <3>3. CASE SendAuthResponseError
      BY <3>3 DEF FlagsTypeOK, SendAuthResponseError, outVars, closeVars, authVars, sessionVars, otherVars
    <3>4. CASE AccountIsAccepted
      BY <3>4 DEF FlagsTypeOK, AccountIsAccepted, outVars, closeVars, authVars, sessionVars, otherVars
    <3>5. CASE LoadSessionPermissionsCallback
      BY <3>5 DEF FlagsTypeOK, LoadSessionPermissionsCallback, outVars, closeVars, authVars, sessionVars, otherVars
    <3> QED BY <2>4, <3>1, <3>2, <3>3, <3>4, <3>5 DEF NetCallback
  <2>5. CASE DelayedCloseSocket \/ NetOnClose
    BY <2>5 DEF FlagsTypeOK, DelayedCloseSocket, NetOnClose, outVars, authVars, sessionVars, otherVars
  <2>6. CASE LockSession \/ NoSession \/ UseSession \/ AnswerPing
    BY <2>6 DEF FlagsTypeOK, LockSession, NoSession, NetCloses, UseSession, AnswerPing, outVars,
       closeVars, authVars, otherVars
  <2>7. CASE AsyncRead \/ SendPacketLinks(Net)
    BY <2>7 DEF FlagsTypeOK, AsyncRead, SendPacketLinks, outVars, closeVars, authVars, sessionVars, otherVars
  <2>8. CASE NeedsNoSession \/ LockDuplicateAuth
    BY <2>8 DEF FlagsTypeOK, NeedsNoSession, LockDuplicateAuth, outVars, closeVars, authVars, sessionVars, otherVars
  <2>9. CASE LogDuplicateAuth \/ DuplicateAuthUnlogged
    BY <2>9 DEF FlagsTypeOK, LogDuplicateAuth, DuplicateAuthUnlogged, NetCloses, outVars, closeVars, authVars, otherVars
  <2> QED BY <1>1, <2>1, <2>2, <2>3, <2>4, <2>5, <2>6, <2>7, <2>8, <2>9 DEF NetContinues, HandleQueue
<1>2. CASE NetRead \/ ReadFails
  <2>1. CASE ReadFails
    BY <2>1 DEF FlagsTypeOK, ReadFails, NetCloses, outVars, closeVars, authVars, sessionVars, otherVars
  <2>2. CASE ReadError
    BY <2>2 DEF FlagsTypeOK, ReadError, NetCloses, outVars, closeVars, authVars, sessionVars, otherVars
  <2>3. CASE ReadWhenClosed
    BY <2>3 DEF FlagsTypeOK, ReadWhenClosed, outVars, closeVars, authVars, sessionVars, otherVars
  <2>4. CASE ReadInitializer
    BY <2>4 DEF FlagsTypeOK, ReadInitializer, outVars, closeVars, authVars, sessionVars, otherVars
  <2>5. CASE ReadAuthSession
    BY <2>5 DEF FlagsTypeOK, ReadAuthSession, outVars, closeVars, authVars, sessionVars, otherVars
  <2>6. CASE ReadPacket
    BY <2>6 DEF FlagsTypeOK, ReadPacket, outVars, closeVars, authVars, sessionVars, otherVars
  <2> QED BY <1>2, <2>1, <2>2, <2>3, <2>4, <2>5, <2>6 DEF NetRead
<1>3. CASE \E p \in Senders : SendPacket(p) \/ SendPacketEnqueues(p) \/ SendPacketLinks(p)
  BY <1>3 DEF FlagsTypeOK, SendPacket, SendPacketEnqueues, SendPacketLinks, outVars, closeVars, authVars,
     sessionVars, otherVars
<1>4. CASE NetUpdate \/ WriteHandlerWrapper \/ DbAnswers \/ PeerGoes
           \/ KickPlayer \/ OnClose \/ DeleteSession \/ Finished \/ UNCHANGED vars
  <2>1. CASE NetUpdate
    BY <2>1 DEF FlagsTypeOK, NetUpdate, outVars, closeVars, authVars, sessionVars, otherVars
  <2>2. CASE WriteHandlerWrapper
    BY <2>2 DEF FlagsTypeOK, WriteHandlerWrapper, outVars, closeVars, authVars, sessionVars, otherVars
  <2>3. CASE DbAnswers
    BY <2>3 DEF FlagsTypeOK, DbAnswers, outVars, closeVars, authVars, sessionVars, otherVars
  <2>4. CASE PeerGoes
    BY <2>4 DEF FlagsTypeOK, PeerGoes, outVars, closeVars, authVars, sessionVars, otherVars
  <2>5. CASE KickPlayer
    BY <2>5 DEF FlagsTypeOK, KickPlayer, outVars, closeVars, authVars, sessionVars, otherVars
  <2>6. CASE OnClose
    BY <2>6 DEF FlagsTypeOK, OnClose, outVars, closeVars, authVars, sessionVars, otherVars
  <2>7. CASE DeleteSession
    BY <2>7 DEF FlagsTypeOK, DeleteSession, outVars, closeVars, authVars, sessionVars, otherVars
  <2>8. CASE Finished \/ UNCHANGED vars
    BY <2>8 DEF FlagsTypeOK, Finished, vars, outVars, closeVars, authVars, sessionVars, otherVars
  <2> QED BY <1>4, <2>1, <2>2, <2>3, <2>4, <2>5, <2>6, <2>7, <2>8
<1> QED BY <1>1, <1>2, <1>3, <1>4 DEF SocketNext

(* Buffers are filled and written packet by packet. *)
LEMMA StepKeepsOut ==
  ASSUME OutTypeOK, GotPacket, [SocketNext]_vars
  PROVE  OutTypeOK'
<1> DEFINE P == Nodes \cup {Initializer}
<1>t. /\ buffer \in Seq(Nodes) /\ buffer \in Seq(P) /\ writeQueue \in Seq(Seq(P))
      /\ wire \in Seq(P) /\ stalls \in 0 .. MaxStalls
  BY DEF OutTypeOK
<1>u. ASSUME buffer' \in Seq(Nodes), writeQueue' \in Seq(Seq(P)), wire' \in Seq(P), stalls' \in 0 .. MaxStalls
      PROVE  OutTypeOK'
  BY <1>u DEF OutTypeOK
<1> HIDE DEF P
<1>p. Nodes \subseteq P /\ Initializer \in P
  BY DEF P
<1>1. ASSUME UNCHANGED outVars PROVE OutTypeOK'
  BY <1>1, <1>t, <1>u DEF outVars
<1>2. CASE NetBuffers
  <2>1. deq.node \in Nodes /\ wire' = wire /\ stalls' = stalls
    BY <1>2 DEF NetBuffers, GotPacket
  <2>2. \E full, large \in BOOLEAN :
          /\ writeQueue' = writeQueue \o (IF full THEN <<buffer>> ELSE <<>>)
                                      \o (IF large THEN << <<deq.node>> >> ELSE <<>>)
          /\ buffer' = IF large THEN (IF full THEN <<>> ELSE buffer)
                                ELSE Append(IF full THEN <<>> ELSE buffer, deq.node)
    BY <1>2 DEF NetBuffers
  <2>3. PICK full \in BOOLEAN, large \in BOOLEAN :
          /\ writeQueue' = writeQueue \o (IF full THEN <<buffer>> ELSE <<>>)
                                      \o (IF large THEN << <<deq.node>> >> ELSE <<>>)
          /\ buffer' = IF large THEN (IF full THEN <<>> ELSE buffer)
                                ELSE Append(IF full THEN <<>> ELSE buffer, deq.node)
    BY <2>2
  <2> DEFINE b1 == IF full THEN <<>> ELSE buffer
             w1 == IF full THEN <<buffer>> ELSE <<>>
             w2 == IF large THEN << <<deq.node>> >> ELSE <<>>
  <2>4. b1 \in Seq(Nodes) /\ w1 \in Seq(Seq(P))
    BY <1>t
  <2>5. w2 \in Seq(Seq(P))
    <3>1. <<deq.node>> \in Seq(P)
      BY <2>1, <1>p
    <3> QED BY <3>1
  <2>6. writeQueue' = writeQueue \o w1 \o w2 /\ buffer' = IF large THEN b1 ELSE Append(b1, deq.node)
    BY <2>3
  <2> HIDE DEF b1, w1, w2
  <2>7. writeQueue' \in Seq(Seq(P))
    BY <2>4, <2>5, <2>6, <1>t
  <2>8. buffer' \in Seq(Nodes)
    BY <2>1, <2>4, <2>6
  <2> QED BY <2>1, <2>7, <2>8, <1>t, <1>u
<1>3. CASE NetDrained
  BY <1>3, <1>t, <1>u DEF NetDrained
<1>4. CASE WouldBlock
  BY <1>4, <1>t, <1>u, MaxStallsAssumption DEF WouldBlock
<1>5. ASSUME writeQueue # <<>>
      PROVE  queuedMessage \in Seq(P) /\ Tail(writeQueue) \in Seq(Seq(P))
  BY <1>5, <1>t DEF queuedMessage
<1>6. CASE PartialWrite
  <2>1. PICK n \in 1 .. Len(queuedMessage) - 1 :
          /\ wire' = wire \o SubSeq(queuedMessage, 1, n)
          /\ writeQueue' = <<SubSeq(queuedMessage, n + 1, Len(queuedMessage))>> \o Tail(writeQueue)
    BY <1>6 DEF PartialWrite
  <2>2. queuedMessage \in Seq(P) /\ Tail(writeQueue) \in Seq(Seq(P)) /\ buffer' = buffer /\ stalls' = stalls
    BY <1>5, <1>6 DEF PartialWrite
  <2> DEFINE q == queuedMessage
             a == SubSeq(q, 1, n)
             b == SubSeq(q, n + 1, Len(q))
             r == Tail(writeQueue)
  <2>3. a \in Seq(P) /\ b \in Seq(P)
    <3> HIDE DEF P, q
    <3>1. q \in Seq(P) /\ n \in 1 .. Len(q) - 1
      BY <2>1, <2>2 DEF q
    <3> QED BY ONLY <3>1
  <2>4. wire' = wire \o a /\ writeQueue' = <<b>> \o r /\ r \in Seq(Seq(P))
    BY <2>1, <2>2
  <2> HIDE DEF a, b, r
  <2>5. wire' \in Seq(P) /\ writeQueue' \in Seq(Seq(P))
    BY <2>3, <2>4, <1>t
  <2> QED BY <2>2, <2>5, <1>t, <1>u
<1>7. CASE WriteFails
  BY <1>5, <1>7, <1>t, <1>u DEF WriteFails, Pop
<1>8. CASE WriteAll
  BY <1>5, <1>8, <1>t, <1>u DEF WriteAll, Pop
<1>9. CASE IpIsAllowed
  <2>1. writeQueue' = Append(writeQueue, <<Initializer>>) /\ UNCHANGED <<buffer, wire, stalls>>
    BY <1>9 DEF IpIsAllowed
  <2>2. <<Initializer>> \in Seq(P)
    BY <1>p
  <2> QED BY <2>1, <2>2, <1>t, <1>u
<1>10. CASE WriteHandlerWrapper
  BY <1>10, <1>t, <1>u DEF WriteHandlerWrapper
<1>11. CASE NetDequeue \/ NetBaseUpdate \/ NothingReady \/ SendAuthResponseError \/ AccountIsAccepted
            \/ LoadSessionPermissionsCallback \/ DelayedCloseSocket \/ NetOnClose
  BY <1>1, <1>11 DEF NetDequeue, NetBaseUpdate, NothingReady, SendAuthResponseError, AccountIsAccepted,
     LoadSessionPermissionsCallback, DelayedCloseSocket, NetOnClose
<1>12. CASE LockSession \/ NoSession \/ UseSession \/ AnswerPing \/ AsyncRead \/ SendPacketLinks(Net)
            \/ NetRead \/ ReadFails
            \/ NeedsNoSession \/ LockDuplicateAuth \/ LogDuplicateAuth \/ DuplicateAuthUnlogged
  BY <1>1, <1>12 DEF NeedsNoSession, LockDuplicateAuth, LogDuplicateAuth, DuplicateAuthUnlogged, LockSession, NoSession, NetCloses, UseSession, AnswerPing, AsyncRead,
     SendPacketLinks, NetRead, ReadFails, ReadError, ReadWhenClosed, ReadInitializer,
     ReadAuthSession, ReadPacket
<1>13. CASE \E p \in Senders : SendPacket(p) \/ SendPacketEnqueues(p) \/ SendPacketLinks(p)
  BY <1>1, <1>13 DEF SendPacket, SendPacketEnqueues, SendPacketLinks
<1>14. CASE NetUpdate \/ DbAnswers \/ PeerGoes \/ KickPlayer \/ OnClose \/ DeleteSession \/ Finished
            \/ UNCHANGED vars
  BY <1>1, <1>14 DEF NetUpdate, DbAnswers, PeerGoes, KickPlayer, OnClose, DeleteSession, Finished, vars
<1> QED BY <1>2, <1>3, <1>4, <1>6, <1>7, <1>8, <1>9, <1>10, <1>11, <1>12, <1>13, <1>14
        DEF SocketNext, NetContinues, NetCallback, HandleQueue

-----------------------------------------------------------------------------
(* A socket that has just sent its first query. *)
LEMMA SocketInitIInv ==
  ASSUME SocketInit
  PROVE  SocketIInv
<1>1. QueueIInv
  BY QueueInitIInv DEF SocketInit
<1>2. MPSCTypeOK
  BY <1>1 DEF QueueIInv
<1>3. OutTypeOK /\ ControlTypeOK /\ FlagsTypeOK
  <2>1. 0 \in 0 .. MaxStalls
    BY MaxStallsAssumption
  <2>2. OutTypeOK
    BY <2>1 DEF SocketInit, OutTypeOK
  <2>3. ControlTypeOK
    BY DEF SocketInit, ControlTypeOK
  <2>4. FlagsTypeOK
    BY DEF SocketInit, FlagsTypeOK
  <2> QED BY <2>2, <2>3, <2>4
<1>4. \A n : ~Sent(n)
  BY DEF SocketInit, QueueInit, Sent, Contains
<1>5. GotPacket
  BY DEF SocketInit, QueueInit, Idle, GotPacket
<1>6. HandshakeInv /\ SendersInv /\ SessionInv
  BY <1>4 DEF SocketInit, HandshakeInv, SendersInv, SessionInv
<1> QED BY <1>1, <1>2, <1>3, <1>5, <1>6, SocketTypeParts DEF SocketIInv

(* Every step keeps the invariant. *)
LEMMA SocketStepIInv ==
  ASSUME SocketIInv, [SocketNext]_vars
  PROVE  SocketIInv'
<1>1. HandshakeInv' /\ SendersInv' /\ SessionInv'
  BY StepKeepsHandshake, StepKeepsSenders, StepKeepsSession
<1>2. QueueStep /\ QueueIInv /\ GotPacket
  BY SocketStepIsQueueStep DEF SocketIInv
<1>3. QueueIInv' /\ GotPacket'
  BY <1>2, QueueStepKeepsQueue, QueueStepKeepsGotPacket
<1>4. MPSCTypeOK'
  BY <1>3 DEF QueueIInv
<1>5. OutTypeOK /\ ControlTypeOK /\ FlagsTypeOK
  BY SocketTypeParts DEF SocketIInv
<1>6. OutTypeOK' /\ ControlTypeOK' /\ FlagsTypeOK'
  BY <1>2, <1>5, StepKeepsOut, StepKeepsControl, StepKeepsFlags
<1>7. SocketTypeOK'
  BY <1>4, <1>6 DEF SocketTypeOK, OutTypeOK, ControlTypeOK, FlagsTypeOK
<1> QED BY <1>1, <1>3, <1>7 DEF SocketIInv

(* The invariant holds in every reachable state. *)
LEMMA SocketInvariant ==
  SocketSpec => []SocketIInv
<1>1. SocketInit => SocketIInv
  BY SocketInitIInv
<1>2. SocketIInv /\ [SocketNext]_vars => SocketIInv'
  BY SocketStepIInv
<1> QED BY <1>1, <1>2, PTL DEF SocketSpec

(* Every variable of the queue and of the socket keeps its type: what is     *)
(* buffered, queued and written are packets, whatever the threads do.        *)
THEOREM SocketTypeCorrect == SocketSpec => []SocketTypeOK
<1>1. SocketIInv => SocketTypeOK
  BY DEF SocketIInv
<1> QED BY <1>1, SocketInvariant, PTL

(* WorldSocket uses its session, under _worldSessionLock or in the callback  *)
(* that adds it to the world, only while the world thread has not deleted    *)
(* it, and only the log of a second authentication may find the pointer null *)
(* instead.                                                                  *)
THEOREM SessionStaysAlive == SocketSpec => []SessionIsAliveWhenUsed
<1>1. SocketIInv => SessionIsAliveWhenUsed
  <2> SUFFICES ASSUME SocketIInv PROVE SessionIsAliveWhenUsed
    OBVIOUS
  <2>1. HandshakeInv /\ SessionInv
    BY DEF SocketIInv
  <2>2. netpc = "using" => worldSession /\ session \in {"created", "added"}
    BY <2>1 DEF SessionInv
  <2>3. netpc = "callbacks" /\ query = "permissions" => worldSession /\ session \in {"created", "added"}
    BY <2>1 DEF SessionInv, HandshakeInv
  <2>4. netpc = "logging" /\ worldSession => session \in {"created", "added"}
    BY <2>1 DEF SessionInv
  <2> QED BY <2>2, <2>3, <2>4 DEF SessionIsAliveWhenUsed, UsesSession
<1> QED BY <1>1, SocketInvariant, PTL

(* MPSCQueue is a FIFO for the threads of the socket: whatever they send and *)
(* however the steps of Enqueue and Dequeue interleave, Dequeue returns the  *)
(* packets in the order of the exchanges of _head, each once.                *)
THEOREM QueueRefinesStream == SocketSpec => QueueIsStream
<1>1. SocketInit => Queue!StreamInit
  BY DEF SocketInit, QueueInit, Queue!StreamInit
<1>2. SocketIInv /\ [SocketNext]_vars => [Queue!Send \/ Queue!Deliver]_(Queue!streamVars)
  <2> SUFFICES ASSUME SocketIInv, [SocketNext]_vars
               PROVE  [Queue!Send \/ Queue!Deliver]_(Queue!streamVars)
    OBVIOUS
  <2>1. QueueStep /\ QueueIInv
    BY SocketStepIsQueueStep DEF SocketIInv
  <2> QED BY <2>1, QueueStepIsStreamStep
<1> QED BY <1>1, <1>2, SocketInvariant, PTL DEF SocketSpec, QueueIsStream, Queue!StreamSpec

-----------------------------------------------------------------------------
(* From the queue to the client.  A queue q of buffers holds the elements of *)
(* s behind the a-th up to the b-th: cut[i] is how far s was taken before    *)
(* buffer i.                                                                 *)
Splits(cut, q, s, a, b) ==
  /\ cut \in [1 .. Len(q) + 1 -> 0 .. b]
  /\ cut[1] = a /\ cut[Len(q) + 1] = b
  /\ \A i \in 1 .. Len(q) :
       /\ cut[i + 1] = cut[i] + Len(q[i])
       /\ \A j \in 1 .. Len(q[i]) : q[i][j] = s[cut[i] + j]

Spans(q, s, a, b) == \E cut : Splits(cut, q, s, a, b)

(* x is what follows the a-th element of s. *)
Follows(x, s, a) == \A j \in 1 .. Len(x) : x[j] = s[a + j]

(* An empty queue holds nothing. *)
LEMMA SpansNothing ==
  ASSUME NEW s, NEW a \in Nat
  PROVE  Spans(<<>>, s, a, a)
<1> DEFINE cut == [i \in 1 .. 1 |-> a]
<1>1. Splits(cut, <<>>, s, a, a)
  BY DEF Splits
<1> QED BY <1>1 DEF Spans

(* What is behind a queue can be put at its end. *)
LEMMA SpansAppend ==
  ASSUME NEW S, NEW q \in Seq(Seq(S)), NEW s, NEW a \in Nat, NEW b \in Nat, Spans(q, s, a, b),
         NEW x \in Seq(S), Follows(x, s, b)
  PROVE  Spans(Append(q, x), s, a, b + Len(x))
<1>1. PICK cut : Splits(cut, q, s, a, b)
  BY DEF Spans
<1> DEFINE n == Len(q)
           r == Append(q, x)
           cut2 == [i \in 1 .. n + 2 |-> IF i = n + 2 THEN b + Len(x) ELSE cut[i]]
<1>2. /\ n \in Nat /\ Len(r) = n + 1 /\ Len(x) \in Nat
      /\ \A i \in 1 .. n : r[i] = q[i]
      /\ r[n + 1] = x
  OBVIOUS
<1>3. /\ cut \in [1 .. n + 1 -> 0 .. b] /\ cut[1] = a /\ cut[n + 1] = b
      /\ \A i \in 1 .. n : /\ cut[i + 1] = cut[i] + Len(q[i])
                           /\ \A j \in 1 .. Len(q[i]) : q[i][j] = s[cut[i] + j]
  BY <1>1 DEF Splits
<1> HIDE DEF n, r
<1>4. cut2 \in [1 .. n + 2 -> 0 .. b + Len(x)]
  BY <1>2, <1>3
<1>5. cut2[1] = a /\ cut2[n + 2] = b + Len(x) /\ \A i \in 1 .. n + 1 : cut2[i] = cut[i]
  BY <1>2, <1>3
<1> HIDE DEF cut2
<1>6. ASSUME NEW i \in 1 .. n + 1
      PROVE  /\ cut2[i + 1] = cut2[i] + Len(r[i])
             /\ \A j \in 1 .. Len(r[i]) : r[i][j] = s[cut2[i] + j]
  <2>1. CASE i \in 1 .. n
    <3>1. i + 1 \in 1 .. n + 1
      BY <2>1, <1>2
    <3>2. cut2[i] = cut[i] /\ cut2[i + 1] = cut[i + 1] /\ r[i] = q[i]
      BY <2>1, <3>1, <1>2, <1>5
    <3>3. /\ cut[i + 1] = cut[i] + Len(q[i])
          /\ \A j \in 1 .. Len(q[i]) : q[i][j] = s[cut[i] + j]
      BY <2>1, <1>3
    <3> QED BY <3>2, <3>3
  <2>2. CASE i = n + 1
    <3>1. cut2[i] = b /\ r[i] = x /\ cut2[i + 1] = b + Len(x)
      BY <2>2, <1>2, <1>3, <1>5
    <3> QED BY <3>1 DEF Follows
  <2> QED BY <2>1, <2>2, <1>2
<1>7. Splits(cut2, r, s, a, b + Len(x))
  <2>1. Len(r) + 1 = n + 2
    BY <1>2
  <2> QED BY <2>1, <1>2, <1>4, <1>5, <1>6 DEF Splits
<1> QED BY <1>7 DEF Spans, r

(* The front of a queue is what comes first, and the rest what follows. *)
LEMMA SpansTail ==
  ASSUME NEW S, NEW q \in Seq(Seq(S)), NEW s, NEW a \in Nat, NEW b \in Nat, Spans(q, s, a, b), q # <<>>
  PROVE  /\ Follows(Head(q), s, a)
         /\ a + Len(Head(q)) \in a .. b
         /\ Spans(Tail(q), s, a + Len(Head(q)), b)
<1>1. PICK cut : Splits(cut, q, s, a, b)
  BY DEF Spans
<1> DEFINE n == Len(q) - 1
           h == Head(q)
           r == Tail(q)
           cut2 == [i \in 1 .. n + 1 |-> cut[i + 1]]
<1>2. /\ n \in Nat /\ Len(q) = n + 1 /\ Len(r) = n /\ h = q[1] /\ Len(h) \in Nat
      /\ \A i \in 1 .. n : r[i] = q[i + 1]
  OBVIOUS
<1>3. /\ cut \in [1 .. n + 2 -> 0 .. b] /\ cut[1] = a /\ cut[n + 2] = b
      /\ \A i \in 1 .. n + 1 : /\ cut[i + 1] = cut[i] + Len(q[i])
                               /\ \A j \in 1 .. Len(q[i]) : q[i][j] = s[cut[i] + j]
  <2>1. Len(q) + 1 = n + 2
    BY <1>2
  <2> QED BY <1>1, <1>2, <2>1 DEF Splits
<1> HIDE DEF n, h, r
<1>4. Follows(h, s, a) /\ cut[2] = a + Len(h)
  <2>1. 1 \in 1 .. n + 1
    BY <1>2
  <2>2. cut[1 + 1] = cut[1] + Len(q[1]) /\ \A j \in 1 .. Len(q[1]) : q[1][j] = s[cut[1] + j]
    BY <2>1, <1>3, Zenon
  <2>3. cut[2] = a + Len(h) /\ \A j \in 1 .. Len(h) : h[j] = s[a + j]
    BY <2>2, <1>2, <1>3
  <2> QED BY <2>3 DEF Follows
<1>5. a + Len(h) \in a .. b
  <2>1. 2 \in 1 .. n + 2
    BY <1>2
  <2>2. cut[2] \in 0 .. b
    BY <2>1, <1>3
  <2> QED BY <2>2, <1>2, <1>4
<1>6. cut2 \in [1 .. n + 1 -> 0 .. b] /\ \A i \in 1 .. n + 1 : cut2[i] = cut[i + 1]
  BY <1>2, <1>3
<1> HIDE DEF cut2
<1>7. cut2[1] = a + Len(h) /\ cut2[n + 1] = b
  BY <1>2, <1>3, <1>4, <1>6
<1>8. ASSUME NEW i \in 1 .. n
      PROVE  /\ cut2[i + 1] = cut2[i] + Len(r[i])
             /\ \A j \in 1 .. Len(r[i]) : r[i][j] = s[cut2[i] + j]
  <2>1. i \in 1 .. n + 1 /\ i + 1 \in 1 .. n + 1
    BY <1>2
  <2>2. cut2[i] = cut[i + 1] /\ cut2[i + 1] = cut[(i + 1) + 1] /\ r[i] = q[i + 1]
    BY <2>1, <1>2, <1>6
  <2>3. /\ cut[(i + 1) + 1] = cut[i + 1] + Len(q[i + 1])
        /\ \A j \in 1 .. Len(q[i + 1]) : q[i + 1][j] = s[cut[i + 1] + j]
    BY <2>1, <1>3
  <2> QED BY <2>2, <2>3
<1>9. Splits(cut2, r, s, a + Len(h), b)
  BY <1>2, <1>6, <1>7, <1>8 DEF Splits
<1> QED BY <1>4, <1>5, <1>9 DEF Spans, h, r

(* What precedes a queue can be put before its front. *)
LEMMA SpansPrepend ==
  ASSUME NEW S, NEW q \in Seq(Seq(S)), NEW s, NEW a \in Nat, NEW b \in Nat, NEW x \in Seq(S),
         Follows(x, s, a), a + Len(x) <= b, Spans(q, s, a + Len(x), b)
  PROVE  Spans(<<x>> \o q, s, a, b)
<1>1. PICK cut : Splits(cut, q, s, a + Len(x), b)
  BY DEF Spans
<1> DEFINE n == Len(q)
           r == <<x>> \o q
           cut2 == [i \in 1 .. n + 2 |-> IF i = 1 THEN a ELSE cut[i - 1]]
<1>2. /\ n \in Nat /\ Len(r) = n + 1 /\ Len(x) \in Nat /\ r[1] = x
      /\ \A i \in 2 .. n + 1 : r[i] = q[i - 1]
  OBVIOUS
<1>3. /\ cut \in [1 .. n + 1 -> 0 .. b] /\ cut[1] = a + Len(x) /\ cut[n + 1] = b
      /\ \A i \in 1 .. n : /\ cut[i + 1] = cut[i] + Len(q[i])
                           /\ \A j \in 1 .. Len(q[i]) : q[i][j] = s[cut[i] + j]
  BY <1>1 DEF Splits
<1> HIDE DEF n, r
<1>4. /\ cut2 \in [1 .. n + 2 -> 0 .. b] /\ cut2[1] = a
      /\ \A i \in 2 .. n + 2 : cut2[i] = cut[i - 1]
  <2>1. \A i \in 2 .. n + 2 : i - 1 \in 1 .. n + 1
    BY <1>2
  <2> QED BY <2>1, <1>2, <1>3
<1> HIDE DEF cut2
<1>5. cut2[n + 2] = b
  BY <1>2, <1>3, <1>4
<1>6. ASSUME NEW i \in 1 .. n + 1
      PROVE  /\ cut2[i + 1] = cut2[i] + Len(r[i])
             /\ \A j \in 1 .. Len(r[i]) : r[i][j] = s[cut2[i] + j]
  <2>1. CASE i = 1
    BY <2>1, <1>2, <1>3, <1>4 DEF Follows
  <2>2. CASE i # 1
    <3>1. i - 1 \in 1 .. n /\ i \in 2 .. n + 1 /\ i \in 2 .. n + 2 /\ i + 1 \in 2 .. n + 2 /\ (i - 1) + 1 = i
      BY <2>2, <1>2
    <3>2. cut2[i] = cut[i - 1] /\ cut2[i + 1] = cut[i] /\ r[i] = q[i - 1]
      BY <3>1, <1>2, <1>4
    <3>3. /\ cut[i] = cut[i - 1] + Len(q[i - 1])
          /\ \A j \in 1 .. Len(q[i - 1]) : q[i - 1][j] = s[cut[i - 1] + j]
      BY <3>1, <1>3
    <3> QED BY <3>2, <3>3
  <2> QED BY <2>1, <2>2
<1>7. Splits(cut2, r, s, a, b)
  <2>1. Len(r) + 1 = n + 2
    BY <1>2
  <2> QED BY <2>1, <1>2, <1>4, <1>5, <1>6 DEF Splits
<1> QED BY <1>7 DEF Spans, r

(* Only the first b elements matter. *)
LEMMA SpansSame ==
  ASSUME NEW S, NEW q \in Seq(Seq(S)), NEW s, NEW a \in Nat, NEW b \in Nat, Spans(q, s, a, b),
         NEW s2, \A i \in 1 .. b : s2[i] = s[i]
  PROVE  Spans(q, s2, a, b)
<1>1. PICK cut : Splits(cut, q, s, a, b)
  BY DEF Spans
<1> DEFINE n == Len(q)
<1>2. n \in Nat /\ \A i \in 1 .. n : q[i] \in Seq(S) /\ Len(q[i]) \in Nat
  OBVIOUS
<1>3. /\ cut \in [1 .. n + 1 -> 0 .. b] /\ cut[1] = a /\ cut[n + 1] = b
      /\ \A i \in 1 .. n : /\ cut[i + 1] = cut[i] + Len(q[i])
                           /\ \A j \in 1 .. Len(q[i]) : q[i][j] = s[cut[i] + j]
  BY <1>1 DEF Splits
<1> HIDE DEF n
<1>4. ASSUME NEW i \in 1 .. n, NEW j \in 1 .. Len(q[i]) PROVE q[i][j] = s2[cut[i] + j]
  <2>1. i \in 1 .. n + 1 /\ i + 1 \in 1 .. n + 1
    BY <1>2
  <2>2. cut[i] \in 0 .. b /\ cut[i + 1] \in 0 .. b /\ cut[i + 1] = cut[i] + Len(q[i])
    BY <2>1, <1>3
  <2>3. cut[i] + j \in 1 .. b
    <3>1. \A c, m \in Nat : \A k \in 1 .. m : c + m <= b => c + k \in 1 .. b
      OBVIOUS
    <3>2. cut[i] \in Nat /\ Len(q[i]) \in Nat /\ cut[i] + Len(q[i]) <= b
      BY <2>2, <1>2
    <3> QED BY ONLY <3>1, <3>2, j \in 1 .. Len(q[i])
  <2> QED BY <2>3, <1>3
<1>5. Splits(cut, q, s2, a, b)
  BY <1>3, <1>4 DEF Splits, n
<1> QED BY <1>5 DEF Spans

(* What is behind the a-th element of s up to the t-th is in the queue q of  *)
(* buffers and in the buffer x behind it.                                    *)
OnItsWay(q, x, s, a, t) ==
  \E b \in Nat : Spans(q, s, a, b) /\ b + Len(x) = t /\ Follows(x, s, b)

(* Only the first t elements matter. *)
LEMMA WaySame ==
  ASSUME NEW S, NEW q \in Seq(Seq(S)), NEW x \in Seq(S), NEW s, NEW a \in Nat, NEW t \in Nat,
         OnItsWay(q, x, s, a, t), NEW s2, \A i \in 1 .. t : s2[i] = s[i]
  PROVE  OnItsWay(q, x, s2, a, t)
<1>1. PICK b \in Nat : Spans(q, s, a, b) /\ b + Len(x) = t /\ Follows(x, s, b)
  BY DEF OnItsWay
<1>2. Len(x) \in Nat /\ \A i \in 1 .. b : s2[i] = s[i]
  BY <1>1
<1>3. Spans(q, s2, a, b)
  BY <1>1, <1>2, SpansSame
<1>4. Follows(x, s2, b)
  <2> SUFFICES ASSUME NEW j \in 1 .. Len(x) PROVE x[j] = s2[b + j]
    BY DEF Follows
  <2>1. b + j \in 1 .. t
    BY <1>1, <1>2
  <2> QED BY <2>1, <1>1 DEF Follows
<1> QED BY <1>1, <1>3, <1>4 DEF OnItsWay

(* The buffer is queued. *)
LEMMA WayFlushes ==
  ASSUME NEW S, NEW q \in Seq(Seq(S)), NEW x \in Seq(S), NEW s, NEW a \in Nat, NEW t \in Nat,
         OnItsWay(q, x, s, a, t)
  PROVE  OnItsWay(Append(q, x), <<>>, s, a, t)
<1>1. PICK b \in Nat : Spans(q, s, a, b) /\ b + Len(x) = t /\ Follows(x, s, b)
  BY DEF OnItsWay
<1>2. Spans(Append(q, x), s, a, t)
  BY <1>1, SpansAppend
<1>3. t + Len(<<>>) = t /\ Follows(<<>>, s, t)
  BY DEF Follows
<1> QED BY <1>2, <1>3 DEF OnItsWay

(* The next element is put into the buffer. *)
LEMMA WayBuffers ==
  ASSUME NEW S, NEW q \in Seq(Seq(S)), NEW x \in Seq(S), NEW s, NEW a \in Nat, NEW t \in Nat,
         OnItsWay(q, x, s, a, t), NEW n \in S, n = s[t + 1]
  PROVE  OnItsWay(q, Append(x, n), s, a, t + 1)
<1>1. PICK b \in Nat : Spans(q, s, a, b) /\ b + Len(x) = t /\ Follows(x, s, b)
  BY DEF OnItsWay
<1> DEFINE y == Append(x, n)
<1>2. /\ Len(x) \in Nat /\ Len(y) = Len(x) + 1 /\ y[Len(x) + 1] = n
      /\ \A j \in 1 .. Len(x) : y[j] = x[j]
  OBVIOUS
<1> HIDE DEF y
<1>3. b + (Len(x) + 1) = t + 1 /\ b + Len(y) = t + 1
  <2>1. b + Len(x) = t /\ Len(x) \in Nat
    BY <1>1, <1>2
  <2>2. b + (Len(x) + 1) = t + 1
    BY ONLY <2>1
  <2>3. Len(y) = Len(x) + 1
    BY <1>2
  <2> QED BY ONLY <2>2, <2>3
<1>4. Follows(y, s, b)
  <2> SUFFICES ASSUME NEW j \in 1 .. Len(y) PROVE y[j] = s[b + j]
    BY DEF Follows
  <2>1. CASE j = Len(x) + 1
    <3>1. s[b + j] = s[b + (Len(x) + 1)] /\ y[j] = y[Len(x) + 1]
      BY <2>1
    <3> QED BY <3>1, <1>2, <1>3
  <2>2. CASE j \in 1 .. Len(x)
    BY <2>2, <1>1, <1>2 DEF Follows
  <2> QED BY <2>1, <2>2, <1>2
<1> QED BY <1>1, <1>3, <1>4 DEF OnItsWay, y

(* A part of the front of the queue leaves: what is left of it is the new    *)
(* front.                                                                    *)
LEMMA WaySplits ==
  ASSUME NEW S, NEW q \in Seq(Seq(S)), NEW x \in Seq(S), NEW s, NEW a \in Nat, NEW t \in Nat,
         OnItsWay(q, x, s, a, t), q # <<>>, NEW n \in 0 .. Len(Head(q))
  PROVE  /\ Follows(Head(q), s, a) /\ a + Len(Head(q)) <= t
         /\ OnItsWay(<<SubSeq(Head(q), n + 1, Len(Head(q)))>> \o Tail(q), x, s, a + n, t)
         /\ OnItsWay(Tail(q), x, s, a + Len(Head(q)), t)
<1>1. PICK b \in Nat : Spans(q, s, a, b) /\ b + Len(x) = t /\ Follows(x, s, b)
  BY DEF OnItsWay
<1> DEFINE h == Head(q)
           r == Tail(q)
           y == SubSeq(h, n + 1, Len(h))
<1>2. h \in Seq(S) /\ r \in Seq(Seq(S)) /\ n \in 0 .. Len(h) /\ Len(h) \in Nat /\ n \in Nat /\ Len(x) \in Nat
  OBVIOUS
<1>3. Follows(h, s, a) /\ a + Len(h) \in a .. b /\ Spans(r, s, a + Len(h), b)
  BY <1>1, SpansTail
<1> HIDE DEF h, r
<1>4. y \in Seq(S) /\ Len(y) = Len(h) - n /\ \A j \in 1 .. Len(y) : y[j] = h[n + j]
  <2>1. \A i \in n + 1 .. Len(h) : h[i] \in S
    BY ONLY <1>2
  <2>2. n + 1 \in Int /\ Len(h) \in Int
    BY ONLY <1>2
  <2>3. /\ y \in Seq(S)
        /\ Len(y) = IF n + 1 <= Len(h) THEN Len(h) - (n + 1) + 1 ELSE 0
        /\ \A i \in 1 .. Len(h) - (n + 1) + 1 : y[i] = h[n + 1 + i - 1]
    BY ONLY <2>1, <2>2, SubSeqProperties DEF y
  <2> HIDE DEF y
  <2>4. Len(y) = Len(h) - n
    BY ONLY <2>3, <1>2
  <2>5. ASSUME NEW j \in 1 .. Len(y) PROVE y[j] = h[n + j]
    <3>1. j \in 1 .. Len(h) - (n + 1) + 1 /\ n + 1 + j - 1 = n + j
      BY ONLY <2>4, <2>5, <1>2
    <3> QED BY <3>1, <2>3
  <2> QED BY <2>3, <2>4, <2>5
<1> HIDE DEF y
<1>5. Follows(y, s, a + n)
  <2> SUFFICES ASSUME NEW j \in 1 .. Len(y) PROVE y[j] = s[(a + n) + j]
    BY DEF Follows
  <2>1. n + j \in 1 .. Len(h) /\ a + (n + j) = (a + n) + j
    <3>1. \A m \in Nat : \A k \in 1 .. m - n : n + k \in 1 .. m /\ a + (n + k) = (a + n) + k
      BY <1>2
    <3>2. j \in 1 .. Len(h) - n
      BY <1>4
    <3> QED BY ONLY <3>1, <3>2, <1>2
  <2> QED BY <2>1, <1>3, <1>4 DEF Follows
<1>6. (a + n) + Len(y) = a + Len(h) /\ (a + n) + Len(y) <= b /\ a + n \in Nat
  <2>1. \A m \in Nat : (a + n) + (m - n) = a + m
    BY <1>2
  <2>2. (a + n) + Len(y) = a + Len(h)
    BY <2>1, <1>2, <1>4
  <2>3. a + Len(h) <= b /\ a + n \in Nat
    BY <1>2, <1>3
  <2> QED BY <2>2, <2>3
<1>7. Spans(<<y>> \o r, s, a + n, b)
  <2>1. Spans(r, s, (a + n) + Len(y), b)
    BY <1>3, <1>6
  <2> QED BY <2>1, <1>2, <1>4, <1>5, <1>6, SpansPrepend
<1>8. a + Len(h) <= t
  BY <1>1, <1>2, <1>3
<1> QED BY <1>1, <1>3, <1>7, <1>8 DEF OnItsWay, h, r, y

(* What is on the wire grows by what follows. *)
LEMMA FollowsExtend ==
  ASSUME NEW S, NEW x \in Seq(S), NEW y \in Seq(S), NEW s, Follows(x, s, 0), Follows(y, s, Len(x))
  PROVE  Follows(x \o y, s, 0) /\ Len(x \o y) = Len(x) + Len(y)
<1> DEFINE z == x \o y
<1>1. /\ Len(x) \in Nat /\ Len(y) \in Nat /\ Len(z) = Len(x) + Len(y)
      /\ \A j \in 1 .. Len(z) : z[j] = IF j <= Len(x) THEN x[j] ELSE y[j - Len(x)]
  OBVIOUS
<1> HIDE DEF z
<1>2. ASSUME NEW j \in 1 .. Len(z) PROVE z[j] = s[0 + j]
  <2>1. CASE j \in 1 .. Len(x)
    BY <2>1, <1>1 DEF Follows
  <2>2. CASE j - Len(x) \in 1 .. Len(y)
    <3>1. Len(x) + (j - Len(x)) = 0 + j /\ ~(j <= Len(x))
      BY <2>2, <1>1
    <3> QED BY <2>2, <3>1, <1>1 DEF Follows
  <2> QED BY <2>1, <2>2, <1>1
<1> QED BY <1>1, <1>2 DEF Follows, z

(* The beginning of what follows follows too. *)
LEMMA FollowsBegin ==
  ASSUME NEW S, NEW x \in Seq(S), NEW n \in 0 .. Len(x), NEW s, NEW a \in Nat, Follows(x, s, a)
  PROVE  Follows(SubSeq(x, 1, n), s, a) /\ Len(SubSeq(x, 1, n)) = n /\ SubSeq(x, 1, n) \in Seq(S)
<1>1. /\ Len(SubSeq(x, 1, n)) = n /\ SubSeq(x, 1, n) \in Seq(S)
      /\ \A j \in 1 .. n : SubSeq(x, 1, n)[j] = x[j] /\ j \in 1 .. Len(x)
  OBVIOUS
<1> QED BY <1>1 DEF Follows

-----------------------------------------------------------------------------
(* The connection as one line: ServerConnectionInitialize, once it was sent  *)
(* (g = 1), and behind it the packets in the order of the exchanges.         *)
Line(g, e) == [i \in 1 .. g + Len(e) |-> IF i <= g THEN Initializer ELSE e[i - g]]

(* How many packets Update has taken out of Dequeue into its buffers. *)
Handed == Len(dequeued) - (IF deq.at = "got" THEN 1 ELSE 0)

Arrives(g, e, w) == Len(w) <= g + Len(e) /\ Follows(w, Line(g, e), 0)

(* The wire is the beginning of the line, and while the connection is up     *)
(* _writeQueue and the buffer behind it are what follows, to the last packet *)
(* that Update has buffered.                                                 *)
Flow(g) ==
  /\ Arrives(g, enqueued, wire)
  /\ peerUp /\ ~shut => OnItsWay(writeQueue, buffer, Line(g, enqueued), Len(wire), g + Handed)

FlowInv == \E g \in {0, 1} : Flow(g)

(* What Dequeue returned last is in the consumer's hands. *)
GotInv == deq.at = "got" => Len(dequeued) > 0 /\ deq.node = dequeued[Len(dequeued)]

(* Nothing is sent before the address of the client is checked. *)
QuietInv ==
  query = "ip" => /\ enqueued = <<>> /\ sending = {}
                  /\ wire = <<>> /\ writeQueue = <<>> /\ buffer = <<>>

(* Only a closed socket is shut down, and a socket that is refused is open   *)
(* until DelayedCloseSocket.                                                 *)
ShutInv ==
  /\ shut => closed
  /\ wpc = "onClose" => closed
  /\ netpc = "reject" => ~closed

ConnectionIInv == SocketIInv /\ GotInv /\ QuietInv /\ ShutInv /\ FlowInv

(* A packet at the end of the line changes nothing before it. *)
LEMMA LineExtends ==
  ASSUME NEW g \in {0, 1}, NEW e \in Seq(Nodes), NEW n \in Nodes
  PROVE  \A i \in 1 .. g + Len(e) : Line(g, Append(e, n))[i] = Line(g, e)[i]
<1> DEFINE f == Append(e, n)
<1>1. Len(e) \in Nat /\ Len(f) = Len(e) + 1 /\ \A i \in 1 .. Len(e) : f[i] = e[i]
  OBVIOUS
<1> HIDE DEF f
<1>2. ASSUME NEW i \in 1 .. g + Len(e) PROVE Line(g, f)[i] = Line(g, e)[i]
  <2>1. i \in 1 .. g + Len(f)
    BY <1>1
  <2>2. CASE i <= g
    BY <2>1, <2>2 DEF Line
  <2>3. CASE ~(i <= g)
    <3>1. i - g \in 1 .. Len(e)
      BY <2>3, <1>1
    <3> QED BY <2>1, <2>3, <3>1, <1>1 DEF Line
  <2> QED BY <2>2, <2>3
<1> QED BY <1>2 DEF f

(* The packets on the line. *)
LEMMA LineHolds ==
  ASSUME NEW g \in {0, 1}, NEW e \in Seq(Nodes), NEW i \in 1 .. Len(e)
  PROVE  Line(g, e)[g + i] = e[i]
<1>1. Len(e) \in Nat /\ g + i \in 1 .. g + Len(e) /\ ~(g + i <= g) /\ (g + i) - g = i
  OBVIOUS
<1> QED BY <1>1 DEF Line

(* What the steps rely on. *)
LEMMA FlowFacts ==
  ASSUME SocketIInv, GotInv
  PROVE  /\ enqueued \in Seq(Nodes) /\ Len(enqueued) \in Nat /\ dequeued \in Seq(Nodes)
         /\ Len(dequeued) \in 0 .. Len(enqueued)
         /\ \A i \in 1 .. Len(dequeued) : dequeued[i] = enqueued[i]
         /\ Handed \in 0 .. Len(enqueued)
         /\ buffer \in Seq(Nodes \cup {Initializer})
         /\ writeQueue \in Seq(Seq(Nodes \cup {Initializer}))
         /\ wire \in Seq(Nodes \cup {Initializer}) /\ Len(wire) \in Nat
<1>1. /\ enqueued \in Seq(Nodes) /\ Len(enqueued) \in Nat /\ dequeued \in Seq(Nodes)
      /\ Len(dequeued) \in 0 .. Len(enqueued)
      /\ \A i \in 1 .. Len(dequeued) : dequeued[i] = enqueued[i]
  BY QueueFacts DEF SocketIInv, DequeuedFirst
<1>2. Handed \in 0 .. Len(enqueued)
  BY <1>1 DEF Handed, GotInv
<1>3. /\ buffer \in Seq(Nodes) /\ writeQueue \in Seq(Seq(Nodes \cup {Initializer}))
      /\ wire \in Seq(Nodes \cup {Initializer})
  BY DEF SocketIInv, SocketTypeOK
<1>4. buffer \in Seq(Nodes \cup {Initializer}) /\ Len(wire) \in Nat
  BY <1>3
<1> QED BY <1>1, <1>2, <1>3, <1>4

(* Nothing leaves, and Update buffers nothing. *)
LEMMA FlowStays ==
  ASSUME SocketIInv, GotInv, NEW g \in {0, 1}, Flow(g),
         UNCHANGED <<writeQueue, buffer, wire>>, Handed' = Handed,
         enqueued' = enqueued \/ \E n \in Nodes : enqueued' = Append(enqueued, n),
         peerUp' /\ ~shut' => peerUp /\ ~shut
  PROVE  Flow(g)'
<1> DEFINE P == Nodes \cup {Initializer}
           s == Line(g, enqueued)
           s2 == Line(g, enqueued')
           t == g + Handed
<1>1. /\ enqueued \in Seq(Nodes) /\ Len(enqueued) \in Nat /\ Handed \in 0 .. Len(enqueued)
      /\ buffer \in Seq(P) /\ writeQueue \in Seq(Seq(P)) /\ wire \in Seq(P) /\ Len(wire) \in Nat
  BY FlowFacts
<1> HIDE DEF P
<1>2. /\ Len(enqueued') \in Nat /\ Len(enqueued) <= Len(enqueued')
      /\ \A i \in 1 .. g + Len(enqueued) : s2[i] = s[i]
  <2>1. CASE enqueued' = enqueued
    BY <2>1, <1>1
  <2>2. ASSUME NEW n \in Nodes, enqueued' = Append(enqueued, n)
        PROVE  /\ Len(enqueued') \in Nat /\ Len(enqueued) <= Len(enqueued')
               /\ \A i \in 1 .. g + Len(enqueued) : s2[i] = s[i]
    <3>1. \A i \in 1 .. g + Len(enqueued) : s2[i] = s[i]
      BY <2>2, <1>1, LineExtends
    <3>2. Len(enqueued') = Len(enqueued) + 1
      BY <2>2, <1>1
    <3> QED BY <3>1, <3>2, <1>1
  <2> QED BY <2>1, <2>2
<1>3. Arrives(g, enqueued, wire)
  BY DEF Flow
<1> HIDE DEF s, s2
<1>4. Arrives(g, enqueued', wire)
  <2>1. Len(wire) <= g + Len(enqueued) /\ \A j \in 1 .. Len(wire) : wire[j] = s[0 + j]
    BY <1>3 DEF Arrives, Follows, s
  <2>2. Len(wire) <= g + Len(enqueued')
    BY <2>1, <1>1, <1>2
  <2>3. ASSUME NEW j \in 1 .. Len(wire) PROVE wire[j] = s2[0 + j]
    <3>1. 0 + j \in 1 .. g + Len(enqueued)
      BY <2>1, <1>1
    <3> QED BY <3>1, <2>1, <1>2
  <2> QED BY <2>2, <2>3 DEF Arrives, Follows, s2
<1>5. ASSUME peerUp /\ ~shut PROVE OnItsWay(writeQueue, buffer, s2, Len(wire), t)
  <2>1. OnItsWay(writeQueue, buffer, s, Len(wire), t)
    BY <1>5 DEF Flow, s
  <2>2. t \in Nat /\ \A i \in 1 .. t : i \in 1 .. g + Len(enqueued)
    BY <1>1
  <2>3. \A i \in 1 .. t : s2[i] = s[i]
    BY <2>2, <1>2
  <2> HIDE DEF t
  <2> QED BY <2>1, <2>2, <2>3, <1>1, WaySame
<1> QED BY <1>4, <1>5 DEF Flow, s2

(* A packet that Update gets from Dequeue goes to the end of what is         *)
(* buffered: behind the buffer, behind a full buffer that is queued, or into *)
(* a buffer of its own behind that.                                          *)
LEMMA FlowBuffers ==
  ASSUME SocketIInv, GotInv, NEW g \in {0, 1}, Flow(g), NetBuffers
  PROVE  Flow(g)'
<1> DEFINE P == Nodes \cup {Initializer}
           s == Line(g, enqueued)
           n == deq.node
           t == g + Handed
<1>1. /\ enqueued \in Seq(Nodes) /\ Len(enqueued) \in Nat /\ dequeued \in Seq(Nodes)
      /\ Len(dequeued) \in 0 .. Len(enqueued)
      /\ \A i \in 1 .. Len(dequeued) : dequeued[i] = enqueued[i]
      /\ Handed \in 0 .. Len(enqueued)
      /\ buffer \in Seq(P) /\ writeQueue \in Seq(Seq(P)) /\ wire \in Seq(P) /\ Len(wire) \in Nat
  BY FlowFacts
<1>2. /\ enqueued' = enqueued /\ dequeued' = dequeued /\ wire' = wire
      /\ peerUp' = peerUp /\ shut' = shut /\ deq.at = "got" /\ deq'.at = "idle"
  BY DEF NetBuffers, closeVars, otherVars, Idle
<1>3. Len(dequeued) \in 1 .. Len(enqueued) /\ n = enqueued[Len(dequeued)] /\ n \in Nodes
  <2>1. Len(dequeued) > 0 /\ n = dequeued[Len(dequeued)]
    BY <1>2 DEF GotInv
  <2>2. Len(dequeued) \in 1 .. Len(enqueued) /\ Len(dequeued) \in 1 .. Len(dequeued)
    BY <2>1, <1>1
  <2>3. n = enqueued[Len(dequeued)]
    BY <2>1, <2>2, <1>1
  <2> QED BY <2>2, <2>3, <1>1
<1>4. t \in Nat /\ t + 1 = g + Len(dequeued) /\ g + Handed' = t + 1
  <2>1. Handed = Len(dequeued) - 1 /\ Handed' = Len(dequeued) - 0
    BY <1>2 DEF Handed
  <2>2. Len(dequeued) \in Nat /\ Len(dequeued) # 0
    BY <1>1, <1>3
  <2>3. \A m \in Nat \ {0} : g + (m - 1) \in Nat /\ (g + (m - 1)) + 1 = g + m /\ m - 0 = m
    OBVIOUS
  <2> QED BY <2>1, <2>2, <2>3
<1>5. n = s[t + 1]
  BY <1>1, <1>3, <1>4, LineHolds
<1>6. n \in P /\ <<>> \in Seq(P) /\ Append(<<>>, n) = <<n>> /\ <<n>> \in Seq(P)
  BY <1>3
<1>7. \E full, large \in BOOLEAN :
        /\ large => full
        /\ writeQueue' = writeQueue \o (IF full THEN <<buffer>> ELSE <<>>)
                                    \o (IF large THEN << <<n>> >> ELSE <<>>)
        /\ buffer' = IF large THEN (IF full THEN <<>> ELSE buffer)
                              ELSE Append(IF full THEN <<>> ELSE buffer, n)
  BY DEF NetBuffers
<1> HIDE DEF P, s, n, t
<1>8. ASSUME OnItsWay(writeQueue, buffer, s, Len(wire), t)
      PROVE  OnItsWay(writeQueue', buffer', s, Len(wire), t + 1)
  <2> DEFINE q == Append(writeQueue, buffer)
  <2>1. q \in Seq(Seq(P)) /\ OnItsWay(q, <<>>, s, Len(wire), t)
    BY <1>1, <1>4, <1>8, WayFlushes
  <2>2. OnItsWay(writeQueue, Append(buffer, n), s, Len(wire), t + 1)
    BY <1>1, <1>4, <1>5, <1>6, <1>8, WayBuffers
  <2> HIDE DEF q
  <2>3. OnItsWay(q, <<n>>, s, Len(wire), t + 1)
    <3>1. OnItsWay(q, Append(<<>>, n), s, Len(wire), t + 1)
      BY <2>1, <1>1, <1>4, <1>5, <1>6, WayBuffers
    <3> QED BY <3>1, <1>6
  <2>4. OnItsWay(Append(q, <<n>>), <<>>, s, Len(wire), t + 1)
    <3>1. t + 1 \in Nat
      BY <1>4
    <3> QED BY <3>1, <2>1, <2>3, <1>1, <1>6, WayFlushes
  <2>5. PICK full \in BOOLEAN, large \in BOOLEAN :
        /\ large => full
        /\ writeQueue' = writeQueue \o (IF full THEN <<buffer>> ELSE <<>>)
                                    \o (IF large THEN << <<n>> >> ELSE <<>>)
        /\ buffer' = IF large THEN (IF full THEN <<>> ELSE buffer)
                              ELSE Append(IF full THEN <<>> ELSE buffer, n)
    BY <1>7
  <2>6. CASE full /\ large
    <3>1. buffer' = <<>> /\ writeQueue' = (writeQueue \o <<buffer>>) \o << <<n>> >>
      BY <2>5, <2>6
    <3>2. writeQueue \o <<buffer>> = q
      BY <1>1 DEF q
    <3>3. q \o << <<n>> >> = Append(q, <<n>>)
      BY <2>1, <1>6
    <3> QED BY <3>1, <3>2, <3>3, <2>4
  <2>7. CASE full /\ ~large
    <3>1. buffer' = Append(<<>>, n) /\ writeQueue' = (writeQueue \o <<buffer>>) \o <<>>
      BY <2>5, <2>7
    <3>2. writeQueue \o <<buffer>> = q
      BY <1>1 DEF q
    <3>3. q \o <<>> = q
      BY <2>1
    <3> QED BY <3>1, <3>2, <3>3, <2>3, <1>6
  <2>8. CASE ~full /\ ~large
    <3>1. buffer' = Append(buffer, n) /\ writeQueue' = (writeQueue \o <<>>) \o <<>>
      BY <2>5, <2>8
    <3>2. writeQueue \o <<>> = writeQueue
      BY <1>1
    <3> QED BY <3>1, <3>2, <2>2
  <2> QED BY <2>5, <2>6, <2>7, <2>8
<1>9. Arrives(g, enqueued, wire) /\ (peerUp /\ ~shut => OnItsWay(writeQueue, buffer, s, Len(wire), t))
  BY DEF Flow, s, t
<1> QED BY <1>2, <1>4, <1>8, <1>9 DEF Flow, s

(* At the end of the draining what is left in the buffer is queued. *)
LEMMA FlowDrained ==
  ASSUME SocketIInv, GotInv, NEW g \in {0, 1}, Flow(g), NetDrained
  PROVE  Flow(g)'
<1> DEFINE P == Nodes \cup {Initializer}
           s == Line(g, enqueued)
           t == g + Handed
<1>1. /\ Handed \in 0 .. Len(enqueued) /\ Len(enqueued) \in Nat
      /\ buffer \in Seq(P) /\ writeQueue \in Seq(Seq(P)) /\ wire \in Seq(P) /\ Len(wire) \in Nat
  BY FlowFacts
<1>2. /\ enqueued' = enqueued /\ wire' = wire /\ peerUp' = peerUp /\ shut' = shut /\ Handed' = Handed
      /\ buffer' = <<>>
      /\ writeQueue' = IF buffer = <<>> THEN writeQueue ELSE Append(writeQueue, buffer)
  BY DEF NetDrained, closeVars, otherVars, Idle, Handed
<1>3. t \in Nat
  BY <1>1
<1> HIDE DEF P, s, t
<1>4. ASSUME OnItsWay(writeQueue, buffer, s, Len(wire), t)
      PROVE  OnItsWay(writeQueue', buffer', s, Len(wire), t)
  <2>1. CASE buffer = <<>>
    BY <2>1, <1>2, <1>4
  <2>2. CASE buffer # <<>>
    <3>1. OnItsWay(Append(writeQueue, buffer), <<>>, s, Len(wire), t)
      BY <1>1, <1>3, <1>4, WayFlushes
    <3> QED BY <2>2, <3>1, <1>2
  <2> QED BY <2>1, <2>2
<1>5. Arrives(g, enqueued, wire) /\ (peerUp /\ ~shut => OnItsWay(writeQueue, buffer, s, Len(wire), t))
  BY DEF Flow, s, t
<1>6. s = Line(g, enqueued') /\ t = g + Handed'
  BY <1>2 DEF s, t
<1> HIDE DEF OnItsWay
<1> QED BY <1>2, <1>4, <1>5, <1>6 DEF Flow

(* A write takes the front of the queue, or the beginning of it, to the end  *)
(* of the wire.                                                              *)
LEMMA FlowWrites ==
  ASSUME SocketIInv, GotInv, NEW g \in {0, 1}, Flow(g), PartialWrite \/ WriteAll
  PROVE  Flow(g)'
<1> DEFINE P == Nodes \cup {Initializer}
           s == Line(g, enqueued)
           t == g + Handed
           h == Head(writeQueue)
           r == Tail(writeQueue)
<1>1. /\ Handed \in 0 .. Len(enqueued) /\ Len(enqueued) \in Nat
      /\ buffer \in Seq(P) /\ writeQueue \in Seq(Seq(P)) /\ wire \in Seq(P) /\ Len(wire) \in Nat
  BY FlowFacts
<1>2. /\ enqueued' = enqueued /\ Handed' = Handed /\ buffer' = buffer
      /\ peerUp /\ ~shut /\ peerUp' = peerUp /\ writeQueue # <<>>
  BY DEF PartialWrite, WriteAll, queueVars, closeVars, otherVars, Handed
<1>3. h \in Seq(P) /\ Len(h) \in Nat /\ r \in Seq(Seq(P))
  BY <1>1, <1>2
<1>4. t \in Nat /\ t <= g + Len(enqueued)
  BY <1>1
<1>5. Arrives(g, enqueued, wire) /\ OnItsWay(writeQueue, buffer, s, Len(wire), t)
  BY <1>2 DEF Flow
<1>w. ASSUME NEW n \in 0 .. Len(h)
      PROVE  /\ Follows(h, s, Len(wire)) /\ Len(wire) + Len(h) <= t
             /\ OnItsWay(<<SubSeq(h, n + 1, Len(h))>> \o r, buffer, s, Len(wire) + n, t)
             /\ OnItsWay(r, buffer, s, Len(wire) + Len(h), t)
  <2> HIDE DEF P, s, t
  <2> QED BY <1>1, <1>2, <1>4, <1>5, WaySplits
<1>6. CASE PartialWrite
  <2>1. PICK n \in 1 .. Len(h) - 1 :
          /\ wire' = wire \o SubSeq(h, 1, n)
          /\ writeQueue' = <<SubSeq(h, n + 1, Len(h))>> \o r
    BY <1>6 DEF PartialWrite, queuedMessage
  <2> HIDE DEF P, s, t, h, r
  <2>2. n \in 0 .. Len(h)
    BY <1>3
  <2>3. /\ Follows(h, s, Len(wire)) /\ Len(wire) + Len(h) <= t
        /\ OnItsWay(<<SubSeq(h, n + 1, Len(h))>> \o r, buffer, s, Len(wire) + n, t)
    BY <2>2, <1>w
  <2>4. Follows(SubSeq(h, 1, n), s, Len(wire)) /\ Len(SubSeq(h, 1, n)) = n /\ SubSeq(h, 1, n) \in Seq(P)
    BY <2>2, <2>3, <1>1, <1>3, FollowsBegin
  <2>5. Follows(wire, s, 0)
    BY <1>5 DEF Arrives, s
  <2>6. Follows(wire', s, 0) /\ Len(wire') = Len(wire) + n
    BY <2>1, <2>4, <2>5, <1>1, FollowsExtend
  <2>7. Len(wire') <= g + Len(enqueued)
    BY <2>2, <2>3, <2>6, <1>1, <1>3, <1>4
  <2>8. OnItsWay(writeQueue', buffer', s, Len(wire'), t)
    BY <2>1, <2>3, <2>6, <1>2
  <2>9. s = Line(g, enqueued') /\ t = g + Handed' /\ Len(wire') <= g + Len(enqueued')
    BY <2>7, <1>2 DEF s, t
  <2> QED BY <2>6, <2>8, <2>9 DEF Flow, Arrives
<1>7. CASE WriteAll
  <2>1. wire' = wire \o h /\ writeQueue' = r
    BY <1>7 DEF WriteAll, Pop, queuedMessage
  <2> HIDE DEF P, s, t, h, r
  <2>2. 0 \in 0 .. Len(h)
    BY <1>3
  <2>3. /\ Follows(h, s, Len(wire)) /\ Len(wire) + Len(h) <= t
        /\ OnItsWay(r, buffer, s, Len(wire) + Len(h), t)
    BY <2>2, <1>w
  <2>5. Follows(wire, s, 0)
    BY <1>5 DEF Arrives, s
  <2>6. Follows(wire', s, 0) /\ Len(wire') = Len(wire) + Len(h)
    BY <2>1, <2>3, <2>5, <1>1, <1>3, FollowsExtend
  <2>7. Len(wire') <= g + Len(enqueued)
    BY <2>3, <2>6, <1>1, <1>3, <1>4
  <2>8. OnItsWay(writeQueue', buffer', s, Len(wire'), t)
    BY <2>1, <2>3, <2>6, <1>2
  <2>9. s = Line(g, enqueued') /\ t = g + Handed' /\ Len(wire') <= g + Len(enqueued')
    BY <2>7, <1>2 DEF s, t
  <2> QED BY <2>6, <2>8, <2>9 DEF Flow, Arrives
<1> QED BY <1>6, <1>7

(* A write that fails takes an empty buffer away, or the connection has      *)
(* ended.                                                                    *)
LEMMA FlowFails ==
  ASSUME SocketIInv, GotInv, NEW g \in {0, 1}, Flow(g), WriteFails
  PROVE  Flow(g)'
<1> DEFINE P == Nodes \cup {Initializer}
           s == Line(g, enqueued)
           t == g + Handed
           h == Head(writeQueue)
           r == Tail(writeQueue)
<1>1. /\ Handed \in 0 .. Len(enqueued) /\ Len(enqueued) \in Nat
      /\ buffer \in Seq(P) /\ writeQueue \in Seq(Seq(P)) /\ wire \in Seq(P) /\ Len(wire) \in Nat
  BY FlowFacts
<1>2. /\ enqueued' = enqueued /\ Handed' = Handed /\ buffer' = buffer /\ wire' = wire
      /\ peerUp' = peerUp /\ writeQueue # <<>> /\ writeQueue' = r
      /\ h = <<>> \/ ~peerUp \/ shut
      /\ ~shut' => ~shut
  BY DEF WriteFails, Pop, queuedMessage, queueVars, otherVars, Handed
<1>3. t \in Nat
  BY <1>1
<1>4. Arrives(g, enqueued, wire) /\ (peerUp /\ ~shut => OnItsWay(writeQueue, buffer, s, Len(wire), t))
  BY DEF Flow
<1>5. ASSUME peerUp /\ ~shut
      PROVE  OnItsWay(writeQueue', buffer', s, Len(wire'), t)
  <2>1. h = <<>> /\ Len(h) = 0 /\ 0 \in 0 .. Len(h) /\ OnItsWay(writeQueue, buffer, s, Len(wire), t)
    BY <1>2, <1>4, <1>5
  <2> HIDE DEF P, s, t
  <2>2. OnItsWay(r, buffer, s, Len(wire) + Len(h), t)
    BY <2>1, <1>1, <1>2, <1>3, WaySplits
  <2>3. Len(wire) + Len(h) = Len(wire)
    BY <2>1, <1>1
  <2> QED BY <2>2, <2>3, <1>2
<1> HIDE DEF s, t, h, r
<1>6. s = Line(g, enqueued') /\ t = g + Handed'
  BY <1>2 DEF s, t
<1> QED BY <1>2, <1>4, <1>5, <1>6 DEF Flow

-----------------------------------------------------------------------------
(* Dequeue moves a packet into the hands of Update. *)
LEMMA DequeueKeepsHanded ==
  ASSUME SocketIInv, DequeueStep
  PROVE  Handed' = Handed /\ GotInv'
<1>1. QueueIInv /\ dequeued \in Seq(Nodes) /\ Len(dequeued) \in Nat
  BY QueueFacts DEF SocketIInv
<1>2. deq.at # "got"
  BY DEF DequeueStep, DequeueLoad, DequeueSecond, DequeueHead, DequeueExchange, DequeueLink, DequeueReload
<1>3. CASE Returns
  <2>1. deq'.at = "got" /\ deq'.node = tail /\ dequeued' = Append(dequeued, tail)
    BY <1>3 DEF Returns
  <2>2. tail \in Nodes
    <3>1. Len(dequeued) + 1 \in 1 .. Len(enqueued) /\ tail = enqueued[Len(dequeued) + 1]
      BY <1>1, <1>3, ReturningKeepsQueue
    <3> QED BY <3>1, <1>1, QueueFacts
  <2>3. Len(dequeued') = Len(dequeued) + 1 /\ dequeued'[Len(dequeued) + 1] = tail
    BY <2>1, <2>2, <1>1
  <2> QED BY <2>1, <2>3, <1>1, <1>2 DEF Handed, GotInv
<1>4. CASE deq'.at # "got" /\ dequeued' = dequeued
  BY <1>2, <1>4 DEF Handed, GotInv
<1>5. CASE \E at \in {"idle", "head", "exchange", "none"} : \E n : Moves(at, n)
  BY <1>4, <1>5 DEF Moves
<1>6. CASE SkipsDummy
  BY <1>4, <1>6 DEF SkipsDummy
<1>7. CASE DequeueExchange
  <2>1. deq'.at = "link"
    BY <1>7, <1>1, QueueFacts DEF DequeueExchange, MPSCTypeOK
  <2> QED BY <2>1, <1>4, <1>7 DEF DequeueExchange
<1>8. CASE DequeueLink
  <2>1. deq'.at = "reload"
    BY <1>8, <1>1, QueueFacts DEF DequeueLink, MPSCTypeOK
  <2> QED BY <2>1, <1>4, <1>8 DEF DequeueLink
<1> QED BY <1>1, <1>3, <1>5, <1>6, <1>7, <1>8, DequeueSteps

(* The steps of the network thread that touch what is buffered and written. *)
MovesPackets ==
  NetBuffers \/ NetDrained \/ PartialWrite \/ WriteAll \/ WriteFails \/ IpIsAllowed

(* The others leave it alone, and none of them brings a connection back.     *)
LEMMA OtherStepsLeaveOut ==
  ASSUME ShutInv, [SocketNext]_vars, ~MovesPackets
  PROVE  /\ UNCHANGED <<writeQueue, buffer, wire>>
         /\ peerUp' /\ ~shut' => peerUp /\ ~shut
<1>1. CASE NetDequeue \/ NetBaseUpdate \/ WouldBlock
  <2>1. CASE NetDequeue
    BY <2>1 DEF NetDequeue, outVars, closeVars, otherVars
  <2>2. CASE NetBaseUpdate
    BY <2>2 DEF NetBaseUpdate, outVars, closeVars, otherVars
  <2>3. CASE WouldBlock
    BY <2>3 DEF WouldBlock, closeVars, otherVars
  <2> QED BY <1>1, <2>1, <2>2, <2>3
<1>2. CASE NothingReady \/ SendAuthResponseError \/ AccountIsAccepted \/ LoadSessionPermissionsCallback
  BY <1>2 DEF NothingReady, SendAuthResponseError, AccountIsAccepted, LoadSessionPermissionsCallback,
     outVars, closeVars, otherVars
<1>3. CASE DelayedCloseSocket
  <2>1. netpc = "reject" /\ peerUp' = peerUp /\ UNCHANGED <<writeQueue, buffer, wire>>
    BY <1>3 DEF DelayedCloseSocket, NetAt, outVars, otherVars
  <2>2. ~shut
    BY <2>1 DEF ShutInv
  <2> QED BY <2>1, <2>2
<1>10. CASE NeedsNoSession \/ LockDuplicateAuth \/ LogDuplicateAuth \/ DuplicateAuthUnlogged
  BY <1>10 DEF NeedsNoSession, LockDuplicateAuth, LogDuplicateAuth, DuplicateAuthUnlogged, NetCloses, outVars,
     closeVars, otherVars
<1>4. CASE NetOnClose \/ LockSession \/ NoSession \/ UseSession
  BY <1>4 DEF NetOnClose, LockSession, NoSession, NetCloses, UseSession, outVars, closeVars, otherVars
<1>5. CASE AnswerPing \/ AsyncRead \/ SendPacketLinks(Net)
  BY <1>5 DEF AnswerPing, AsyncRead, SendPacketLinks, outVars, closeVars, otherVars
<1>6. CASE NetRead \/ ReadFails
  BY <1>6 DEF NetRead, ReadFails, ReadError, ReadWhenClosed, ReadInitializer,
     ReadAuthSession, ReadPacket, NetCloses, outVars, closeVars, otherVars
<1>7. CASE \E p \in Senders : SendPacket(p) \/ SendPacketEnqueues(p) \/ SendPacketLinks(p)
  BY <1>7 DEF SendPacket, SendPacketEnqueues, SendPacketLinks, outVars, closeVars, otherVars
<1>8. CASE NetUpdate \/ WriteHandlerWrapper \/ DbAnswers \/ PeerGoes
  BY <1>8 DEF NetUpdate, WriteHandlerWrapper, DbAnswers, PeerGoes, outVars, closeVars, otherVars
<1>9. CASE KickPlayer \/ OnClose \/ DeleteSession \/ Finished \/ UNCHANGED vars
  BY <1>9 DEF KickPlayer, OnClose, DeleteSession, Finished, vars, outVars, closeVars, otherVars
<1> QED BY <1>1, <1>2, <1>3, <1>4, <1>5, <1>6, <1>7, <1>8, <1>9, <1>10
        DEF MovesPackets, SocketNext, NetContinues, NetCallback, HandleQueue

(* Update takes a packet off Dequeue's hands only when it buffers it. *)
LEMMA OtherStepsKeepHanded ==
  ASSUME SocketIInv, [SocketNext]_vars
  PROVE  NetBuffers \/ Handed' = Handed
<1>1. ASSUME UNCHANGED <<deq, dequeued>> PROVE Handed' = Handed
  BY <1>1 DEF Handed
<1>2. CASE NetDequeue
  BY <1>2, DequeueKeepsHanded DEF NetDequeue
<1>3. CASE NetDrained
  BY <1>3 DEF NetDrained, Handed, Idle
<1>4. CASE NetBaseUpdate \/ HandleQueue
  BY <1>1, <1>4 DEF NetBaseUpdate, HandleQueue, WouldBlock, PartialWrite, WriteFails, WriteAll, queueVars
<1>5. CASE NetCallback
  BY <1>1, <1>5 DEF NetCallback, NothingReady, IpIsAllowed, SendAuthResponseError, AccountIsAccepted,
     LoadSessionPermissionsCallback, EnqueueExchange, queueVars
<1>6. CASE DelayedCloseSocket \/ NetOnClose \/ LockSession \/ NoSession \/ UseSession \/ AnswerPing
           \/ AsyncRead \/ SendPacketLinks(Net)
           \/ NeedsNoSession \/ LockDuplicateAuth \/ LogDuplicateAuth \/ DuplicateAuthUnlogged
  BY <1>1, <1>6 DEF NeedsNoSession, LockDuplicateAuth, LogDuplicateAuth, DuplicateAuthUnlogged, DelayedCloseSocket, NetOnClose, LockSession, NoSession, NetCloses, UseSession,
     AnswerPing, AsyncRead, SendPacketLinks, EnqueueExchange, EnqueueLink, queueVars
<1>7. CASE NetRead \/ ReadFails
  BY <1>1, <1>7 DEF NetRead, ReadFails, ReadError, ReadWhenClosed, ReadInitializer,
     ReadAuthSession, ReadPacket, NetCloses, EnqueueExchange, queueVars
<1>8. CASE \E p \in Senders : SendPacket(p) \/ SendPacketEnqueues(p) \/ SendPacketLinks(p)
  BY <1>1, <1>8 DEF SendPacket, SendPacketEnqueues, SendPacketLinks, EnqueueExchange, EnqueueLink, queueVars
<1>9. CASE NetUpdate \/ WriteHandlerWrapper \/ DbAnswers \/ PeerGoes
           \/ KickPlayer \/ OnClose \/ DeleteSession \/ Finished \/ UNCHANGED vars
  BY <1>1, <1>9 DEF NetUpdate, WriteHandlerWrapper, DbAnswers, PeerGoes, KickPlayer, OnClose,
     DeleteSession, Finished, vars, queueVars
<1> QED BY <1>2, <1>3, <1>4, <1>5, <1>6, <1>7, <1>8, <1>9 DEF SocketNext, NetContinues

(* What is enqueued grows by one packet at a time. *)
LEMMA EnqueuedGrows ==
  ASSUME SocketIInv, [SocketNext]_vars
  PROVE  enqueued' = enqueued \/ \E n \in Nodes : Sends(n) /\ enqueued' = Append(enqueued, n)
<1>1. HandshakeInv /\ SendersInv
  BY DEF SocketIInv
<1>2. (\E n : Sends(n)) \/ enqueued' = enqueued
  BY <1>1, SocketStepIsQueueStep
<1>3. ASSUME NEW n, Sends(n) PROVE n \in Nodes /\ enqueued' = Append(enqueued, n)
  BY <1>1, <1>3, SendsNewPacket DEF EnqueueExchange
<1> QED BY <1>2, <1>3

(* Every step but the one that sends ServerConnectionInitialize keeps the    *)
(* line it found.                                                            *)
LEMMA StepKeepsFlow ==
  ASSUME ConnectionIInv, [SocketNext]_vars, ~IpIsAllowed, NEW g \in {0, 1}, Flow(g)
  PROVE  Flow(g)'
<1>1. SocketIInv /\ GotInv /\ ShutInv
  BY DEF ConnectionIInv
<1>2. CASE NetBuffers
  BY <1>1, <1>2, FlowBuffers
<1>3. CASE NetDrained
  BY <1>1, <1>3, FlowDrained
<1>4. CASE PartialWrite \/ WriteAll
  BY <1>1, <1>4, FlowWrites
<1>5. CASE WriteFails
  BY <1>1, <1>5, FlowFails
<1>6. CASE ~MovesPackets
  <2>1. UNCHANGED <<writeQueue, buffer, wire>> /\ (peerUp' /\ ~shut' => peerUp /\ ~shut)
    BY <1>1, <1>6, OtherStepsLeaveOut
  <2>2. Handed' = Handed
    BY <1>1, <1>6, OtherStepsKeepHanded DEF MovesPackets
  <2>3. enqueued' = enqueued \/ \E n \in Nodes : enqueued' = Append(enqueued, n)
    BY <1>1, EnqueuedGrows
  <2> QED BY <2>1, <2>2, <2>3, <1>1, FlowStays
<1> QED BY <1>2, <1>3, <1>4, <1>5, <1>6 DEF MovesPackets

(* ServerConnectionInitialize is the first on the line. *)
LEMMA InitializerIsFirst ==
  ASSUME ConnectionIInv, IpIsAllowed
  PROVE  Flow(1)'
<1>1. SocketIInv /\ GotInv /\ QuietInv
  BY DEF ConnectionIInv
<1>2. /\ enqueued = <<>> /\ wire = <<>> /\ writeQueue = <<>> /\ buffer = <<>>
      /\ enqueued' = <<>> /\ wire' = <<>> /\ buffer' = <<>> /\ writeQueue' = << <<Initializer>> >>
      /\ Handed' = Handed
  BY <1>1 DEF IpIsAllowed, QuietInv, queueVars, Handed
<1>3. Handed = 0
  <2>1. Handed \in 0 .. Len(enqueued)
    BY <1>1, FlowFacts
  <2> QED BY <2>1, <1>2
<1> DEFINE s == Line(1, <<>>)
           P == Nodes \cup {Initializer}
<1>4. Initializer = s[0 + 1]
  BY DEF Line
<1>5. Arrives(1, <<>>, <<>>)
  BY DEF Arrives, Follows
<1> HIDE DEF s, P
<1>6. <<>> \in Seq(Seq(P)) /\ <<>> \in Seq(P) /\ Initializer \in P
  BY DEF P
<1>7. OnItsWay(<<>>, <<>>, s, 0, 0)
  <2>1. Spans(<<>>, s, 0, 0)
    BY SpansNothing
  <2>2. 0 + Len(<<>>) = 0 /\ Follows(<<>>, s, 0)
    BY DEF Follows
  <2> QED BY <2>1, <2>2 DEF OnItsWay
<1>8. OnItsWay(<<>>, Append(<<>>, Initializer), s, 0, 0 + 1)
  BY <1>4, <1>6, <1>7, WayBuffers
<1>9. Append(<<>>, Initializer) = <<Initializer>> /\ <<Initializer>> \in Seq(P) /\ 0 + 1 = 1
  BY <1>6
<1>10. OnItsWay(Append(<<>>, <<Initializer>>), <<>>, s, 0, 1)
  BY <1>6, <1>8, <1>9, WayFlushes
<1>11. Append(<<>>, <<Initializer>>) = << <<Initializer>> >> /\ Len(<<>>) = 0 /\ 1 + 0 = 1
  OBVIOUS
<1>12. OnItsWay(writeQueue', buffer', Line(1, enqueued'), Len(wire'), 1 + Handed')
  BY <1>2, <1>3, <1>10, <1>11 DEF s
<1> QED BY <1>2, <1>5, <1>12 DEF Flow

(* Before the answer about the address nothing can be sent. *)
LEMMA StepKeepsQuiet ==
  ASSUME ConnectionIInv, [SocketNext]_vars
  PROVE  QuietInv'
<1>1. SocketIInv /\ GotInv /\ QuietInv /\ HandshakeInv /\ SessionInv
  BY DEF ConnectionIInv, SocketIInv
<1> SUFFICES ASSUME query' = "ip"
             PROVE  /\ enqueued' = <<>> /\ sending' = {}
                    /\ wire' = <<>> /\ writeQueue' = <<>> /\ buffer' = <<>>
  BY DEF QuietInv
<1>2. query = "ip"
  <2>1. CASE NetContinues
    BY <2>1 DEF NetContinues, NetDequeue, NetBuffers, NetDrained, NetBaseUpdate, HandleQueue, WouldBlock,
       PartialWrite, WriteFails, WriteAll, NetCallback, NothingReady, IpIsAllowed, SendAuthResponseError,
       AccountIsAccepted, LoadSessionPermissionsCallback, DelayedCloseSocket, NetOnClose, LockSession,
       NoSession, NetCloses, UseSession, AnswerPing, AsyncRead, SendPacketLinks,
       NeedsNoSession, LockDuplicateAuth, LogDuplicateAuth, DuplicateAuthUnlogged, authVars
  <2>2. CASE NetRead \/ ReadFails
    BY <2>2 DEF NetRead, ReadFails, ReadError, ReadWhenClosed, ReadInitializer, ReadAuthSession,
       ReadPacket, NetCloses, authVars
  <2>3. CASE \E p \in Senders : SendPacket(p) \/ SendPacketEnqueues(p) \/ SendPacketLinks(p)
    BY <2>3 DEF SendPacket, SendPacketEnqueues, SendPacketLinks, authVars
  <2>4. CASE NetUpdate \/ WriteHandlerWrapper \/ DbAnswers \/ PeerGoes
             \/ KickPlayer \/ OnClose \/ DeleteSession \/ Finished \/ UNCHANGED vars
    BY <2>4 DEF NetUpdate, WriteHandlerWrapper, DbAnswers, PeerGoes, KickPlayer, OnClose,
       DeleteSession, Finished, vars, authVars
  <2> QED BY <2>1, <2>2, <2>3, <2>4 DEF SocketNext
<1>3. /\ enqueued = <<>> /\ sending = {} /\ wire = <<>> /\ writeQueue = <<>> /\ buffer = <<>>
      /\ reading = "none" /\ netpc # "using" /\ session = "none"
  BY <1>1, <1>2 DEF QuietInv, HandshakeInv, SessionInv
<1>4. enqueued' = <<>>
  <2>1. ASSUME NEW n, Sends(n) PROVE FALSE
    <3>1. CASE SendAuthResponseError
      BY <3>1 DEF SendAuthResponseError
    <3>2. CASE ReadInitializer \/ AnswerPing
      BY <3>2, <1>3 DEF ReadInitializer, AnswerPing, NetAt
    <3>3. CASE \E p \in Senders : SendPacketEnqueues(p)
      BY <3>3, <1>3 DEF SendPacketEnqueues
    <3> QED BY <2>1, <3>1, <3>2, <3>3 DEF Sends
  <2> QED BY <2>1, <1>1, <1>3, EnqueuedGrows
<1>5. sending' = {}
  BY <1>3, SendingGrowsBySendPacket DEF SendPacket
<1>6. wire' = <<>> /\ writeQueue' = <<>> /\ buffer' = <<>>
  <2>1. ~NetBuffers
    <3>1. Len(dequeued) \in 0 .. Len(enqueued) /\ Len(enqueued) = 0
      BY <1>1, <1>3, FlowFacts
    <3>2. ~(Len(dequeued) > 0)
      BY <3>1
    <3> QED BY <3>2, <1>1 DEF NetBuffers, GotInv
  <2>2. CASE NetDrained
    BY <2>2, <1>3 DEF NetDrained
  <2>3. ~PartialWrite /\ ~WriteAll /\ ~WriteFails
    BY <1>3 DEF PartialWrite, WriteAll, WriteFails
  <2>4. ~IpIsAllowed
    BY DEF IpIsAllowed
  <2>5. CASE ~MovesPackets
    BY <2>5, <1>3, OtherStepsLeaveOut DEF ConnectionIInv
  <2> QED BY <2>1, <2>2, <2>3, <2>4, <2>5 DEF MovesPackets
<1> QED BY <1>4, <1>5, <1>6

(* Who shuts the connection down has closed the socket; a refused client has *)
(* no session, so that nobody kicks it.                                      *)
LEMMA StepKeepsShut ==
  ASSUME ConnectionIInv, [SocketNext]_vars
  PROVE  ShutInv'
<1>1. /\ shut => closed
      /\ wpc = "onClose" => closed
      /\ netpc = "reject" => ~closed
      /\ netpc = "reject" => session = "none"
      /\ wpc = "onClose" => session = "added"
      /\ netpc = "onClose" => closed
      /\ netpc = "callbacks" /\ query \in {"ip", "account"} => ~closed
  BY DEF ConnectionIInv, SocketIInv, ShutInv, HandshakeInv, SessionInv
<1>2. ASSUME UNCHANGED <<shut, closed, wpc>>, netpc' # "reject" \/ netpc' = netpc
      PROVE  ShutInv'
  BY <1>1, <1>2 DEF ShutInv
<1>3. CASE NetDequeue \/ NetBuffers \/ NetDrained \/ NetBaseUpdate
  BY <1>2, <1>3 DEF NetDequeue, NetBuffers, NetDrained, NetBaseUpdate, closeVars, otherVars
<1>h. ASSUME NEW more, netpc \in {"write", "ready"}, AfterHandleQueue(more) PROVE netpc' # "reject"
  BY <1>h, Zenon DEF AfterHandleQueue
<1>f. ASSUME netpc \in {"write", "ready"}, AfterHandleQueue(FALSE) PROVE netpc' # "reject"
  BY <1>f, Zenon DEF AfterHandleQueue
<1>4. CASE WouldBlock
  <2>1. netpc' # "reject"
    BY <1>4, <1>f DEF WouldBlock
  <2> QED BY <2>1, <1>2, <1>4 DEF WouldBlock, closeVars, otherVars
<1>5. CASE PartialWrite
  <2>1. netpc' # "reject"
    BY <1>5, <1>f DEF PartialWrite
  <2> QED BY <2>1, <1>2, <1>5 DEF PartialWrite, closeVars, otherVars
<1>p. ASSUME Pop, wpc' = wpc, netpc' # "reject" PROVE ShutInv'
  BY <1>1, <1>p DEF Pop, ShutInv
<1>6. CASE WriteFails
  <2>1. netpc' # "reject"
    BY <1>6, <1>f DEF WriteFails
  <2> QED BY <2>1, <1>p, <1>6 DEF WriteFails, otherVars
<1>7. CASE WriteAll
  <2>1. netpc' # "reject"
    BY <1>7, <1>h DEF WriteAll
  <2> QED BY <2>1, <1>p, <1>7 DEF WriteAll, otherVars
<1>8. CASE NothingReady \/ IpIsAllowed \/ AccountIsAccepted \/ LoadSessionPermissionsCallback
  BY <1>2, <1>8 DEF NothingReady, IpIsAllowed, AccountIsAccepted, LoadSessionPermissionsCallback,
     closeVars, otherVars
<1>9. CASE SendAuthResponseError
  BY <1>1, <1>9 DEF SendAuthResponseError, NetAt, ShutInv, closeVars, otherVars
<1>10. CASE DelayedCloseSocket
  BY <1>1, <1>10 DEF DelayedCloseSocket, NetAt, ShutInv, otherVars
<1>11. CASE NetOnClose
  BY <1>1, <1>11 DEF NetOnClose, NetAt, ShutInv, otherVars
<1>12. ASSUME NetCloses PROVE ShutInv'
  BY <1>12 DEF NetCloses, ShutInv, otherVars
<1>13. CASE LockSession \/ UseSession \/ AnswerPing \/ AsyncRead \/ SendPacketLinks(Net)
            \/ NeedsNoSession \/ LockDuplicateAuth
  BY <1>2, <1>13 DEF NeedsNoSession, LockDuplicateAuth, LockSession, UseSession, AnswerPing, AsyncRead, SendPacketLinks, closeVars, otherVars
<1>14. CASE NoSession \/ ReadFails \/ ReadError \/ LogDuplicateAuth \/ DuplicateAuthUnlogged
  BY <1>12, <1>14 DEF NoSession, LogDuplicateAuth, DuplicateAuthUnlogged, ReadFails, ReadError
<1>15. CASE ReadWhenClosed \/ ReadInitializer \/ ReadAuthSession \/ ReadPacket
  BY <1>2, <1>15 DEF ReadWhenClosed, ReadInitializer, ReadAuthSession, ReadPacket, closeVars, otherVars
<1>16. CASE \E p \in Senders : SendPacket(p) \/ SendPacketEnqueues(p) \/ SendPacketLinks(p)
  BY <1>2, <1>16 DEF SendPacket, SendPacketEnqueues, SendPacketLinks, closeVars, otherVars
<1>17. CASE KickPlayer
  BY <1>1, <1>17 DEF KickPlayer, ShutInv
<1>18. CASE OnClose
  BY <1>1, <1>18 DEF OnClose, ShutInv
<1>19. CASE NetUpdate \/ WriteHandlerWrapper \/ DbAnswers \/ PeerGoes \/ DeleteSession \/ Finished
            \/ UNCHANGED vars
  BY <1>2, <1>19 DEF NetUpdate, WriteHandlerWrapper, DbAnswers, PeerGoes, DeleteSession, Finished, vars,
     closeVars, otherVars
<1> QED BY <1>3, <1>4, <1>5, <1>6, <1>7, <1>8, <1>9, <1>10, <1>11, <1>13, <1>14, <1>15, <1>16, <1>17,
           <1>18, <1>19 DEF SocketNext, NetContinues, NetCallback, NetRead, HandleQueue

(* What Dequeue returned stays in hand until Update buffers it. *)
LEMMA StepKeepsGot ==
  ASSUME SocketIInv, GotInv, [SocketNext]_vars
  PROVE  GotInv'
<1>1. QueueStep
  BY SocketStepIsQueueStep DEF SocketIInv
<1>2. CASE UNCHANGED <<deq, dequeued>>
  BY <1>2 DEF GotInv
<1>3. CASE DequeueStep
  BY <1>3, DequeueKeepsHanded
<1>4. CASE deq' = Idle
  BY <1>4 DEF Idle, GotInv
<1> QED BY <1>1, <1>2, <1>3, <1>4 DEF QueueStep, EnqueueExchange, EnqueueLink, queueVars

(* Every step keeps the invariant of the connection. *)
LEMMA ConnectionStepIInv ==
  ASSUME ConnectionIInv, [SocketNext]_vars
  PROVE  ConnectionIInv'
<1>1. SocketIInv /\ GotInv /\ FlowInv
  BY DEF ConnectionIInv
<1>2. SocketIInv' /\ GotInv' /\ QuietInv' /\ ShutInv'
  BY <1>1, SocketStepIInv, StepKeepsGot, StepKeepsQuiet, StepKeepsShut
<1>3. FlowInv'
  <2>1. CASE IpIsAllowed
    BY <2>1, InitializerIsFirst DEF FlowInv
  <2>2. CASE ~IpIsAllowed
    BY <2>2, <1>1, StepKeepsFlow DEF FlowInv
  <2> QED BY <2>1, <2>2
<1> QED BY <1>2, <1>3 DEF ConnectionIInv

(* At the start nothing is on its way. *)
LEMMA ConnectionInitIInv ==
  ASSUME SocketInit
  PROVE  ConnectionIInv
<1>1. SocketIInv
  BY SocketInitIInv
<1>2. /\ enqueued = <<>> /\ dequeued = <<>> /\ wire = <<>> /\ writeQueue = <<>> /\ buffer = <<>>
      /\ deq.at = "idle"
  BY DEF SocketInit, QueueInit, Idle
<1>3. GotInv /\ QuietInv /\ ShutInv
  BY <1>2 DEF SocketInit, GotInv, QuietInv, ShutInv
<1>4. Handed = 0 /\ Len(<<>>) = 0 /\ 0 + 0 = 0
  BY <1>2 DEF Handed
<1>5. Arrives(0, <<>>, <<>>)
  BY DEF Arrives, Follows
<1> DEFINE s == Line(0, <<>>)
<1> HIDE DEF s
<1>6. OnItsWay(<<>>, <<>>, s, 0, 0)
  <2>1. Spans(<<>>, s, 0, 0)
    BY SpansNothing
  <2>2. 0 + Len(<<>>) = 0 /\ Follows(<<>>, s, 0)
    BY DEF Follows
  <2> QED BY <2>1, <2>2 DEF OnItsWay
<1>7. Flow(0)
  BY <1>2, <1>4, <1>5, <1>6 DEF Flow, s
<1> QED BY <1>1, <1>3, <1>7 DEF ConnectionIInv, FlowInv

(* The invariant holds in every reachable state. *)
LEMMA ConnectionInvariant ==
  SocketSpec => []ConnectionIInv
<1>1. SocketInit => ConnectionIInv
  BY ConnectionInitIInv
<1>2. ConnectionIInv /\ [SocketNext]_vars => ConnectionIInv'
  BY ConnectionStepIInv
<1> QED BY <1>1, <1>2, PTL DEF SocketSpec

(* How many packets have arrived. *)
Arrived(g, w) == IF Len(w) > g THEN Len(w) - g ELSE 0

(* The packets of a line without ServerConnectionInitialize. *)
PacketsOf(w) == IF w # <<>> /\ Head(w) = Initializer THEN Tail(w) ELSE w

(* What the client has received is the beginning of what was sent. *)
LEMMA ReceivedIsPrefix ==
  ASSUME NEW g \in {0, 1}, NEW e \in Seq(Nodes), NEW w \in Seq(Nodes \cup {Initializer}), Arrives(g, e, w)
  PROVE  /\ Arrived(g, w) \in 0 .. Len(e)
         /\ PacketsOf(w) = SubSeq(e, 1, Arrived(g, w))
         /\ Len(SubSeq(e, 1, Arrived(g, w))) = Arrived(g, w)
<1> DEFINE P == Nodes \cup {Initializer}
           k == Arrived(g, w)
           a == PacketsOf(w)
           b == SubSeq(e, 1, k)
<1>1. /\ Len(e) \in Nat /\ Len(w) \in Nat /\ Len(w) <= g + Len(e)
      /\ \A j \in 1 .. Len(w) : w[j] = Line(g, e)[0 + j]
      /\ \A j \in 1 .. Len(e) : e[j] \in Nodes
  BY DEF Arrives, Follows
<1>2. k \in 0 .. Len(e)
  BY <1>1 DEF Arrived
<1>3. b \in Seq(Nodes) /\ Len(b) = k /\ \A i \in 1 .. k : b[i] = e[i]
  BY <1>2, <1>1
<1>4. \A i \in 1 .. k : i \in 1 .. Len(e) /\ g + i \in 1 .. Len(w) /\ 0 + (g + i) = g + i
  BY <1>1 DEF Arrived
<1> HIDE DEF k, b
<1>5. ASSUME NEW i \in 1 .. k PROVE w[g + i] = e[i]
  <2>1. i \in 1 .. Len(e) /\ g + i \in 1 .. Len(w) /\ 0 + (g + i) = g + i
    BY <1>4
  <2>2. w[g + i] = Line(g, e)[g + i]
    BY <2>1, <1>1
  <2> QED BY <2>1, <2>2, LineHolds
<1>6. a \in Seq(P) /\ Len(a) = k /\ \A i \in 1 .. k : a[i] = w[g + i]
  <2>1. CASE w = <<>>
    <3>1. a = <<>> /\ k = 0
      BY <2>1 DEF PacketsOf, k, Arrived
    <3> QED BY <3>1
  <2>2. CASE w # <<>> /\ g = 1
    <3>1. Len(w) # 0 /\ 0 + 1 \in 1 .. 1 + Len(e) /\ 1 \in 1 .. Len(w)
      BY <2>2, <1>1
    <3>2. Head(w) = Initializer
      <4>1. Line(1, e)[0 + 1] = Initializer
        BY <3>1 DEF Line
      <4> QED BY <4>1, <3>1, <2>2, <1>1
    <3>3. a = Tail(w)
      BY <3>2, <2>2 DEF PacketsOf
    <3>4. /\ Tail(w) \in Seq(P) /\ Len(Tail(w)) = Len(w) - 1
          /\ \A i \in 1 .. Len(w) - 1 : Tail(w)[i] = w[i + 1]
      BY <2>2
    <3>5. k = Len(w) - 1
      <4>1. k = IF Len(w) > 1 THEN Len(w) - 1 ELSE 0
        BY <2>2 DEF k, Arrived
      <4>2. \A m \in Nat : m # 0 => (IF m > 1 THEN m - 1 ELSE 0) = m - 1
        OBVIOUS
      <4> QED BY <4>1, <4>2, <3>1, <1>1
    <3> QED BY <3>3, <3>4, <3>5, <2>2
  <2>3. CASE w # <<>> /\ g = 0
    <3>1. Len(w) # 0 /\ k = Len(w) /\ 1 \in 1 .. k
      BY <2>3, <1>1 DEF k, Arrived
    <3>2. w[g + 1] = e[1] /\ e[1] \in Nodes
      BY <3>1, <1>1, <1>4, <1>5
    <3>3. Head(w) # Initializer
      BY <3>2, <2>3, NetPacketsAssumption
    <3>4. a = w
      BY <3>3 DEF PacketsOf
    <3> QED BY <3>1, <3>4, <2>3
  <2> QED BY <2>1, <2>2, <2>3
<1> HIDE DEF a
<1>7. b \in Seq(P)
  BY <1>3
<1>8. \A i \in 1 .. k : a[i] = b[i]
  BY <1>3, <1>5, <1>6
<1> HIDE DEF P
<1>9. a = b
  BY <1>3, <1>6, <1>7, <1>8, SeqEqual
<1> QED BY <1>2, <1>3, <1>9 DEF k, a, b

(* A step of the socket sends a packet, delivers some, or neither. *)
LEMMA SocketStepIsConnectionStep ==
  ASSUME ConnectionIInv, [SocketNext]_vars
  PROVE  [Connection!Send \/ Connection!Deliver]_(Connection!streamVars)
<1>1. SocketIInv /\ GotInv /\ FlowInv /\ SocketIInv'
  BY SocketStepIInv DEF ConnectionIInv
<1>2. /\ enqueued \in Seq(Nodes) /\ wire \in Seq(Nodes \cup {Initializer}) /\ Len(wire) \in Nat
      /\ enqueued' \in Seq(Nodes) /\ wire' \in Seq(Nodes \cup {Initializer})
  BY <1>1, FlowFacts DEF SocketIInv, SocketTypeOK, MPSCTypeOK
<1>3. ReceivedPackets = PacketsOf(wire) /\ ReceivedPackets' = PacketsOf(wire')
  BY DEF ReceivedPackets, PacketsOf
<1>4. CASE wire' = wire
  <2>1. ReceivedPackets' = ReceivedPackets
    BY <1>3, <1>4
  <2>2. enqueued' = enqueued \/ \E n \in Nodes : enqueued' = Append(enqueued, n)
    BY <1>1, EnqueuedGrows
  <2> QED BY <2>1, <2>2 DEF Connection!Send, Connection!streamVars
<1>5. CASE PartialWrite \/ WriteAll
  <2>1. enqueued' = enqueued /\ ~IpIsAllowed
    BY <1>5 DEF PartialWrite, WriteAll, IpIsAllowed, NetAt, queueVars
  <2>2. PICK g \in {0, 1} : Flow(g)
    BY <1>1 DEF FlowInv
  <2>3. Flow(g)'
    BY <2>1, <2>2, StepKeepsFlow
  <2>4. Arrives(g, enqueued, wire) /\ Arrives(g, enqueued, wire')
    BY <2>1, <2>2, <2>3 DEF Flow
  <2> DEFINE j == Arrived(g, wire)
             k == Arrived(g, wire')
  <2>5. /\ j \in 0 .. Len(enqueued) /\ ReceivedPackets = SubSeq(enqueued, 1, j)
        /\ Len(SubSeq(enqueued, 1, j)) = j
    BY <2>4, <1>2, <1>3, ReceivedIsPrefix
  <2>6. k \in 0 .. Len(enqueued) /\ ReceivedPackets' = SubSeq(enqueued, 1, k)
    BY <2>4, <1>2, <1>3, ReceivedIsPrefix
  <2>7. Len(wire) <= Len(wire') /\ Len(wire') \in Nat
    <3>1. \E x \in Seq(Nodes \cup {Initializer}) : wire' = wire \o x
      <4>1. writeQueue # <<>> /\ writeQueue \in Seq(Seq(Nodes \cup {Initializer}))
        BY <1>1, <1>5, FlowFacts DEF PartialWrite, WriteAll
      <4>2. queuedMessage \in Seq(Nodes \cup {Initializer})
        BY <4>1 DEF queuedMessage
      <4>3. CASE WriteAll
        BY <4>2, <4>3 DEF WriteAll
      <4>4. CASE PartialWrite
        <5>1. PICK n \in 1 .. Len(queuedMessage) - 1 : wire' = wire \o SubSeq(queuedMessage, 1, n)
          BY <4>4 DEF PartialWrite
        <5> DEFINE q == queuedMessage
                   P == Nodes \cup {Initializer}
        <5> HIDE DEF q, P
        <5>2. q \in Seq(P) /\ n \in 1 .. Len(q) - 1
          BY <4>2, <5>1 DEF q, P
        <5>3. SubSeq(q, 1, n) \in Seq(P)
          BY ONLY <5>2
        <5> QED BY <5>1, <5>3 DEF q, P
      <4> QED BY <1>5, <4>3, <4>4
    <3>2. PICK x \in Seq(Nodes \cup {Initializer}) : wire' = wire \o x
      BY <3>1
    <3>3. Len(wire') = Len(wire) + Len(x) /\ Len(x) \in Nat
      BY <3>2, <1>2
    <3> QED BY <3>3, <1>2
  <2>8. j <= k
    BY <2>7, <1>2 DEF Arrived
  <2> HIDE DEF j, k
  <2>9. CASE j = k
    BY <2>1, <2>5, <2>6, <2>9 DEF Connection!streamVars
  <2>10. CASE j # k
    <3>1. k \in Len(ReceivedPackets) + 1 .. Len(enqueued)
      <4>1. Len(ReceivedPackets) = j /\ Len(enqueued) \in Nat
        BY <2>5, <1>2
      <4> QED BY <4>1, <2>5, <2>6, <2>8, <2>10
    <3> QED BY <3>1, <2>1, <2>6 DEF Connection!Deliver
  <2> QED BY <2>9, <2>10
<1>6. wire' = wire \/ PartialWrite \/ WriteAll
  <2>1. CASE MovesPackets
    BY <2>1 DEF MovesPackets, NetBuffers, NetDrained, WriteFails, IpIsAllowed
  <2>2. CASE ~MovesPackets
    BY <2>2, OtherStepsLeaveOut DEF ConnectionIInv
  <2> QED BY <2>1, <2>2
<1> QED BY <1>4, <1>5, <1>6

(* The connection is the stream of packets it promises: what the client      *)
(* receives is what SendPacket enqueued, from the first packet on, in order, *)
(* none lost, repeated or overtaken, for any sizes of packets and buffer,    *)
(* any number of them and any partial, blocked or failing writes.            *)
THEOREM ConnectionRefinesStream == SocketSpec => ConnectionIsStream
<1>1. SocketInit => Connection!StreamInit
  BY DEF SocketInit, QueueInit, ReceivedPackets, Connection!StreamInit
<1>2. ConnectionIInv /\ [SocketNext]_vars => [Connection!Send \/ Connection!Deliver]_(Connection!streamVars)
  BY SocketStepIsConnectionStep
<1> QED BY <1>1, <1>2, ConnectionInvariant, PTL DEF SocketSpec, ConnectionIsStream, Connection!StreamSpec
=============================================================================
