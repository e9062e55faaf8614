------------------------- MODULE WorldSessionsProofs -------------------------
(***************************************************************************)
(* The login queue is sound, keeps the limit, passes free slots on and lets *)
(* nobody overtake, for any accounts, connections, staff and limits.        *)
(***************************************************************************)
EXTENDS WorldSessions, FiniteSetTheorems, SequenceTheorems, TLAPS

Elems(q) == {q[i] : i \in 1 .. Len(q)}
Distinct(q) == \A i, j \in 1 .. Len(q) : q[i] = q[j] => i = j

(* The session of an account is one of its own. *)
OwnSession == \A x \in Accounts : m_sessions[x] # None => Account(m_sessions[x]) = x

(* A session has either arrived or is listed, and has arrived once. *)
ArrivedOnce == Distinct(addSessQueue) /\ Elems(addSessQueue) \cap Listed = {}

(* Who waits has m_inQueue set, which keeps it from loading a player, and    *)
(* nobody has initialised it.                                                *)
Waiting ==
  /\ Distinct(m_QueuedPlayer)
  /\ Elems(m_QueuedPlayer) \subseteq Listed \cap inQueue
  /\ Elems(m_QueuedPlayer) \cap (initialising \cup loading \cup admitted) = {}

(* Every open session waits or was let in. *)
Accounted == Listed \cap open \subseteq Elems(m_QueuedPlayer) \cup admitted

WorldIInv == WorldTypeOK /\ OwnSession /\ ArrivedOnce /\ Waiting /\ Accounted

-----------------------------------------------------------------------------
(* The queue as a sequence without repetitions. *)

(* p is q without the elements of X. *)
Without(p, q, X) ==
  /\ p \in Seq(Sessions) /\ Distinct(p)
  /\ Elems(p) = Elems(q) \ X

(* Taking out the first occurrence takes out the only one. *)
LEMMA RemoveFirstIs ==
  ASSUME NEW q \in Seq(Sessions), Distinct(q), NEW k \in 1 .. Len(q)
  PROVE  RemoveFirst(q, q[k]) = SubSeq(q, 1, k - 1) \o SubSeq(q, k + 1, Len(q))
<1> DEFINE I == {i \in 1 .. Len(q) : q[i] = q[k]}
<1>1. I = {k}
  BY DEF Distinct
<1>2. Min(I) = k
  <2>1. Min({k}) = k
    BY DEF Min
  <2> QED BY <1>1, <2>1
<1>3. SelectInSeq(q, LAMBDA v : v = q[k]) = k
  BY <1>1, <1>2 DEF SelectInSeq
<1> QED BY <1>3 DEF RemoveFirst, RemoveAt

(* What the queue is once the session s has left it. *)
LEMMA RestFacts ==
  ASSUME NEW q \in Seq(Sessions), Distinct(q), NEW s
  PROVE  /\ Without(RemoveFirst(q, s), q, {s})
         /\ Len(RemoveFirst(q, s)) = IF Contains(q, s) THEN Len(q) - 1 ELSE Len(q)
<1>1. CASE ~Contains(q, s)
  <2>1. RemoveFirst(q, s) = q
    BY <1>1 DEF RemoveFirst, Contains
  <2>2. s \notin Elems(q)
    BY <1>1 DEF Contains, Elems
  <2> QED BY <1>1, <2>1, <2>2 DEF Without
<1>2. CASE Contains(q, s)
  <2>1. PICK k \in 1 .. Len(q) : q[k] = s
    BY <1>2 DEF Contains
  <2> DEFINE r == RemoveFirst(q, s)
  <2>2. r = SubSeq(q, 1, k - 1) \o SubSeq(q, k + 1, Len(q))
    BY <2>1, RemoveFirstIs
  <2> DEFINE lo == SubSeq(q, 1, k - 1)
             hi == SubSeq(q, k + 1, Len(q))
  <2>a. Len(q) \in Nat /\ \A i \in 1 .. Len(q) : q[i] \in Sessions
    OBVIOUS
  <2>b. /\ lo \in Seq(Sessions) /\ Len(lo) = k - 1
        /\ \A i \in 1 .. k - 1 : lo[i] = q[i]
    BY <2>a, SubSeqProperties
  <2>c. /\ hi \in Seq(Sessions) /\ Len(hi) = Len(q) - k
        /\ \A i \in 1 .. Len(q) - k : hi[i] = q[k + i]
    BY <2>a, SubSeqProperties
  <2> HIDE DEF r, lo, hi
  <2>d. r = lo \o hi
    BY <2>2 DEF lo, hi
  <2>3. r \in Seq(Sessions) /\ Len(r) = Len(q) - 1
    BY <2>a, <2>b, <2>c, <2>d
  <2>4. \A i \in 1 .. Len(r) : r[i] = q[IF i < k THEN i ELSE i + 1]
    <3>1. SUFFICES ASSUME NEW i \in 1 .. Len(r) PROVE r[i] = q[IF i < k THEN i ELSE i + 1]
      OBVIOUS
    <3>2. CASE i < k
      BY <3>2, <2>a, <2>b, <2>c, <2>d, <2>3
    <3>3. CASE ~(i < k)
      <4>1. r[i] = hi[i - (k - 1)] /\ i - (k - 1) \in 1 .. Len(q) - k
        BY <3>3, <2>a, <2>b, <2>c, <2>d, <2>3
      <4>2. k + (i - (k - 1)) = i + 1
        BY <2>3
      <4> QED BY <3>3, <4>1, <4>2, <2>c
    <3> QED BY <3>2, <3>3
  <2>5. Distinct(r)
    BY <2>3, <2>4 DEF Distinct
  <2>6. Elems(r) = Elems(q) \ {s}
    <3>1. ASSUME NEW x \in Elems(r) PROVE x \in Elems(q) \ {s}
      <4>1. PICK i \in 1 .. Len(r) : x = r[i]
        BY <3>1 DEF Elems
      <4>2. PICK j \in 1 .. Len(q) : x = q[j] /\ j # k
        <5> DEFINE j == IF i < k THEN i ELSE i + 1
        <5>1. r[i] = q[j]
          BY <2>4
        <5>2. j \in 1 .. Len(q) /\ j # k
          BY <2>3, <2>a
        <5> HIDE DEF j
        <5> QED BY <4>1, <5>1, <5>2
      <4> QED BY <4>2, <2>1 DEF Elems, Distinct
    <3>2. ASSUME NEW x \in Elems(q) \ {s} PROVE x \in Elems(r)
      <4>1. PICK j \in 1 .. Len(q) : x = q[j] /\ j # k
        BY <3>2, <2>1 DEF Elems
      <4>2. PICK i \in 1 .. Len(r) : (IF i < k THEN i ELSE i + 1) = j
        <5>1. CASE j < k BY <5>1, <2>3
        <5>2. CASE j > k
          <6>1. j - 1 \in 1 .. Len(r) /\ ~(j - 1 < k) /\ (j - 1) + 1 = j
            BY <5>2, <2>3
          <6> QED BY <6>1
        <5> QED BY <5>1, <5>2, <4>1
      <4>3. x = r[i]
        BY <4>1, <4>2, <2>4
      <4> QED BY <4>3 DEF Elems
    <3> QED BY <3>1, <3>2
  <2> QED BY <1>2, <2>3, <2>5, <2>6 DEF Without, r
<1> QED BY <1>1, <1>2

(* What the queue is once its first session was taken. *)
LEMMA TailFacts ==
  ASSUME NEW q \in Seq(Sessions), Distinct(q), q # <<>>
  PROVE  /\ Without(Tail(q), q, {Head(q)})
         /\ Len(Tail(q)) = Len(q) - 1
         /\ Head(q) \in Elems(q)
<1>1. Tail(q) \in Seq(Sessions) /\ Len(Tail(q)) = Len(q) - 1 /\ Len(q) > 0
  OBVIOUS
<1>2. \A i \in 1 .. Len(Tail(q)) : Tail(q)[i] = q[i + 1]
  BY <1>1
<1>3. Head(q) = q[1]
  OBVIOUS
<1> DEFINE t == Tail(q)
<1> HIDE DEF t
<1>4. Distinct(t)
  BY <1>1, <1>2 DEF Distinct, t
<1>5. Elems(t) = Elems(q) \ {Head(q)}
  <2>1. ASSUME NEW x \in Elems(t) PROVE x \in Elems(q) \ {Head(q)}
    <3>1. PICK i \in 1 .. Len(t) : x = q[i + 1]
      BY <2>1, <1>2 DEF Elems, t
    <3>2. i + 1 \in 1 .. Len(q) /\ i + 1 # 1
      BY <3>1, <1>1 DEF t
    <3> QED BY <3>1, <3>2, <1>3 DEF Elems, Distinct
  <2>2. ASSUME NEW x \in Elems(q) \ {Head(q)} PROVE x \in Elems(t)
    <3>1. PICK j \in 1 .. Len(q) : x = q[j] /\ j # 1
      BY <2>2, <1>3 DEF Elems
    <3>2. j - 1 \in 1 .. Len(t) /\ (j - 1) + 1 = j
      BY <3>1, <1>1 DEF t
    <3>3. x = t[j - 1]
      BY <3>1, <3>2, <1>2 DEF t
    <3> QED BY <3>2, <3>3 DEF Elems
  <2> QED BY <2>1, <2>2
<1> QED BY <1>1, <1>3, <1>4, <1>5 DEF Without, Elems, t

(* What the queue is once s stands at its end. *)
LEMMA AppendFacts ==
  ASSUME NEW q \in Seq(Sessions), Distinct(q), NEW s \in Sessions, s \notin Elems(q)
  PROVE  /\ Append(q, s) \in Seq(Sessions) /\ Distinct(Append(q, s))
         /\ Elems(Append(q, s)) = Elems(q) \cup {s}
         /\ Len(Append(q, s)) = Len(q) + 1
<1> DEFINE t == Append(q, s)
<1>1. t \in Seq(Sessions) /\ Len(t) = Len(q) + 1 /\ t[Len(q) + 1] = s
  OBVIOUS
<1>2. \A i \in 1 .. Len(q) : t[i] = q[i]
  OBVIOUS
<1> HIDE DEF t
<1>3. Distinct(t)
  BY <1>1, <1>2 DEF Distinct, Elems
<1>4. Elems(t) = Elems(q) \cup {s}
  <2>1. ASSUME NEW x \in Elems(t) PROVE x \in Elems(q) \cup {s}
    BY <2>1, <1>1, <1>2 DEF Elems
  <2>2. ASSUME NEW x \in Elems(q) PROVE x \in Elems(t)
    BY <2>2, <1>1, <1>2 DEF Elems
  <2>3. s \in Elems(t)
    BY <1>1 DEF Elems
  <2> QED BY <2>1, <2>2, <2>3
<1> QED BY <1>1, <1>3, <1>4 DEF t

(* A queue without repetitions has as many sessions as it is long. *)
LEMMA CountDistinct ==
  ASSUME NEW q \in Seq(Sessions), Distinct(q)
  PROVE  IsFiniteSet(Elems(q)) /\ Cardinality(Elems(q)) = Len(q)
<1> DEFINE f == [i \in 1 .. Len(q) |-> q[i]]
<1>1. f \in Bijection(1 .. Len(q), Elems(q))
  BY DEF Bijection, Injection, Surjection, IsInjective, Distinct, Elems
<1>2. IsFiniteSet(1 .. Len(q)) /\ Cardinality(1 .. Len(q)) = Len(q)
  <2>1. Len(q) \in Nat
    OBVIOUS
  <2>2. /\ IsFiniteSet(1 .. Len(q))
        /\ Cardinality(1 .. Len(q)) = IF 1 > Len(q) THEN 0 ELSE Len(q) - 1 + 1
    BY <2>1, FS_Interval
  <2> QED BY <2>1, <2>2
<1>3. ExistsBijection(1 .. Len(q), Elems(q))
  BY <1>1 DEF ExistsBijection
<1> QED BY <1>2, <1>3, FS_Bijection

-----------------------------------------------------------------------------
(* RemoveQueuedPlayer. *)

LEMMA ContainsIsElem ==
  ASSUME NEW q, NEW s
  PROVE  Contains(q, s) <=> s \in Elems(q)
BY DEF Contains, Elems

(* The sessions the code counts as active once s has left. *)
Remaining(q, s) ==
  LET active == GetActiveAndQueuedSessionCount - Len(q)
  IN IF Contains(q, s) \/ active = 0 THEN active ELSE active - 1

MayEnter(q, s) == m_playerLimit = 0 \/ Remaining(q, s) < m_playerLimit

(* r.queue and r.accepted are q without s and, when a slot is free, without  *)
(* its first session, who is accepted.                                       *)
Passed(q, s, r) ==
  LET left == IF Contains(q, s) THEN Len(q) - 1 ELSE Len(q)
  IN \/ /\ MayEnter(q, s) /\ left > 0
        /\ Len(r.queue) = left - 1 /\ r.accepted # {}
     \/ /\ ~MayEnter(q, s) \/ left = 0
        /\ Len(r.queue) = left /\ r.accepted = {}

Left(q, s, r) ==
  /\ Without(r.queue, q, {s} \cup r.accepted)
  /\ r.accepted \subseteq Elems(q) \ {s}
  /\ r.accepted = {} \/ \E h \in Elems(q) : r.accepted = {h}

LEMMA Leaving ==
  ASSUME NEW q \in Seq(Sessions), Distinct(q), NEW s
  PROVE  LET r == RemoveQueuedPlayer(q, s)
         IN  Left(q, s, r) /\ Passed(q, s, r) /\ (r.found <=> s \in Elems(q))
<1> DEFINE r == RemoveQueuedPlayer(q, s)
           rest == RemoveFirst(q, s)
           accept == MayEnter(q, s) /\ rest # <<>>
<1>1. /\ r.queue = IF accept THEN Tail(rest) ELSE rest
      /\ r.accepted = IF accept THEN {Head(rest)} ELSE {}
  BY DEF RemoveQueuedPlayer, MayEnter, Remaining
<1>2. r.found = Contains(q, s)
  BY DEF RemoveQueuedPlayer
<1>3. /\ Without(rest, q, {s})
      /\ Len(rest) = IF Contains(q, s) THEN Len(q) - 1 ELSE Len(q)
  BY RestFacts
<1>4. rest \in Seq(Sessions) /\ Distinct(rest) /\ Elems(rest) = Elems(q) \ {s}
  BY <1>3 DEF Without
<1>5. rest # <<>> <=> Len(rest) > 0
  BY <1>4
<1>6. CASE accept
  <2>1. /\ Without(Tail(rest), rest, {Head(rest)})
        /\ Len(Tail(rest)) = Len(rest) - 1 /\ Head(rest) \in Elems(rest)
    BY <1>4, <1>6, TailFacts
  <2>2. r.queue = Tail(rest) /\ r.accepted = {Head(rest)}
    BY <1>1, <1>6
  <2> HIDE DEF r, rest, accept
  <2>3. Left(q, s, r)
    BY <1>4, <2>1, <2>2 DEF Left, Without
  <2>4. Passed(q, s, r)
    BY <1>3, <1>5, <1>6, <2>1, <2>2 DEF Passed, accept
  <2> QED BY <1>2, <2>3, <2>4, ContainsIsElem DEF r
<1>7. CASE ~accept
  <2>2. r.queue = rest /\ r.accepted = {}
    BY <1>1, <1>7
  <2> HIDE DEF r, rest, accept
  <2>3. Left(q, s, r)
    BY <1>4, <2>2 DEF Left, Without
  <2>4. Passed(q, s, r)
    <3>1. Len(rest) \in Nat
      BY <1>4
    <3> QED BY <1>3, <1>5, <1>7, <2>2, <3>1 DEF Passed, accept
  <2> QED BY <1>2, <2>3, <2>4, ContainsIsElem DEF r
<1> QED BY <1>6, <1>7

-----------------------------------------------------------------------------
(* The sessions of the server. *)

LEMMA AccountOfSession ==
  ASSUME NEW s \in Sessions
  PROVE  Account(s) \in Accounts
BY DEF Sessions, Account

(* An account has one session at a time. *)
LEMMA ListedIsFinite ==
  ASSUME m_sessions \in [Accounts -> Sessions \cup {None}]
  PROVE  IsFiniteSet(Listed) /\ Cardinality(Listed) \in Nat
<1> DEFINE f == [s \in Listed |-> Account(s)]
<1>1. \A s \in Listed : Account(s) \in Accounts
  BY AccountOfSession DEF Listed
<1>2. \A s, t \in Listed : Account(s) = Account(t) => s = t
  BY DEF Listed
<1>3. f \in Injection(Listed, Accounts)
  BY <1>1, <1>2 DEF Injection, IsInjective
<1>4. IsFiniteSet(Listed)
  BY <1>3, FS_Injection, StaffAssumption
<1> QED BY <1>4, FS_CardinalityType

LEMMA ListedSession ==
  ASSUME NEW s \in Sessions
  PROVE  s \in Listed <=> m_sessions[Account(s)] = s
BY DEF Listed

(* s takes the place of the session of its account ... *)
LEMMA Replacing ==
  ASSUME NEW s \in Sessions, OwnSession,
         m_sessions \in [Accounts -> Sessions \cup {None}],
         m_sessions' = [m_sessions EXCEPT ![Account(s)] = s]
  PROVE  /\ m_sessions' \in [Accounts -> Sessions \cup {None}]
         /\ OwnSession'
         /\ Listed' = (Listed \ {m_sessions[Account(s)]}) \cup {s}
         /\ m_sessions[Account(s)] # None => m_sessions[Account(s)] \in Listed
<1>1. Account(s) \in Accounts
  BY AccountOfSession
<1>2. m_sessions' \in [Accounts -> Sessions \cup {None}]
  BY <1>1
<1>3. OwnSession'
  BY <1>1 DEF OwnSession
<1>4. \A t \in Sessions : t \in Listed' <=> m_sessions'[Account(t)] = t
  BY DEF Listed
<1>5. \A t \in Sessions : Account(t) \in Accounts
  BY AccountOfSession
<1>6. \A t \in Sessions : t \in Listed' <=> t \in (Listed \ {m_sessions[Account(s)]}) \cup {s}
  <2> TAKE t \in Sessions
  <2>1. CASE Account(t) = Account(s)
    BY <2>1, <1>1, <1>4, ListedSession
  <2>2. CASE Account(t) # Account(s)
    <3>1. t # m_sessions[Account(s)] /\ t # s
      BY <2>2, <1>1, NoneAssumption DEF OwnSession
    <3> QED BY <2>2, <3>1, <1>1, <1>4, <1>5, ListedSession
  <2> QED BY <2>1, <2>2
<1>7. Listed \subseteq Sessions /\ Listed' \subseteq Sessions
  BY DEF Listed
<1>8. m_sessions[Account(s)] # None => m_sessions[Account(s)] \in Listed
  BY <1>1, NoneAssumption DEF Listed, OwnSession
<1> QED BY <1>2, <1>3, <1>6, <1>7, <1>8

(* ... or leaves it. *)
LEMMA Deleting ==
  ASSUME NEW s \in Listed, OwnSession,
         m_sessions \in [Accounts -> Sessions \cup {None}],
         m_sessions' = [m_sessions EXCEPT ![Account(s)] = None]
  PROVE  /\ m_sessions' \in [Accounts -> Sessions \cup {None}]
         /\ OwnSession'
         /\ Listed' = Listed \ {s}
<1>0. s \in Sessions /\ m_sessions[Account(s)] = s
  BY DEF Listed
<1>1. Account(s) \in Accounts
  BY <1>0, AccountOfSession
<1>2. m_sessions' \in [Accounts -> Sessions \cup {None}]
  BY <1>1
<1>3. OwnSession'
  BY <1>1 DEF OwnSession
<1>4. \A t \in Sessions : t \in Listed' <=> m_sessions'[Account(t)] = t
  BY DEF Listed
<1>5. \A t \in Sessions : Account(t) \in Accounts
  BY AccountOfSession
<1>6. \A t \in Sessions : t \in Listed' <=> t \in Listed \ {s}
  BY <1>0, <1>1, <1>4, <1>5, ListedSession, NoneAssumption
<1>7. Listed \subseteq Sessions /\ Listed' \subseteq Sessions
  BY DEF Listed
<1> QED BY <1>2, <1>3, <1>6, <1>7

LEMMA ArrivingIsElems ==
  ASSUME addSessQueue \in Seq(Sessions)
  PROVE  Arriving = Elems(addSessQueue)
BY DEF Arriving, Elems

LEMMA QueuedIsElems ==
  ASSUME m_QueuedPlayer \in Seq(Sessions)
  PROVE  Queued = Elems(m_QueuedPlayer)
BY DEF Queued, Elems

LEMMA EmptyQueue ==
  <<>> \in Seq(Sessions) /\ Distinct(<<>>) /\ Elems(<<>>) = {}
BY DEF Distinct, Elems

-----------------------------------------------------------------------------
(* The invariant is inductive: one lemma per action. *)

LEMMA WorldInitHolds == WorldInit => WorldIInv
<1> SUFFICES ASSUME WorldInit PROVE WorldIInv
  OBVIOUS
<1> USE DEF WorldInit
<1>1. Listed = {}
  BY AccountOfSession, NoneAssumption DEF Listed
<1>2. WorldTypeOK
  BY <1>1, EmptyQueue DEF WorldTypeOK
<1>3. OwnSession
  BY DEF OwnSession
<1>4. ArrivedOnce /\ Waiting /\ Accounted
  BY <1>1, EmptyQueue DEF ArrivedOnce, Waiting, Accounted
<1> QED BY <1>2, <1>3, <1>4 DEF WorldIInv

(* What a step leaves alone when no session comes, waits or goes. *)
LEMMA SameSessions ==
  ASSUME UNCHANGED <<addSessQueue, m_sessions, m_QueuedPlayer>>
  PROVE  /\ Listed' = Listed /\ Arriving' = Arriving
         /\ OwnSession => OwnSession'
         /\ ArrivedOnce => ArrivedOnce'
BY DEF Listed, Arriving, OwnSession, ArrivedOnce

LEMMA AddSessionHolds ==
  ASSUME WorldIInv, NEW s \in Sessions, AddSession(s)
  PROVE  WorldIInv'
<1> USE DEF AddSession
<1>1. Listed' = Listed /\ (OwnSession => OwnSession')
  BY DEF Listed, OwnSession
<1>2. Arriving = Elems(addSessQueue) /\ Distinct(addSessQueue)
  BY ArrivingIsElems DEF WorldIInv, WorldTypeOK, ArrivedOnce
<1>3. /\ addSessQueue' \in Seq(Sessions) /\ Distinct(addSessQueue')
      /\ Elems(addSessQueue') = Elems(addSessQueue) \cup {s}
  BY <1>2, AppendFacts DEF WorldIInv, WorldTypeOK
<1>4. Arriving' = Arriving \cup {s}
  <2>1. Arriving' = Elems(addSessQueue')
    BY <1>3 DEF Arriving, Elems
  <2> QED BY <2>1, <1>2, <1>3
<1>5. WorldTypeOK'
  BY <1>1, <1>3, <1>4 DEF WorldIInv, WorldTypeOK
<1>6. ArrivedOnce'
  BY <1>1, <1>2, <1>3 DEF WorldIInv, ArrivedOnce
<1>7. Waiting' /\ Accounted'
  BY <1>1 DEF WorldIInv, Waiting, Accounted
<1> QED BY <1>1, <1>5, <1>6, <1>7 DEF WorldIInv

(* The actions that change only what is known of the sessions. *)
LEMMA QuietStepHolds ==
  ASSUME WorldIInv,
         UNCHANGED <<addSessQueue, m_sessions, m_QueuedPlayer>>,
         m_disconnects' = m_disconnects, m_playerLimit' \in PlayerLimits,
         open' \subseteq open, admitted' = admitted,
         initialising' \subseteq initialising,
         inQueue' \subseteq inQueue, inQueue \ inQueue' \subseteq initialising,
         loading' \subseteq loading \cup (Listed \ inQueue)
  PROVE  WorldIInv'
<1>1. /\ Listed' = Listed /\ Arriving' = Arriving
      /\ OwnSession' /\ ArrivedOnce'
  BY SameSessions DEF WorldIInv
<1>2. WorldTypeOK'
  BY <1>1 DEF WorldIInv, WorldTypeOK
<1>3. Waiting'
  BY <1>1 DEF WorldIInv, Waiting
<1>4. Accounted'
  BY <1>1 DEF WorldIInv, Accounted
<1> QED BY <1>1, <1>2, <1>3, <1>4 DEF WorldIInv

LEMMA KickAllHolds ==
  ASSUME WorldIInv, KickAll
  PROVE  WorldIInv'
<1> USE DEF KickAll
<1>1. Listed' = Listed /\ Arriving' = Arriving /\ OwnSession' /\ ArrivedOnce'
  BY DEF Listed, Arriving, OwnSession, ArrivedOnce, WorldIInv
<1>2. WorldTypeOK'
  BY <1>1, EmptyQueue DEF WorldIInv, WorldTypeOK
<1>3. Waiting' /\ Accounted'
  BY <1>1, EmptyQueue DEF WorldIInv, Waiting, Accounted
<1> QED BY <1>1, <1>2, <1>3 DEF WorldIInv

(* The head of addSessQueue is taken. *)
LEMMA TakingArrival ==
  ASSUME WorldIInv, addSessQueue # <<>>, addSessQueue' = Tail(addSessQueue)
  PROVE  /\ addSessQueue' \in Seq(Sessions) /\ Distinct(addSessQueue')
         /\ Elems(addSessQueue') = Elems(addSessQueue) \ {Head(addSessQueue)}
         /\ Arriving = Elems(addSessQueue) /\ Arriving' = Elems(addSessQueue')
         /\ Head(addSessQueue) \in Arriving /\ Head(addSessQueue) \in Sessions
         /\ Head(addSessQueue) \notin Listed
<1>1. addSessQueue \in Seq(Sessions) /\ Distinct(addSessQueue)
  BY DEF WorldIInv, WorldTypeOK, ArrivedOnce
<1>2. /\ Without(addSessQueue', addSessQueue, {Head(addSessQueue)})
      /\ Head(addSessQueue) \in Elems(addSessQueue)
  BY <1>1, TailFacts
<1>3. addSessQueue' \in Seq(Sessions)
  BY <1>2 DEF Without
<1>4. Arriving = Elems(addSessQueue)
  BY <1>1, ArrivingIsElems
<1>5. Arriving' = Elems(addSessQueue')
  BY <1>3 DEF Arriving, Elems
<1>6. Head(addSessQueue) \in Sessions
  BY <1>1
<1>7. Head(addSessQueue) \notin Listed
  BY <1>2 DEF WorldIInv, ArrivedOnce
<1> QED BY <1>2, <1>4, <1>5, <1>6, <1>7 DEF Without

LEMMA AddSessionRefusedHolds ==
  ASSUME WorldIInv, AddSessionRefused
  PROVE  WorldIInv'
<1> USE DEF AddSessionRefused
<1>1. Listed' = Listed /\ OwnSession'
  BY DEF Listed, OwnSession, WorldIInv
<1>2. WorldTypeOK'
  BY <1>1, TakingArrival DEF WorldIInv, WorldTypeOK
<1>3. ArrivedOnce'
  BY <1>1, TakingArrival DEF WorldIInv, ArrivedOnce
<1>4. Waiting' /\ Accounted'
  BY <1>1 DEF WorldIInv, Waiting, Accounted
<1> QED BY <1>1, <1>2, <1>3, <1>4 DEF WorldIInv

(* The queue and the accepted once s has left for good. *)
LeavingTwice(s) ==
  LET r1 == RemoveQueuedPlayer(m_QueuedPlayer, s)
      r2 == RemoveQueuedPlayer(r1.queue, s)
  IN [queue |-> r2.queue, accepted |-> r1.accepted \cup r2.accepted]

LEMMA LeavingTwiceFacts ==
  ASSUME m_QueuedPlayer \in Seq(Sessions), Distinct(m_QueuedPlayer), NEW s
  PROVE  LET r == LeavingTwice(s)
         IN  /\ Without(r.queue, m_QueuedPlayer, {s} \cup r.accepted)
             /\ r.accepted \subseteq Elems(m_QueuedPlayer) \ {s}
<1> DEFINE r1 == RemoveQueuedPlayer(m_QueuedPlayer, s)
           r2 == RemoveQueuedPlayer(r1.queue, s)
           r == LeavingTwice(s)
<1>1. Left(m_QueuedPlayer, s, r1)
  BY Leaving
<1>2. r1.queue \in Seq(Sessions) /\ Distinct(r1.queue)
  BY <1>1 DEF Left, Without
<1>3. Left(r1.queue, s, r2)
  BY <1>2, Leaving
<1>4. r.queue = r2.queue /\ r.accepted = r1.accepted \cup r2.accepted
  BY DEF LeavingTwice
<1> HIDE DEF r1, r2, r
<1>5. /\ Without(r.queue, m_QueuedPlayer, {s} \cup r.accepted)
      /\ r.accepted \subseteq Elems(m_QueuedPlayer) \ {s}
  BY <1>1, <1>3, <1>4 DEF Left, Without
<1> QED BY <1>5 DEF r

LEMMA UpdateRemovesHolds ==
  ASSUME WorldIInv, NEW s \in Sessions, UpdateRemoves(s)
  PROVE  WorldIInv'
<1> DEFINE r == LeavingTwice(s)
<1>1. /\ s \in Listed \ open
      /\ m_QueuedPlayer' = r.queue
      /\ initialising' = (initialising \cup r.accepted) \ {s}
      /\ admitted' = (admitted \cup r.accepted) \ {s}
      /\ m_sessions' = [m_sessions EXCEPT ![Account(s)] = None]
      /\ inQueue' = inQueue \ {s} /\ loading' = loading \ {s}
      /\ UNCHANGED <<addSessQueue, m_playerLimit, open>>
  BY DEF UpdateRemoves, LeavingTwice
<1>2. /\ Without(r.queue, m_QueuedPlayer, {s} \cup r.accepted)
      /\ r.accepted \subseteq Elems(m_QueuedPlayer) \ {s}
  BY LeavingTwiceFacts DEF WorldIInv, WorldTypeOK, Waiting
<1>3. m_disconnects' \subseteq Accounts
  BY AccountOfSession DEF UpdateRemoves, WorldIInv, WorldTypeOK
<1>4. /\ m_sessions' \in [Accounts -> Sessions \cup {None}] /\ OwnSession'
      /\ Listed' = Listed \ {s}
  BY <1>1, Deleting DEF WorldIInv, WorldTypeOK
<1> HIDE DEF r
<1>5. Arriving' = Arriving
  BY <1>1 DEF Arriving
<1>6. Elems(m_QueuedPlayer) \subseteq Listed
  BY DEF WorldIInv, Waiting
<1>7. WorldTypeOK'
  BY <1>1, <1>2, <1>3, <1>4, <1>5, <1>6 DEF WorldIInv, WorldTypeOK, Without
<1>8. ArrivedOnce'
  BY <1>1, <1>4 DEF WorldIInv, ArrivedOnce
<1>9. Waiting'
  BY <1>1, <1>2, <1>4 DEF WorldIInv, Waiting, Without
<1>10. Accounted'
  BY <1>1, <1>2, <1>4 DEF WorldIInv, Accounted, Without
<1> QED BY <1>4, <1>7, <1>8, <1>9, <1>10 DEF WorldIInv

(* What the arrival of s does to the queue when it replaces old. *)
LEMMA LeaveQueueFacts ==
  ASSUME m_QueuedPlayer \in Seq(Sessions), Distinct(m_QueuedPlayer), NEW old
  PROVE  LET r == LeaveQueue(old)
         IN Left(m_QueuedPlayer, old, r) /\ (r.found <=> old \in Elems(m_QueuedPlayer))
<1>1. CASE old = None
  <2> DEFINE r == LeaveQueue(old)
  <2>1. r.queue = m_QueuedPlayer /\ r.accepted = {}
    BY <1>1 DEF LeaveQueue
  <2>2. r.found = FALSE
    BY <1>1 DEF LeaveQueue
  <2>3. old \notin Elems(m_QueuedPlayer)
    BY <1>1, NoneAssumption DEF Elems
  <2> HIDE DEF r
  <2>4. Left(m_QueuedPlayer, old, r)
    BY <2>1, <2>3 DEF Left, Without
  <2> QED BY <2>2, <2>3, <2>4 DEF r
<1>2. CASE old # None
  BY <1>2, Leaving DEF LeaveQueue
<1> QED BY <1>1, <1>2

(* The names AddSession_ gives to the session that comes and to what it finds. *)
NewOne == Head(addSessQueue)
OldOne == m_sessions[Account(NewOne)]
Parting == LeaveQueue(OldOne)
SessionsThen ==
  Cardinality((Listed \ {OldOne}) \cup {NewOne}) - IF Parting.found THEN 0 ELSE 1
NewOneWaits == MustWait(NewOne, SessionsThen)

LEMMA ArrivalStep ==
  ASSUME AddSession_
  PROVE  /\ addSessQueue # <<>> /\ addSessQueue' = Tail(addSessQueue)
         /\ OldOne \notin loading
         /\ m_sessions' = [m_sessions EXCEPT ![Account(NewOne)] = NewOne]
         /\ open' = open \ {OldOne}
         /\ UNCHANGED <<m_disconnects, m_playerLimit, loading>>
         /\ NewOneWaits =>
              /\ m_QueuedPlayer' = Append(Parting.queue, NewOne)
              /\ inQueue' = (inQueue \ {OldOne}) \cup {NewOne}
              /\ initialising' = (initialising \ {OldOne}) \cup Parting.accepted
              /\ admitted' = (admitted \ {OldOne}) \cup Parting.accepted
         /\ ~NewOneWaits =>
              /\ m_QueuedPlayer' = Parting.queue
              /\ inQueue' = inQueue \ {OldOne}
              /\ initialising' = (initialising \ {OldOne}) \cup Parting.accepted \cup {NewOne}
              /\ admitted' = (admitted \ {OldOne}) \cup Parting.accepted \cup {NewOne}
BY DEF AddSession_, NewOne, OldOne, Parting, SessionsThen, NewOneWaits

(* Who comes, whom it replaces and what becomes of the queue. *)
LEMMA ArrivalFacts ==
  ASSUME WorldIInv, AddSession_
  PROVE  /\ NewOne \in Sessions /\ NewOne \notin Listed /\ NewOne \in Arriving
         /\ NewOne # OldOne /\ (OldOne # None => OldOne \in Listed)
         /\ Listed' = (Listed \ {OldOne}) \cup {NewOne}
         /\ m_sessions' \in [Accounts -> Sessions \cup {None}] /\ OwnSession'
         /\ Left(m_QueuedPlayer, OldOne, Parting)
         /\ Parting.found <=> OldOne \in Elems(m_QueuedPlayer)
         /\ Elems(m_QueuedPlayer) \subseteq Listed
<1>1. NewOne \in Sessions /\ NewOne \notin Listed /\ NewOne \in Arriving
  BY ArrivalStep, TakingArrival DEF NewOne
<1>2. /\ Listed' = (Listed \ {OldOne}) \cup {NewOne}
      /\ m_sessions' \in [Accounts -> Sessions \cup {None}] /\ OwnSession'
      /\ OldOne # None => OldOne \in Listed
  BY <1>1, ArrivalStep, Replacing DEF WorldIInv, WorldTypeOK, OldOne
<1>3. NewOne # OldOne
  BY <1>1, <1>2, NoneAssumption
<1>4. /\ Left(m_QueuedPlayer, OldOne, Parting)
      /\ Parting.found <=> OldOne \in Elems(m_QueuedPlayer)
  BY LeaveQueueFacts DEF WorldIInv, WorldTypeOK, Waiting, Parting
<1>5. Elems(m_QueuedPlayer) \subseteq Listed
  BY DEF WorldIInv, Waiting
<1> QED BY <1>1, <1>2, <1>3, <1>4, <1>5

LEMMA AddSession_Holds ==
  ASSUME WorldIInv, AddSession_
  PROVE  WorldIInv'
<1>1. /\ addSessQueue' \in Seq(Sessions) /\ Distinct(addSessQueue')
      /\ Elems(addSessQueue') = Elems(addSessQueue) \ {NewOne}
      /\ Arriving' = Arriving \ {NewOne}
  BY ArrivalStep, TakingArrival DEF NewOne
<1>2. ArrivedOnce'
  BY <1>1, ArrivalFacts DEF WorldIInv, ArrivedOnce
<1>3. /\ Parting.queue \in Seq(Sessions) /\ Distinct(Parting.queue)
      /\ Elems(Parting.queue) = Elems(m_QueuedPlayer) \ ({OldOne} \cup Parting.accepted)
      /\ Parting.accepted \subseteq Elems(m_QueuedPlayer) \ {OldOne}
  BY ArrivalFacts DEF Left, Without
<1>4. CASE NewOneWaits
  <2>1. /\ m_QueuedPlayer' \in Seq(Sessions) /\ Distinct(m_QueuedPlayer')
        /\ Elems(m_QueuedPlayer') = Elems(Parting.queue) \cup {NewOne}
    BY <1>3, <1>4, ArrivalFacts, ArrivalStep, AppendFacts
  <2>2. WorldTypeOK'
    BY <1>1, <1>3, <1>4, <2>1, ArrivalFacts, ArrivalStep DEF WorldIInv, WorldTypeOK
  <2>3. Waiting'
    BY <1>3, <1>4, <2>1, ArrivalFacts, ArrivalStep DEF WorldIInv, WorldTypeOK, Waiting
  <2>4. Accounted'
    BY <1>3, <1>4, <2>1, ArrivalFacts, ArrivalStep DEF WorldIInv, Accounted
  <2> QED BY <1>2, <2>2, <2>3, <2>4, ArrivalFacts DEF WorldIInv
<1>5. CASE ~NewOneWaits
  <2>1. m_QueuedPlayer' = Parting.queue
    BY <1>5, ArrivalStep
  <2>2. WorldTypeOK'
    BY <1>1, <1>3, <1>5, <2>1, ArrivalFacts, ArrivalStep DEF WorldIInv, WorldTypeOK
  <2>3. Waiting'
    BY <1>3, <1>5, <2>1, ArrivalFacts, ArrivalStep DEF WorldIInv, WorldTypeOK, Waiting
  <2>4. Accounted'
    BY <1>3, <1>5, <2>1, ArrivalFacts, ArrivalStep DEF WorldIInv, Accounted
  <2> QED BY <1>2, <2>2, <2>3, <2>4, ArrivalFacts DEF WorldIInv
<1> QED BY <1>4, <1>5

LEMMA WorldIInvInductive == WorldIInv /\ [WorldNext]_worldVars => WorldIInv'
<1> SUFFICES ASSUME WorldIInv, [WorldNext]_worldVars PROVE WorldIInv'
  OBVIOUS
<1>1. ASSUME NEW s \in Sessions, AddSession(s) PROVE WorldIInv'
  BY <1>1, AddSessionHolds
<1>2. ASSUME NEW s \in Sessions, UpdateRemoves(s) PROVE WorldIInv'
  BY <1>2, UpdateRemovesHolds
<1>3. ASSUME NEW s \in Sessions, SocketCloses(s) PROVE WorldIInv'
  BY <1>3, QuietStepHolds DEF SocketCloses, WorldIInv, WorldTypeOK
<1>4. ASSUME NEW s \in Sessions, InitializeSessionCallback(s) PROVE WorldIInv'
  BY <1>4, QuietStepHolds DEF InitializeSessionCallback, WorldIInv, WorldTypeOK
<1>5. ASSUME NEW s \in Sessions, HandlePlayerLogin(s) PROVE WorldIInv'
  BY <1>5, QuietStepHolds DEF HandlePlayerLogin, WorldIInv, WorldTypeOK
<1>6. ASSUME NEW s \in Sessions, PlayerLoaded(s) PROVE WorldIInv'
  BY <1>6, QuietStepHolds DEF PlayerLoaded, WorldIInv, WorldTypeOK
<1>7. ASSUME NEW l \in PlayerLimits, SetPlayerAmountLimit(l) PROVE WorldIInv'
  BY <1>7, QuietStepHolds DEF SetPlayerAmountLimit, WorldIInv, WorldTypeOK
<1>8. CASE UNCHANGED worldVars
  BY <1>8, QuietStepHolds DEF worldVars, WorldIInv, WorldTypeOK
<1> QED BY <1>1, <1>2, <1>3, <1>4, <1>5, <1>6, <1>7, <1>8, AddSessionRefusedHolds,
           AddSession_Holds, KickAllHolds DEF WorldNext

(* Type correctness: the queues, the list of sessions and the flags of the   *)
(* sessions only ever hold sessions that exist.                              *)
THEOREM WorldTypeCorrect == WorldSpec => []WorldTypeOK
<1>1. WorldInit => WorldIInv
  BY WorldInitHolds
<1>2. WorldIInv /\ [WorldNext]_worldVars => WorldIInv'
  BY WorldIInvInductive
<1>3. WorldIInv => WorldTypeOK
  BY DEF WorldIInv
<1> QED BY <1>1, <1>2, <1>3, PTL DEF WorldSpec

(* QueueIsSound: the queue points to existing sessions, each once, none of   *)
(* them loads a player, and no open session is forgotten, however sessions   *)
(* replace each other, are kicked or leave.                                  *)
THEOREM LoginQueueIsSound == WorldSpec => []QueueIsSound
<1>1. WorldInit => WorldIInv
  BY WorldInitHolds
<1>2. WorldIInv /\ [WorldNext]_worldVars => WorldIInv'
  BY WorldIInvInductive
<1>3. WorldIInv => QueueIsSound
  <2> SUFFICES ASSUME WorldIInv PROVE QueueIsSound
    OBVIOUS
  <2>1. Queued = Elems(m_QueuedPlayer)
    BY QueuedIsElems DEF WorldIInv, WorldTypeOK
  <2>2. Cardinality(Elems(m_QueuedPlayer)) = Len(m_QueuedPlayer)
    BY CountDistinct DEF WorldIInv, WorldTypeOK, Waiting
  <2>3. QueuedSessionsAreListed
    BY <2>1, <2>2 DEF WorldIInv, Waiting, QueuedSessionsAreListed
  <2>4. NobodyPlaysFromTheQueue /\ NobodyIsForgotten
    BY <2>1 DEF WorldIInv, Waiting, Accounted, NobodyPlaysFromTheQueue, NobodyIsForgotten
  <2> QED BY <2>3, <2>4 DEF QueueIsSound
<1> QED BY <1>1, <1>2, <1>3, PTL DEF WorldSpec

-----------------------------------------------------------------------------
(* Counting sessions: n are listed, l of them wait. *)

LEMMA CountOutside ==
  ASSUME NEW A, IsFiniteSet(A), NEW q \in Seq(Sessions), Distinct(q), Elems(q) \subseteq A,
         NEW X, X \subseteq A \ Elems(q)
  PROVE  /\ Cardinality(X) \in Nat
         /\ Cardinality(A) \in Nat /\ Len(q) \in Nat
         /\ Cardinality(X) <= Cardinality(A) - Len(q)
<1>1. IsFiniteSet(A \ Elems(q)) /\ Cardinality(A \ Elems(q)) = Cardinality(A) - Cardinality(A \cap Elems(q))
  BY FS_Difference
<1>2. A \cap Elems(q) = Elems(q)
  OBVIOUS
<1>3. Cardinality(Elems(q)) = Len(q)
  BY CountDistinct
<1>4. IsFiniteSet(X) /\ Cardinality(X) <= Cardinality(A \ Elems(q))
  BY <1>1, FS_Subset
<1>5. Cardinality(X) \in Nat /\ Cardinality(A) \in Nat /\ Len(q) \in Nat
  BY <1>4, FS_CardinalityType
<1> QED BY <1>1, <1>2, <1>3, <1>4, <1>5

(* ... with one more outside the queue and outside X. *)
LEMMA CountOutsideBut ==
  ASSUME NEW A, IsFiniteSet(A), NEW q \in Seq(Sessions), Distinct(q), Elems(q) \subseteq A,
         NEW x \in A \ Elems(q),
         NEW X, X \subseteq (A \ Elems(q)) \ {x}
  PROVE  Cardinality(X) \in Nat /\ Cardinality(X) + 1 <= Cardinality(A) - Len(q)
<1>1. Cardinality(X \cup {x}) <= Cardinality(A) - Len(q)
  <2>1. X \cup {x} \subseteq A \ Elems(q)
    OBVIOUS
  <2> QED BY <2>1, CountOutside
<1>2. IsFiniteSet(X)
  <2>1. IsFiniteSet(A \ Elems(q))
    BY FS_Difference
  <2> QED BY <2>1, FS_Subset
<1>3. Cardinality(X \cup {x}) = Cardinality(X) + 1
  BY <1>2, FS_AddElement
<1> QED BY <1>1, <1>2, <1>3, FS_CardinalityType

(* No more sessions wait than are listed, and one that is listed and does    *)
(* not wait is one more.                                                     *)
LEMMA Counts ==
  ASSUME WorldIInv
  PROVE  /\ IsFiniteSet(Listed)
         /\ Cardinality(Listed) \in Nat /\ Len(m_QueuedPlayer) \in Nat
         /\ Len(m_QueuedPlayer) <= Cardinality(Listed)
         /\ \A s \in Listed \ Elems(m_QueuedPlayer) : Len(m_QueuedPlayer) + 1 <= Cardinality(Listed)
         /\ m_playerLimit \in Nat
<1>1. /\ IsFiniteSet(Listed) /\ m_QueuedPlayer \in Seq(Sessions) /\ Distinct(m_QueuedPlayer)
      /\ Elems(m_QueuedPlayer) \subseteq Listed
  BY ListedIsFinite DEF WorldIInv, WorldTypeOK, Waiting
<1>2. Cardinality({}) = 0
  BY FS_EmptySet
<1>3. /\ Cardinality(Listed) \in Nat /\ Len(m_QueuedPlayer) \in Nat
      /\ 0 <= Cardinality(Listed) - Len(m_QueuedPlayer)
  BY <1>1, <1>2, CountOutside
<1>4. ASSUME NEW s \in Listed \ Elems(m_QueuedPlayer)
      PROVE  Len(m_QueuedPlayer) + 1 <= Cardinality(Listed)
  <2>1. {} \subseteq (Listed \ Elems(m_QueuedPlayer)) \ {s}
    OBVIOUS
  <2>2. 0 + 1 <= Cardinality(Listed) - Len(m_QueuedPlayer)
    BY <1>1, <1>2, <1>4, <2>1, CountOutsideBut
  <2> QED BY <1>3, <2>2
<1>5. m_playerLimit \in Nat
  BY LimitAssumption DEF WorldIInv, WorldTypeOK
<1> QED BY <1>1, <1>3, <1>4, <1>5

(* The counts when s is deleted by Update. *)
LEMMA UpdateCounts ==
  ASSUME WorldIInv, NEW s \in Sessions, UpdateRemoves(s)
  PROVE  LET r1 == RemoveQueuedPlayer(m_QueuedPlayer, s)
             r2 == RemoveQueuedPlayer(r1.queue, s)
         IN  /\ Cardinality(Listed') = Cardinality(Listed) - 1
             /\ m_QueuedPlayer' = r2.queue
             /\ admitted' = (admitted \cup r1.accepted \cup r2.accepted) \ {s}
             /\ r1.accepted \cup r2.accepted \subseteq Elems(m_QueuedPlayer)
             /\ Len(r1.queue) \in Nat /\ Len(r2.queue) \in Nat
             /\ Passed(m_QueuedPlayer, s, r1) /\ Passed(r1.queue, s, r2)
             /\ ~Contains(r1.queue, s)
             /\ ~Contains(m_QueuedPlayer, s) => Len(m_QueuedPlayer) + 1 <= Cardinality(Listed)
<1> DEFINE r1 == RemoveQueuedPlayer(m_QueuedPlayer, s)
           r2 == RemoveQueuedPlayer(r1.queue, s)
<1>1. Left(m_QueuedPlayer, s, r1) /\ Passed(m_QueuedPlayer, s, r1)
  BY Leaving DEF WorldIInv, WorldTypeOK, Waiting
<1>2. r1.queue \in Seq(Sessions) /\ Distinct(r1.queue) /\ s \notin Elems(r1.queue)
  BY <1>1 DEF Left, Without
<1>3. Left(r1.queue, s, r2) /\ Passed(r1.queue, s, r2)
  BY <1>2, Leaving
<1>4. /\ m_QueuedPlayer' = r2.queue /\ s \in Listed
      /\ admitted' = (admitted \cup r1.accepted \cup r2.accepted) \ {s}
  BY DEF UpdateRemoves
<1>5. Listed' = Listed \ {s}
  BY Deleting DEF UpdateRemoves, WorldIInv, WorldTypeOK
<1>6. Cardinality(Listed') = Cardinality(Listed) - 1
  BY <1>4, <1>5, Counts, FS_RemoveElement
<1>7. ~Contains(m_QueuedPlayer, s) => Len(m_QueuedPlayer) + 1 <= Cardinality(Listed)
  BY <1>4, Counts, ContainsIsElem
<1>8. ~Contains(r1.queue, s)
  BY <1>2, ContainsIsElem
<1> HIDE DEF r1, r2
<1>9. Len(r1.queue) \in Nat /\ Len(r2.queue) \in Nat
  BY <1>2, <1>3 DEF Left, Without
<1>10. r1.accepted \cup r2.accepted \subseteq Elems(m_QueuedPlayer)
  BY <1>1, <1>3 DEF Left, Without
<1> QED BY <1>1, <1>3, <1>4, <1>6, <1>7, <1>8, <1>9, <1>10 DEF r1, r2

(* The counts when a session arrives. *)
LEMMA ArrivalCounts ==
  ASSUME WorldIInv, AddSession_
  PROVE  /\ Cardinality(Listed') = IF OldOne = None THEN Cardinality(Listed) + 1
                                                    ELSE Cardinality(Listed)
         /\ SessionsThen = Cardinality(Listed')
                             - (IF Contains(m_QueuedPlayer, OldOne) THEN 0 ELSE 1)
         /\ OldOne = None => /\ Parting.queue = m_QueuedPlayer /\ Parting.accepted = {}
                             /\ ~Contains(m_QueuedPlayer, OldOne)
         /\ OldOne # None => Passed(m_QueuedPlayer, OldOne, Parting)
         /\ OldOne # None /\ ~Contains(m_QueuedPlayer, OldOne) =>
              Len(m_QueuedPlayer) + 1 <= Cardinality(Listed)
         /\ Len(Parting.queue) \in Nat
         /\ NewOneWaits => Len(m_QueuedPlayer') = Len(Parting.queue) + 1
         /\ ~NewOneWaits => m_QueuedPlayer' = Parting.queue
<1>1. None \notin Listed
  BY NoneAssumption DEF Listed
<1>2. Cardinality(Listed') = IF OldOne = None THEN Cardinality(Listed) + 1
                                              ELSE Cardinality(Listed)
  <2>1. CASE OldOne = None
    <3>1. Listed' = Listed \cup {NewOne} /\ NewOne \notin Listed
      BY <1>1, <2>1, ArrivalFacts
    <3> QED BY <2>1, <3>1, Counts, FS_AddElement
  <2>2. CASE OldOne # None
    <3> DEFINE B == Listed \ {OldOne}
    <3>1. OldOne \in Listed /\ Listed' = B \cup {NewOne} /\ NewOne \notin B
      BY <2>2, ArrivalFacts
    <3>2. IsFiniteSet(B) /\ Cardinality(B) = Cardinality(Listed) - 1
      BY <3>1, Counts, FS_RemoveElement
    <3> HIDE DEF B
    <3>3. Cardinality(Listed') = Cardinality(B) + 1
      BY <3>1, <3>2, FS_AddElement
    <3> QED BY <2>2, <3>2, <3>3, Counts
  <2> QED BY <2>1, <2>2
<1>3. Parting.found <=> Contains(m_QueuedPlayer, OldOne)
  BY ArrivalFacts, ContainsIsElem
<1>4. SessionsThen = Cardinality(Listed')
                       - (IF Contains(m_QueuedPlayer, OldOne) THEN 0 ELSE 1)
  BY <1>3, ArrivalFacts DEF SessionsThen
<1>5. ASSUME OldOne = None
      PROVE  /\ Parting.queue = m_QueuedPlayer /\ Parting.accepted = {}
             /\ ~Contains(m_QueuedPlayer, OldOne)
  <2>1. Parting.queue = m_QueuedPlayer /\ Parting.accepted = {}
    BY <1>5 DEF Parting, LeaveQueue
  <2>2. ~Contains(m_QueuedPlayer, OldOne)
    BY <1>1, <1>5, ArrivalFacts, ContainsIsElem
  <2> QED BY <2>1, <2>2
<1>6. OldOne # None => Passed(m_QueuedPlayer, OldOne, Parting)
  BY Leaving DEF WorldIInv, WorldTypeOK, Waiting, Parting, LeaveQueue
<1>7. OldOne # None /\ ~Contains(m_QueuedPlayer, OldOne) =>
        Len(m_QueuedPlayer) + 1 <= Cardinality(Listed)
  BY ArrivalFacts, Counts, ContainsIsElem
<1>8. /\ Parting.queue \in Seq(Sessions)
  BY ArrivalFacts DEF Left, Without
<1>9. NewOneWaits => Len(m_QueuedPlayer') = Len(Parting.queue) + 1
  BY <1>8, ArrivalStep, ArrivalFacts
<1>10. ~NewOneWaits => m_QueuedPlayer' = Parting.queue
  BY ArrivalStep
<1> QED BY <1>2, <1>4, <1>5, <1>6, <1>7, <1>8, <1>9, <1>10

(* The other steps admit nobody, and change the queue only to empty it. *)
Idle ==
  /\ admitted' \subseteq admitted
  /\ Listed' = Listed
  /\ m_playerLimit' # m_playerLimit \/ m_QueuedPlayer' \in {m_QueuedPlayer, <<>>}

LEMMA StepKinds ==
  ASSUME WorldIInv, [WorldNext]_worldVars
  PROVE  AddSession_ \/ (\E s \in Sessions : UpdateRemoves(s)) \/ Idle
<1>1. ASSUME NEW s \in Sessions, AddSession(s) PROVE Idle
  BY <1>1 DEF AddSession, Idle, Listed
<1>2. ASSUME NEW s \in Sessions, SocketCloses(s) PROVE Idle
  BY <1>2 DEF SocketCloses, Idle, Listed
<1>3. ASSUME NEW s \in Sessions, InitializeSessionCallback(s) PROVE Idle
  BY <1>3 DEF InitializeSessionCallback, Idle, Listed
<1>4. ASSUME NEW s \in Sessions, HandlePlayerLogin(s) PROVE Idle
  BY <1>4 DEF HandlePlayerLogin, Idle, Listed
<1>5. ASSUME NEW s \in Sessions, PlayerLoaded(s) PROVE Idle
  BY <1>5 DEF PlayerLoaded, Idle, Listed
<1>6. ASSUME NEW l \in PlayerLimits, SetPlayerAmountLimit(l) PROVE Idle
  BY <1>6 DEF SetPlayerAmountLimit, Idle, Listed
<1>7. ASSUME AddSessionRefused PROVE Idle
  BY <1>7 DEF AddSessionRefused, Idle, Listed
<1>8. ASSUME KickAll PROVE Idle
  BY <1>8 DEF KickAll, Idle, Listed
<1>9. ASSUME UNCHANGED worldVars PROVE Idle
  BY <1>9 DEF worldVars, Idle, Listed
<1> QED BY <1>1, <1>2, <1>3, <1>4, <1>5, <1>6, <1>7, <1>8, <1>9 DEF WorldNext

-----------------------------------------------------------------------------
(* Free slots are passed on. *)

SlotFilled ==
  (m_playerLimit' = m_playerLimit /\ (m_QueuedPlayer # <<>> => ServerIsFull)) =>
    (m_QueuedPlayer' # <<>> => ServerIsFull')

LEMMA EmptyIsShort ==
  ASSUME NEW q \in Seq(Sessions)
  PROVE  Len(q) \in Nat /\ (q # <<>> <=> Len(q) > 0)
OBVIOUS

LEMMA ArrivalFillsSlot ==
  ASSUME WorldIInv, WorldIInv', AddSession_
  PROVE  SlotFilled
<1> SUFFICES ASSUME m_QueuedPlayer # <<>> => ServerIsFull, m_QueuedPlayer' # <<>>
             PROVE  ServerIsFull'
  BY DEF SlotFilled
<1>1. m_playerLimit' = m_playerLimit
  BY ArrivalStep
<1> DEFINE n == Cardinality(Listed)
           l == Len(m_QueuedPlayer)
           n2 == Cardinality(Listed')
           l2 == Len(m_QueuedPlayer')
<1>2. /\ n \in Nat /\ l \in Nat /\ l <= n /\ m_playerLimit \in Nat
      /\ n2 \in Nat /\ l2 \in Nat /\ l2 <= n2 /\ l2 > 0
  <2>1. IsFiniteSet(Listed)' /\ (Cardinality(Listed) \in Nat)' /\ (Len(m_QueuedPlayer) \in Nat)'
        /\ (Len(m_QueuedPlayer) <= Cardinality(Listed))'
    BY Counts, PTL
  <2>2. m_QueuedPlayer' \in Seq(Sessions)
    BY DEF WorldIInv, WorldTypeOK
  <2>3. l2 > 0
    BY <2>2, EmptyIsShort
  <2> QED BY <2>1, <2>3, Counts
<1>3. l > 0 => n - l >= m_playerLimit
  BY EmptyIsShort DEF WorldIInv, WorldTypeOK, ServerIsFull, GetActiveAndQueuedSessionCount
<1>4. NewOneWaits => SessionsThen >= m_playerLimit
  BY DEF NewOneWaits, MustWait
<1>5. n2 - l2 >= m_playerLimit
  <2>1. CASE m_playerLimit = 0
    BY <2>1, <1>2
  <2>2. CASE m_playerLimit # 0 /\ OldOne = None
    BY <2>2, <1>2, <1>3, <1>4, ArrivalCounts
  <2>3. CASE m_playerLimit # 0 /\ OldOne # None
    <3> DEFINE l1 == Len(Parting.queue)
    <3>1. /\ n2 = n /\ l1 \in Nat /\ Passed(m_QueuedPlayer, OldOne, Parting)
          /\ l2 = l1 \/ (l2 = l1 + 1 /\ SessionsThen >= m_playerLimit)
      BY <2>3, <1>4, ArrivalCounts
    <3>2. CASE Contains(m_QueuedPlayer, OldOne)
      <4>1. l > 0 /\ l1 <= l - 1
        BY <3>1, <3>2, <1>2 DEF Passed
      <4> QED BY <3>1, <4>1, <1>2, <1>3
    <3>3. CASE ~Contains(m_QueuedPlayer, OldOne)
      <4>1. SessionsThen = n - 1
        BY <2>3, <3>1, <3>3, ArrivalCounts
      <4>2. CASE l = 0
        <5>1. l1 = 0
          BY <4>2, <3>1, <3>3 DEF Passed
        <5>2. l2 = l1 + 1 /\ SessionsThen >= m_playerLimit
          BY <5>1, <3>1, <1>2
        <5> QED BY <4>1, <5>1, <5>2, <3>1, <1>2
      <4>3. CASE l > 0
        <5>1. Remaining(m_QueuedPlayer, OldOne) = n - l - 1
          BY <2>3, <3>3, <4>3, <1>2, <1>3 DEF Remaining, GetActiveAndQueuedSessionCount
        <5>2. l1 = l - 1 \/ (l1 = l /\ n - l - 1 >= m_playerLimit)
          BY <2>3, <3>1, <3>3, <4>3, <5>1, <1>2 DEF Passed, MayEnter
        <5> QED BY <3>1, <4>3, <5>2, <1>2, <1>3
      <4> QED BY <4>2, <4>3, <1>2
    <3> QED BY <3>2, <3>3
  <2> QED BY <2>1, <2>2, <2>3
<1> QED BY <1>1, <1>5 DEF ServerIsFull, GetActiveAndQueuedSessionCount

LEMMA UpdateFillsSlot ==
  ASSUME WorldIInv, WorldIInv', NEW s \in Sessions, UpdateRemoves(s)
  PROVE  SlotFilled
<1> SUFFICES ASSUME m_QueuedPlayer # <<>> => ServerIsFull, m_QueuedPlayer' # <<>>
             PROVE  ServerIsFull'
  BY DEF SlotFilled
<1>1. m_playerLimit' = m_playerLimit
  BY DEF UpdateRemoves
<1> DEFINE n == Cardinality(Listed)
           l == Len(m_QueuedPlayer)
           n2 == Cardinality(Listed')
           l2 == Len(m_QueuedPlayer')
           r1 == RemoveQueuedPlayer(m_QueuedPlayer, s)
           r2 == RemoveQueuedPlayer(r1.queue, s)
<1>2. /\ n \in Nat /\ l \in Nat /\ l <= n /\ m_playerLimit \in Nat
      /\ n2 \in Nat /\ l2 \in Nat /\ l2 <= n2 /\ l2 > 0
  <2>1. IsFiniteSet(Listed)' /\ (Cardinality(Listed) \in Nat)' /\ (Len(m_QueuedPlayer) \in Nat)'
        /\ (Len(m_QueuedPlayer) <= Cardinality(Listed))'
    BY Counts, PTL
  <2>2. m_QueuedPlayer' \in Seq(Sessions)
    BY DEF WorldIInv, WorldTypeOK
  <2>3. l2 > 0
    BY <2>2, EmptyIsShort
  <2> QED BY <2>1, <2>3, Counts
<1>3. l > 0 => n - l >= m_playerLimit
  BY EmptyIsShort DEF WorldIInv, WorldTypeOK, ServerIsFull, GetActiveAndQueuedSessionCount
<1>4. /\ n2 = n - 1 /\ l2 = Len(r2.queue) /\ Len(r1.queue) \in Nat
      /\ Passed(m_QueuedPlayer, s, r1) /\ Passed(r1.queue, s, r2)
      /\ ~Contains(r1.queue, s)
  BY UpdateCounts
<1> HIDE DEF r1, r2
<1>5. n2 - l2 >= m_playerLimit
  <2>1. CASE m_playerLimit = 0
    BY <2>1, <1>2
  <2>2. CASE m_playerLimit # 0 /\ Contains(m_QueuedPlayer, s)
    <3>1. l > 0 /\ Len(r1.queue) <= l - 1
      BY <2>2, <1>2, <1>4 DEF Passed
    <3>2. Remaining(r1.queue, s) = n - Len(r1.queue) - 1
      BY <3>1, <1>2, <1>3, <1>4 DEF Remaining, GetActiveAndQueuedSessionCount
    <3>3. Remaining(r1.queue, s) >= m_playerLimit
      BY <3>1, <3>2, <1>2, <1>3, <1>4
    <3>4. l2 = Len(r1.queue)
      BY <2>2, <3>2, <3>3, <1>2, <1>4 DEF Passed, MayEnter
    <3> QED BY <3>2, <3>3, <3>4, <1>2, <1>4
  <2>3. CASE m_playerLimit # 0 /\ ~Contains(m_QueuedPlayer, s)
    <3>1. Len(r1.queue) > 0 /\ l > 0
      BY <2>3, <1>2, <1>4 DEF Passed
    <3>2. Remaining(m_QueuedPlayer, s) = n - l - 1
      BY <2>3, <3>1, <1>2, <1>3 DEF Remaining, GetActiveAndQueuedSessionCount
    <3>3. n - Len(r1.queue) - 1 >= m_playerLimit
      <4>1. \/ Len(r1.queue) = l - 1
            \/ Len(r1.queue) = l /\ ~(n - l - 1 < m_playerLimit)
        BY <2>3, <3>1, <3>2, <1>4 DEF Passed, MayEnter
      <4> QED BY <4>1, <3>1, <1>2, <1>3
    <3>4. Remaining(r1.queue, s) = n - Len(r1.queue) - 1
      BY <3>3, <1>2, <1>4 DEF Remaining, GetActiveAndQueuedSessionCount
    <3>5. ~MayEnter(r1.queue, s)
      BY <2>3, <3>3, <3>4, <1>2, <1>4 DEF MayEnter
    <3>6. l2 = Len(r1.queue)
      BY <3>5, <1>4 DEF Passed
    <3> QED BY <3>3, <3>6, <1>2, <1>4
  <2> QED BY <2>1, <2>2, <2>3
<1> QED BY <1>1, <1>5 DEF ServerIsFull, GetActiveAndQueuedSessionCount

LEMMA StepFillsSlot ==
  ASSUME WorldIInv, WorldIInv', [WorldNext]_worldVars
  PROVE  SlotFilled
<1>1. ASSUME Idle PROVE SlotFilled
  BY <1>1 DEF Idle, SlotFilled, ServerIsFull, GetActiveAndQueuedSessionCount
<1> QED BY <1>1, StepKinds, ArrivalFillsSlot, UpdateFillsSlot

(* FreeSlotIsFilled: while the limit stays, a session that is deleted or     *)
(* replaced leaves nobody waiting for a slot that is free.                   *)
THEOREM FreeSlotsAreFilled == WorldSpec => FreeSlotIsFilled
<1>1. WorldInit => WorldIInv
  BY WorldInitHolds
<1>2. WorldIInv /\ [WorldNext]_worldVars => WorldIInv'
  BY WorldIInvInductive
<1>3. WorldIInv /\ WorldIInv' /\ [WorldNext]_worldVars =>
        [ (m_playerLimit' = m_playerLimit /\ (m_QueuedPlayer # <<>> => ServerIsFull)) =>
            (m_QueuedPlayer' # <<>> => ServerIsFull') ]_worldVars
  BY StepFillsSlot DEF SlotFilled
<1> QED BY <1>1, <1>2, <1>3, PTL DEF WorldSpec, FreeSlotIsFilled

-----------------------------------------------------------------------------
(* Nobody overtakes. *)

OvertakesNobody ==
  (m_QueuedPlayer # <<>> /\ ServerIsFull /\ m_playerLimit > 0) => Arriving \cap Entering = {}

(* Who arrives without waiting found a slot, or need not wait. *)
LEMMA EntersBelowLimit ==
  ASSUME NEW X, NewOne \in Bound(X), ~NewOneWaits, m_playerLimit > 0
  PROVE  ~(SessionsThen >= m_playerLimit)
BY DEF Bound, NewOneWaits, MustWait

LEMMA StepOvertakesNobody ==
  ASSUME WorldIInv, [WorldNext]_worldVars
  PROVE  OvertakesNobody
<1> SUFFICES ASSUME m_QueuedPlayer # <<>>, ServerIsFull, m_playerLimit > 0,
                    NEW x \in Arriving \cap Entering
             PROVE  FALSE
  BY DEF OvertakesNobody
<1>1. x \in admitted' \ admitted /\ x \in Bound(admitted' \ admitted)
  BY DEF Entering, Bound
<1>2. Arriving \cap Listed = {} /\ Elems(m_QueuedPlayer) \subseteq Listed
  BY ArrivingIsElems DEF WorldIInv, WorldTypeOK, ArrivedOnce, Waiting
<1>3. CASE Idle
  BY <1>1, <1>3 DEF Idle
<1>4. ASSUME NEW s \in Sessions, UpdateRemoves(s) PROVE FALSE
  BY <1>1, <1>2, <1>4, UpdateCounts
<1>5. CASE AddSession_
  <2>1. Parting.accepted \subseteq Elems(m_QueuedPlayer)
    BY <1>5, ArrivalFacts DEF Left
  <2>2. x = NewOne /\ ~NewOneWaits
    BY <1>1, <1>2, <1>5, <2>1, ArrivalStep
  <2>3. ~(SessionsThen >= m_playerLimit)
    BY <1>1, <2>2, EntersBelowLimit
  <2>4. /\ Len(m_QueuedPlayer) > 0
        /\ Cardinality(Listed) - Len(m_QueuedPlayer) >= m_playerLimit
    BY EmptyIsShort DEF WorldIInv, WorldTypeOK, ServerIsFull, GetActiveAndQueuedSessionCount
  <2> QED BY <1>5, <2>3, <2>4, Counts, ArrivalCounts
<1> QED BY <1>3, <1>4, <1>5, StepKinds

(* NoOvertaking: while the server is full and somebody waits, a session that *)
(* arrives does not enter, unless it is staff's or was disconnected.         *)
THEOREM NobodyOvertakes == WorldSpec => NoOvertaking
<1>1. WorldInit => WorldIInv
  BY WorldInitHolds
<1>2. WorldIInv /\ [WorldNext]_worldVars => WorldIInv'
  BY WorldIInvInductive
<1>3. WorldIInv /\ [WorldNext]_worldVars =>
        [ (m_QueuedPlayer # <<>> /\ ServerIsFull /\ m_playerLimit > 0) =>
             Arriving \cap Entering = {} ]_worldVars
  BY StepOvertakesNobody DEF OvertakesNobody
<1> QED BY <1>1, <1>2, <1>3, PTL DEF WorldSpec, NoOvertaking

-----------------------------------------------------------------------------
(* The limit is respected. *)

KeepsLimit ==
  (m_playerLimit > 0 /\ Entering # {}) => Cardinality(Bound(admitted')) <= m_playerLimit

(* Whoever was let in is listed and does not wait. *)
LEMMA AdmittedCounts ==
  ASSUME WorldIInv'
  PROVE  /\ Cardinality(Bound(admitted')) \in Nat
         /\ Cardinality(Listed') \in Nat /\ Len(m_QueuedPlayer') \in Nat
         /\ Cardinality(Bound(admitted')) <= Cardinality(Listed') - Len(m_QueuedPlayer')
         /\ \A x \in admitted' \ Bound(admitted') :
              Cardinality(Bound(admitted')) + 1 <= Cardinality(Listed') - Len(m_QueuedPlayer')
<1> DEFINE B == Bound(admitted')
<1>1. /\ m_QueuedPlayer' \in Seq(Sessions) /\ Distinct(m_QueuedPlayer')
      /\ Elems(m_QueuedPlayer') \subseteq Listed'
      /\ admitted' \subseteq Listed' \ Elems(m_QueuedPlayer')
  BY DEF WorldIInv, WorldTypeOK, Waiting
<1>2. IsFiniteSet(Listed')
  <2>1. IsFiniteSet(Listed)'
    BY Counts, PTL
  <2> QED BY <2>1
<1>3. B \subseteq admitted'
  BY DEF Bound
<1> HIDE DEF B
<1>4. /\ Cardinality(B) \in Nat
      /\ Cardinality(Listed') \in Nat /\ Len(m_QueuedPlayer') \in Nat
      /\ Cardinality(B) <= Cardinality(Listed') - Len(m_QueuedPlayer')
  BY <1>1, <1>2, <1>3, CountOutside
<1>5. ASSUME NEW x \in admitted' \ B
      PROVE  Cardinality(B) + 1 <= Cardinality(Listed') - Len(m_QueuedPlayer')
  <2>1. /\ x \in Listed' \ Elems(m_QueuedPlayer')
        /\ B \subseteq (Listed' \ Elems(m_QueuedPlayer')) \ {x}
    BY <1>1, <1>3, <1>5
  <2> QED BY <1>1, <1>2, <2>1, CountOutsideBut
<1> QED BY <1>4, <1>5 DEF B

LEMMA UpdateKeepsLimit ==
  ASSUME WorldIInv, WorldIInv', NEW s \in Sessions, UpdateRemoves(s)
  PROVE  KeepsLimit
<1> SUFFICES ASSUME m_playerLimit > 0, Entering # {}
             PROVE  Cardinality(Bound(admitted')) <= m_playerLimit
  BY DEF KeepsLimit
<1> DEFINE n == Cardinality(Listed)
           l == Len(m_QueuedPlayer)
           r1 == RemoveQueuedPlayer(m_QueuedPlayer, s)
           r2 == RemoveQueuedPlayer(r1.queue, s)
<1>1. /\ n \in Nat /\ l \in Nat /\ l <= n /\ m_playerLimit \in Nat
  BY Counts
<1>2. /\ Cardinality(Listed') = n - 1 /\ m_QueuedPlayer' = r2.queue
      /\ Len(r1.queue) \in Nat /\ Len(r2.queue) \in Nat
      /\ Passed(m_QueuedPlayer, s, r1) /\ Passed(r1.queue, s, r2)
      /\ ~Contains(r1.queue, s)
      /\ ~Contains(m_QueuedPlayer, s) => l + 1 <= n
  BY UpdateCounts
<1>3. r1.accepted # {} \/ r2.accepted # {}
  <2>1. admitted' = (admitted \cup r1.accepted \cup r2.accepted) \ {s}
    BY UpdateCounts
  <2>2. admitted' \ admitted # {}
    BY DEF Entering, Bound
  <2> QED BY <2>1, <2>2
<1> HIDE DEF r1, r2
<1>4. n - 1 - Len(r2.queue) <= m_playerLimit
  <2>1. /\ Len(r1.queue) <= l
        /\ Contains(m_QueuedPlayer, s) => Len(r1.queue) + 1 <= l
    BY <1>1, <1>2 DEF Passed
  <2>2. n - Len(r1.queue) >= 1
    BY <2>1, <1>1, <1>2
  <2>3. Remaining(r1.queue, s) = n - Len(r1.queue) - 1
    BY <2>2, <1>1, <1>2 DEF Remaining, GetActiveAndQueuedSessionCount
  <2>4. CASE r2.accepted # {}
    <3>1. Remaining(r1.queue, s) < m_playerLimit /\ Len(r2.queue) = Len(r1.queue) - 1
      BY <2>4, <1>2 DEF Passed, MayEnter
    <3> QED BY <2>3, <3>1, <1>1, <1>2
  <2>5. CASE r2.accepted = {} /\ r1.accepted # {}
    <3>1. Len(r2.queue) = Len(r1.queue)
      BY <2>5, <1>2 DEF Passed
    <3>2. /\ Remaining(m_QueuedPlayer, s) < m_playerLimit
          /\ Contains(m_QueuedPlayer, s) => Len(r1.queue) = l - 2
          /\ ~Contains(m_QueuedPlayer, s) => Len(r1.queue) = l - 1
      BY <2>5, <1>1, <1>2 DEF Passed, MayEnter
    <3>3. CASE Contains(m_QueuedPlayer, s)
      BY <3>1, <3>2, <3>3, <1>1 DEF Remaining, GetActiveAndQueuedSessionCount
    <3>4. CASE ~Contains(m_QueuedPlayer, s)
      BY <3>1, <3>2, <3>4, <1>1, <1>2 DEF Remaining, GetActiveAndQueuedSessionCount
    <3> QED BY <3>3, <3>4
  <2> QED BY <2>4, <2>5, <1>3
<1> QED BY <1>1, <1>2, <1>4, AdmittedCounts

LEMMA ArrivalKeepsLimit ==
  ASSUME WorldIInv, WorldIInv', AddSession_
  PROVE  KeepsLimit
<1> SUFFICES ASSUME m_playerLimit > 0, Entering # {}
             PROVE  Cardinality(Bound(admitted')) <= m_playerLimit
  BY DEF KeepsLimit
<1> DEFINE n == Cardinality(Listed)
           l == Len(m_QueuedPlayer)
           n2 == Cardinality(Listed')
           l1 == Len(Parting.queue)
           l2 == Len(m_QueuedPlayer')
<1>1. /\ n \in Nat /\ l \in Nat /\ l <= n /\ m_playerLimit \in Nat
      /\ n2 \in Nat /\ l2 \in Nat /\ l1 \in Nat
  BY Counts, AdmittedCounts, ArrivalCounts
<1>2. ASSUME Parting.accepted # {}
      PROVE  n2 = n /\ n - l1 - 1 <= m_playerLimit /\ l1 + 1 <= l
  <2>1. OldOne # None /\ Passed(m_QueuedPlayer, OldOne, Parting) /\ n2 = n
    BY <1>2, ArrivalCounts
  <2>2. /\ Remaining(m_QueuedPlayer, OldOne) < m_playerLimit
        /\ Contains(m_QueuedPlayer, OldOne) => l1 = l - 2
        /\ ~Contains(m_QueuedPlayer, OldOne) => l1 = l - 1
    BY <1>2, <2>1, <1>1 DEF Passed, MayEnter
  <2>3. CASE Contains(m_QueuedPlayer, OldOne)
    BY <2>1, <2>2, <2>3, <1>1 DEF Remaining, GetActiveAndQueuedSessionCount
  <2>4. CASE ~Contains(m_QueuedPlayer, OldOne)
    <3>1. l + 1 <= n
      BY <2>1, <2>4, ArrivalCounts
    <3>2. Remaining(m_QueuedPlayer, OldOne) = n - l - 1
      BY <2>4, <3>1, <1>1 DEF Remaining, GetActiveAndQueuedSessionCount
    <3> QED BY <2>1, <2>2, <2>4, <3>2, <1>1
  <2> QED BY <2>3, <2>4
<1>3. CASE NewOneWaits
  <2>1. Parting.accepted # {}
    <3>1. admitted' \ admitted # {}
      BY DEF Entering, Bound
    <3>2. admitted' = (admitted \ {OldOne}) \cup Parting.accepted
      BY <1>3, ArrivalStep
    <3> QED BY <3>1, <3>2
  <2>2. l2 = l1 + 1
    BY <1>3, ArrivalCounts
  <2> QED BY <1>1, <1>2, <2>1, <2>2, AdmittedCounts
<1>4. CASE ~NewOneWaits
  <2>1. l2 = l1 /\ NewOne \in admitted'
    BY <1>4, ArrivalStep
  <2>2. CASE NewOne \in Bound(admitted')
    <3>1. SessionsThen < m_playerLimit /\ n2 <= SessionsThen + 1
      <4>1. ~(SessionsThen >= m_playerLimit)
        BY <1>4, <2>2, EntersBelowLimit
      <4>2. SessionsThen = n2 \/ SessionsThen = n2 - 1
        BY <1>1, ArrivalCounts
      <4> QED BY <1>1, <4>1, <4>2
    <3>2. SessionsThen \in Int
      BY <1>1, ArrivalCounts
    <3> QED BY <1>1, <3>1, <3>2, AdmittedCounts
  <2>3. CASE NewOne \notin Bound(admitted')
    <3>1. Parting.accepted # {}
      <4>1. PICK x \in admitted' \ admitted : x \in Bound(admitted')
        BY DEF Entering, Bound
      <4>2. admitted' = (admitted \ {OldOne}) \cup Parting.accepted \cup {NewOne}
        BY <1>4, ArrivalStep
      <4> QED BY <2>3, <4>1, <4>2
    <3>2. Cardinality(Bound(admitted')) + 1 <= n2 - l2
      BY <2>1, <2>3, AdmittedCounts
    <3> QED BY <1>1, <1>2, <2>1, <3>1, <3>2, AdmittedCounts
  <2> QED BY <2>2, <2>3
<1> QED BY <1>3, <1>4

LEMMA StepKeepsLimit ==
  ASSUME WorldIInv, WorldIInv', [WorldNext]_worldVars
  PROVE  KeepsLimit
<1>1. ASSUME Idle PROVE KeepsLimit
  <2>1. Entering = {}
    BY <1>1 DEF Idle, Entering, Bound
  <2> QED BY <2>1 DEF KeepsLimit
<1> QED BY <1>1, StepKinds, ArrivalKeepsLimit, UpdateKeepsLimit

(* LimitIsRespected: whenever somebody who must wait is let in, no more of   *)
(* those than PlayerLimit are in afterwards.                                 *)
THEOREM PlayerLimitIsRespected == WorldSpec => LimitIsRespected
<1>1. WorldInit => WorldIInv
  BY WorldInitHolds
<1>2. WorldIInv /\ [WorldNext]_worldVars => WorldIInv'
  BY WorldIInvInductive
<1>3. WorldIInv /\ WorldIInv' /\ [WorldNext]_worldVars =>
        [ (m_playerLimit > 0 /\ Entering # {}) =>
             Cardinality(Bound(admitted')) <= m_playerLimit ]_worldVars
  BY StepKeepsLimit DEF KeepsLimit
<1> QED BY <1>1, <1>2, <1>3, PTL DEF WorldSpec, LimitIsRespected
=============================================================================
