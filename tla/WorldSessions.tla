---------------------------- MODULE WorldSessions ----------------------------
(***************************************************************************)
(* The sessions of the world server and the login queue:                    *)
(* src/server/game/World/World.cpp, with Update and InitializeSession of    *)
(* Server/WorldSession.cpp.                                                  *)
(*                                                                         *)
(* The network threads push authenticated sessions to addSessQueue and may  *)
(* close a socket at any time; everything else is done by the world thread  *)
(* in World::UpdateSessions, one session after the other.  A session is an  *)
(* account and the number of one of its connections; a deleted session may  *)
(* be created again, as an allocator reuses its memory.                     *)
(***************************************************************************)
EXTENDS Integers, Sequences, FiniteSets, SequencesExt

CONSTANTS Accounts,
          Staff,          \* accounts with RBAC_PERM_SKIP_QUEUE
          Connections,    \* bound: sessions of each account at the same time
          PlayerLimits,   \* the values PlayerLimit may be set to, 0 for none
          Tolerance,      \* DisconnectToleranceInterval, 0 for none
          None

Sessions == UNION {{a} \X (1 .. Connections[a]) : a \in Accounts}
Account(s) == s[1]

ASSUME StaffAssumption == Staff \subseteq Accounts /\ IsFiniteSet(Accounts)
ASSUME LimitAssumption == PlayerLimits \subseteq Nat /\ Tolerance \in Nat
ASSUME ConnectionAssumption == Connections \in [Accounts -> Nat]
ASSUME NoneAssumption == None \notin Sessions

VARIABLES addSessQueue,   \* sessions the network threads have handed over
          m_sessions,     \* the session of each account
          m_QueuedPlayer, \* the login queue
          m_disconnects,  \* accounts with an entry: they were disconnected
          m_playerLimit,
          open,           \* sessions whose socket is open
          inQueue,        \* sessions with m_inQueue
          initialising,   \* sessions waiting for InitializeSessionCallback
          loading,        \* sessions with m_playerLoading
          admitted        \* listed sessions InitializeSession was called for (history)

worldVars == <<addSessQueue, m_sessions, m_QueuedPlayer, m_disconnects, m_playerLimit,
               open, inQueue, initialising, loading, admitted>>

Listed == {s \in Sessions : m_sessions[Account(s)] = s}
Arriving == {addSessQueue[i] : i \in DOMAIN addSessQueue}
Queued == {m_QueuedPlayer[i] : i \in DOMAIN m_QueuedPlayer}

WorldTypeOK ==
  /\ addSessQueue \in Seq(Sessions) /\ m_QueuedPlayer \in Seq(Sessions)
  /\ m_sessions \in [Accounts -> Sessions \cup {None}]
  /\ m_disconnects \subseteq Accounts
  /\ m_playerLimit \in PlayerLimits
  /\ open \subseteq Listed \cup Arriving
  /\ inQueue \cup initialising \cup loading \cup admitted \subseteq Listed

WorldInit ==
  /\ addSessQueue = <<>> /\ m_QueuedPlayer = <<>>
  /\ m_sessions = [a \in Accounts |-> None]
  /\ m_disconnects = {}
  /\ m_playerLimit \in PlayerLimits
  /\ open = {} /\ inQueue = {} /\ initialising = {} /\ loading = {} /\ admitted = {}

-----------------------------------------------------------------------------
(* Network threads. *)

AddSession(s) ==
  /\ s \notin Listed \cup Arriving
  /\ addSessQueue' = Append(addSessQueue, s)
  /\ open' = open \cup {s}
  /\ UNCHANGED <<m_sessions, m_QueuedPlayer, m_disconnects, m_playerLimit,
                 inQueue, initialising, loading, admitted>>

SocketCloses(s) ==
  /\ s \in open
  /\ open' = open \ {s}
  /\ UNCHANGED <<addSessQueue, m_sessions, m_QueuedPlayer, m_disconnects, m_playerLimit,
                 inQueue, initialising, loading, admitted>>

-----------------------------------------------------------------------------
(* The world thread. *)

GetActiveAndQueuedSessionCount == Cardinality(Listed)

(* The leaving session is counted: a plausible slip. *)
RemoveQueuedPlayerCountingIt(q, s) ==
  LET rest == RemoveFirst(q, s)
      accept == (m_playerLimit = 0 \/ GetActiveAndQueuedSessionCount - Len(q) < m_playerLimit) /\ rest # <<>>
  IN [found |-> Contains(q, s),
      queue |-> IF accept THEN Tail(rest) ELSE rest,
      accepted |-> IF accept THEN {Head(rest)} ELSE {}]

(* The first in the queue is taken out but not initialised: a plausible slip. *)
RemoveQueuedPlayerForgetting(q, s) ==
  LET rest == RemoveFirst(q, s)
      accept == rest # <<>> /\ ~Contains(q, s)
  IN [found |-> Contains(q, s), queue |-> IF accept THEN Tail(rest) ELSE rest, accepted |-> {}]

(* Session s leaves the queue q, if it is there; when fewer sessions than    *)
(* allowed remain, the first in the queue is accepted.                       *)
RemoveQueuedPlayer(q, s) ==
  LET active == GetActiveAndQueuedSessionCount - Len(q)
      found == Contains(q, s)
      remaining == IF found \/ active = 0 THEN active ELSE active - 1
      rest == RemoveFirst(q, s)
      accept == (m_playerLimit = 0 \/ remaining < m_playerLimit) /\ rest # <<>>
  IN [found |-> found,
      queue |-> IF accept THEN Tail(rest) ELSE rest,
      accepted |-> IF accept THEN {Head(rest)} ELSE {}]

(* An entry counts while difftime(i->second, now) < tolerance.  The entry is *)
(* the earlier of the two times, so the difference is never positive and the *)
(* entry never runs out.                                                     *)
HasRecentlyDisconnected(s) == Tolerance > 0 /\ Account(s) \in m_disconnects

(* RemoveSession finds the old session loading its player: s is refused.     *)
AddSessionRefused ==
  /\ addSessQueue # <<>>
  /\ LET s == Head(addSessQueue) IN
     /\ m_sessions[Account(s)] \in loading
     /\ open' = open \ {s}
  /\ addSessQueue' = Tail(addSessQueue)
  /\ UNCHANGED <<m_sessions, m_QueuedPlayer, m_disconnects, m_playerLimit,
                 inQueue, initialising, loading, admitted>>

(* The replaced session stays in the queue: a plausible slip. *)
LeaveQueueUnremoved(old) == [found |-> FALSE, queue |-> m_QueuedPlayer, accepted |-> {}]

(* What removing the replaced session, if any, does to the queue. *)
LeaveQueue(old) ==
  IF old = None THEN [found |-> FALSE, queue |-> m_QueuedPlayer, accepted |-> {}]
  ELSE RemoveQueuedPlayer(m_QueuedPlayer, old)

(* A reconnecting account is believed to keep its slot: a plausible slip. *)
MustWaitUnlessReconnecting(s, sessions) ==
  /\ m_playerLimit > 0 /\ sessions >= m_playerLimit
  /\ Account(s) \notin Staff
  /\ m_sessions[Account(s)] = None

(* pLimit > 0 && Sessions >= pLimit && !skip queue && !HasRecentlyDisconnected *)
MustWait(s, sessions) ==
  /\ m_playerLimit > 0 /\ sessions >= m_playerLimit
  /\ Account(s) \notin Staff
  /\ ~HasRecentlyDisconnected(s)

(* AddSession_: the old session of the account is deleted and s takes its    *)
(* place, at the end of the queue or initialised at once.                    *)
AddSession_ ==
  /\ addSessQueue # <<>>
  /\ LET s == Head(addSessQueue)
         old == m_sessions[Account(s)]
         r == LeaveQueue(old)
         listed == (Listed \ {old}) \cup {s}
         sessions == Cardinality(listed) - IF r.found THEN 0 ELSE 1
         waits == MustWait(s, sessions)
         enters == r.accepted \cup IF waits THEN {} ELSE {s}
     IN
     /\ old \notin loading
     /\ m_sessions' = [m_sessions EXCEPT ![Account(s)] = s]
     /\ m_QueuedPlayer' = IF waits THEN Append(r.queue, s) ELSE r.queue
     /\ inQueue' = (inQueue \ {old}) \cup IF waits THEN {s} ELSE {}
     /\ initialising' = (initialising \ {old}) \cup enters
     /\ admitted' = (admitted \ {old}) \cup enters
     /\ open' = open \ {old}
  /\ addSessQueue' = Tail(addSessQueue)
  /\ UNCHANGED <<m_disconnects, m_playerLimit, loading>>

(* The answer to InitializeSession outlives its session: a plausible slip. *)
UpdateRemovesKeepingCallback(s) ==
  /\ s \in Listed \ open
  /\ m_QueuedPlayer' = RemoveFirst(m_QueuedPlayer, s)
  /\ m_sessions' = [m_sessions EXCEPT ![Account(s)] = None]
  /\ inQueue' = inQueue \ {s}
  /\ admitted' = admitted \ {s}
  /\ loading' = loading \ {s}
  /\ UNCHANGED <<addSessQueue, m_disconnects, m_playerLimit, open, initialising>>

(* WorldSession::Update returns false for s, whose socket is closed (at      *)
(* once, or after the time a player may stay in the world): RemoveQueued-    *)
(* Player is called twice, and the session deleted.                          *)
UpdateRemoves(s) ==
  LET r1 == RemoveQueuedPlayer(m_QueuedPlayer, s)
      r2 == RemoveQueuedPlayer(r1.queue, s)
      enters == r1.accepted \cup r2.accepted
  IN
  /\ s \in Listed \ open
  /\ m_QueuedPlayer' = r2.queue
  /\ initialising' = (initialising \cup enters) \ {s}
  /\ admitted' = (admitted \cup enters) \ {s}
  /\ m_disconnects' = IF r1.found \/ Tolerance = 0 THEN m_disconnects
                      ELSE m_disconnects \cup {Account(s)}
  /\ m_sessions' = [m_sessions EXCEPT ![Account(s)] = None]
  /\ inQueue' = inQueue \ {s}
  /\ loading' = loading \ {s}
  /\ UNCHANGED <<addSessQueue, m_playerLimit, open>>

(* The account data has arrived. *)
InitializeSessionCallback(s) ==
  /\ s \in Listed \cap initialising
  /\ initialising' = initialising \ {s}
  /\ inQueue' = inQueue \ {s}
  /\ UNCHANGED <<addSessQueue, m_sessions, m_QueuedPlayer, m_disconnects, m_playerLimit,
                 open, loading, admitted>>

(* m_inQueue is not looked at: a plausible slip. *)
HandlePlayerLoginFromQueue(s) ==
  /\ s \in (Listed \cap open) \ loading
  /\ loading' = loading \cup {s}
  /\ UNCHANGED <<addSessQueue, m_sessions, m_QueuedPlayer, m_disconnects, m_playerLimit,
                 open, inQueue, initialising, admitted>>

(* A STATUS_AUTHED packet, HandlePlayerLogin, sets m_playerLoading ...       *)
HandlePlayerLogin(s) ==
  /\ s \in (Listed \cap open) \ (loading \cup inQueue)
  /\ loading' = loading \cup {s}
  /\ UNCHANGED <<addSessQueue, m_sessions, m_QueuedPlayer, m_disconnects, m_playerLimit,
                 open, inQueue, initialising, admitted>>

(* ... until the player is loaded, or cannot be.                             *)
PlayerLoaded(s) ==
  /\ s \in loading
  /\ loading' = loading \ {s}
  /\ UNCHANGED <<addSessQueue, m_sessions, m_QueuedPlayer, m_disconnects, m_playerLimit,
                 open, inQueue, initialising, admitted>>

KickAll ==
  /\ Listed # {}
  /\ m_QueuedPlayer' = <<>>
  /\ open' = open \ Listed
  /\ UNCHANGED <<addSessQueue, m_sessions, m_disconnects, m_playerLimit,
                 inQueue, initialising, loading, admitted>>

(* .server plimit, and the reload of the configuration. *)
SetPlayerAmountLimit(l) ==
  /\ l # m_playerLimit
  /\ m_playerLimit' = l
  /\ UNCHANGED <<addSessQueue, m_sessions, m_QueuedPlayer, m_disconnects,
                 open, inQueue, initialising, loading, admitted>>

WorldNext ==
  \/ \E s \in Sessions :
       \/ AddSession(s) \/ SocketCloses(s)
       \/ UpdateRemoves(s) \/ InitializeSessionCallback(s)
       \/ HandlePlayerLogin(s) \/ PlayerLoaded(s)
  \/ AddSessionRefused \/ AddSession_
  \/ KickAll \/ (\E l \in PlayerLimits : SetPlayerAmountLimit(l))

WorldSpec == WorldInit /\ [][WorldNext]_worldVars

-----------------------------------------------------------------------------
(* Properties. *)

(* The queue holds no pointer to a deleted session and no session twice,     *)
(* however sessions replace each other, are kicked or leave.                 *)
QueuedSessionsAreListed ==
  /\ Queued \subseteq Listed
  /\ Cardinality(Queued) = Len(m_QueuedPlayer)

(* "prevent cheating with skip queue wait": nobody loads a player while in   *)
(* the queue.                                                                *)
NobodyPlaysFromTheQueue == loading \cap Queued = {}

(* Whoever left the queue was admitted or deleted: no open session is        *)
(* forgotten, neither waiting nor let in.                                    *)
NobodyIsForgotten == Listed \cap open \subseteq Queued \cup admitted

(* A session is in exactly the place its state says, whatever the order of   *)
(* reconnects, kicks, disconnects and late answers of the database.          *)
QueueIsSound == QueuedSessionsAreListed /\ NobodyPlaysFromTheQueue /\ NobodyIsForgotten

ServerIsFull == GetActiveAndQueuedSessionCount - Len(m_QueuedPlayer) >= m_playerLimit

(* As long as the limit stays, somebody waits only while the server is full: *)
(* the slot of every session that goes, by a disconnect or a reconnect, is   *)
(* passed on.  After the limit was raised the queue need not be full, and a  *)
(* step may leave it so.  Full is what the code counts, sessions of staff    *)
(* included; StaffTakesNoSlot is what the configuration file promises.       *)
FreeSlotIsFilled ==
  [][ (m_playerLimit' = m_playerLimit /\ (m_QueuedPlayer # <<>> => ServerIsFull)) =>
        (m_QueuedPlayer' # <<>> => ServerIsFull') ]_worldVars

(* worldserver.conf.dist on PlayerLimit: "Maximum number of players in the   *)
(* world. Excluding Mods, GMs and Admins."  While the limit stays, a player  *)
(* waits only when as many players as allowed are in, staff not counted.     *)
(* AddSession_ and RemoveQueuedPlayer count all sessions: it does not hold.  *)
StaffTakesNoSlot ==
  m_QueuedPlayer # <<>> =>
    Cardinality({s \in Listed \ Queued : Account(s) \notin Staff}) >= m_playerLimit

(* Who must respect the limit. *)
Bound(sessions) == {s \in sessions : Account(s) \notin Staff /\ ~HasRecentlyDisconnected(s)}
Entering == Bound(admitted' \ admitted)

(* PlayerLimit: a session is let in only while no more than it are in, staff *)
(* and those who were disconnected aside, whatever the limit was before.     *)
LimitIsRespected ==
  [][ (m_playerLimit > 0 /\ Entering # {}) => Cardinality(Bound(admitted')) <= m_playerLimit ]_worldVars

(* Nobody but staff and the disconnected is let in past those who wait for   *)
(* a slot: neither a newcomer nor somebody whose new connection replaces an  *)
(* admitted or a queued one.                                                 *)
NoOvertaking ==
  [][ (m_QueuedPlayer # <<>> /\ ServerIsFull /\ m_playerLimit > 0) => Arriving \cap Entering = {} ]_worldVars
=============================================================================
