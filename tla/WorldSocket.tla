----------------------------- MODULE WorldSocket -----------------------------
(***************************************************************************)
(* One connection of a client: Socket.h and NetworkThread.h of                *)
(* src/server/shared/Networking and src/server/game/Server/WorldSocket.cpp,   *)
(* with the parts of WorldSession.cpp that use the socket.                    *)
(*                                                                         *)
(* The network thread runs Update of the socket, the callbacks of its queries *)
(* and the handlers of its reads and writes, one at a time (netpc).  The      *)
(* world thread and a map worker send packets through _bufferQueue, and the   *)
(* world thread closes the socket and deletes the session.  The connection    *)
(* is the realm connection, the only one in the legacy connection mode.       *)
(* IOCP (Windows) is left out; a packet is the smallest unit of a write.  A   *)
(* read brings one packet: a second one in the same read is handled without   *)
(* another look at IsOpen, as one is here that is read before a close.        *)
(***************************************************************************)
EXTENDS MPSCQueue, SequencesExt, FiniteSets

CONSTANTS World, MapWorker, Net,         \* the producers of _bufferQueue
          Outgoing,                      \* what World and MapWorker send, in order
          Challenge, Response, Pong,     \* what the network thread sends
          Initializer,                   \* ServerConnectionInitialize
          Size,                          \* size of a packet with its header
          SendBufferSize,                \* _sendBufferSize
          MaxStalls                      \* bound: writes that find the socket full

ASSUME ProducersAssumption == Producers = {World, MapWorker, Net}
ASSUME OutgoingAssumption == Outgoing \in [{World, MapWorker} -> Seq(Nodes)]
ASSUME SizeAssumption == Size \in [Nodes -> Nat \ {0}] /\ SendBufferSize \in Nat \ {0}
ASSUME MaxStallsAssumption == MaxStalls \in Nat
ASSUME NetPacketsAssumption == {Challenge, Response, Pong} \subseteq Nodes /\ Initializer \notin Nodes

(* Every SendPacket allocates the packet it enqueues: no two of them, of one *)
(* thread or of two, enqueue the same object.                                *)
ASSUME PacketsAreDistinct ==
  /\ World # MapWorker /\ World # Net /\ MapWorker # Net
  /\ Challenge # Response /\ Challenge # Pong /\ Response # Pong
  /\ \A p \in {World, MapWorker} : \A i \in 1 .. Len(Outgoing[p]) :
       Outgoing[p][i] \notin {Challenge, Response, Pong}
  /\ \A i \in 1 .. Len(Outgoing[World]), j \in 1 .. Len(Outgoing[MapWorker]) :
       Outgoing[World][i] # Outgoing[MapWorker][j]

VARIABLES netpc,          \* where the network thread is
          buffer,         \* the local MessageBuffer of Update
          writeQueue,     \* _writeQueue, a sequence of buffers
          closed, closing, isWritingAsync,
          shut,           \* the sending side of the TCP connection is shut down
          wire,           \* what the client has been sent
          peerUp,         \* the client is there
          stalls,
          reading,        \* the outstanding read: none, init or read
          query,          \* the query _queryProcessor waits for
          answered,       \* its result has arrived
          authed,         \* _authed
          worldSession,   \* _worldSession is not null
          session,        \* none, created, added (to the world), deleted
          locked,         \* _worldSessionLock is held by the network thread
          sending,        \* threads in SendPacket that have seen the socket open
          wpc             \* the world thread: idle, or in CloseSocket before OnClose

outVars == <<buffer, writeQueue, isWritingAsync, wire, stalls>>
closeVars == <<closed, closing, shut>>
authVars == <<reading, query, answered, authed>>
sessionVars == <<worldSession, session, locked>>
otherVars == <<peerUp, sending, wpc>>
vars == <<queueVars, netpc, outVars, closeVars, authVars, sessionVars, otherVars>>

IsOpen == ~closed /\ ~closing

SocketTypeOK ==
  /\ MPSCTypeOK
  /\ netpc \in {"poll", "drain", "base", "write", "ready", "callbacks", "reject", "handle",
                "using", "logging", "rearm", "onClose", "removed"}
  /\ buffer \in Seq(Nodes) /\ writeQueue \in Seq(Seq(Nodes \cup {Initializer}))
  /\ wire \in Seq(Nodes \cup {Initializer})
  /\ {closed, closing, isWritingAsync, shut, peerUp, answered, authed, worldSession, locked}
       \subseteq BOOLEAN
  /\ stalls \in 0 .. MaxStalls
  /\ reading \in {"none", "init", "read"}
  /\ query \in {"none", "ip", "account", "permissions"}
  /\ session \in {"none", "created", "added", "deleted"}
  /\ sending \subseteq {World, MapWorker}
  /\ wpc \in {"idle", "onClose"}

(* Start has sent the query for the IP address. *)
SocketInit ==
  /\ QueueInit
  /\ netpc = "poll" /\ buffer = <<>> /\ writeQueue = <<>>
  /\ closed = FALSE /\ closing = FALSE /\ isWritingAsync = FALSE /\ shut = FALSE
  /\ wire = <<>> /\ peerUp = TRUE /\ stalls = 0
  /\ reading = "none" /\ query = "ip" /\ answered = FALSE
  /\ authed = FALSE /\ worldSession = FALSE /\ session = "none" /\ locked = FALSE
  /\ sending = {} /\ wpc = "idle"

NetAt(at) == netpc = at /\ enq[Net] = Idle

-----------------------------------------------------------------------------
(* Update: _bufferQueue is drained ... *)

NetUpdate ==
  /\ NetAt("poll")
  /\ netpc' = "drain"
  /\ UNCHANGED <<queueVars, outVars, closeVars, authVars, sessionVars, otherVars>>

NetDequeue ==
  /\ NetAt("drain")
  /\ DequeueStep
  /\ UNCHANGED <<netpc, outVars, closeVars, authVars, sessionVars, otherVars>>

GetRemainingSpace(b) == SendBufferSize - FoldSeq(LAMBDA n, sum : Size[n] + sum, 0, b)

(* A large packet goes ahead of what is buffered: a plausible slip. *)
NetBuffersLargeFirst ==
  /\ NetAt("drain") /\ deq.at = "got"
  /\ LET n == deq.node
         full == GetRemainingSpace(buffer) < Size[n]
         large == Size[n] > SendBufferSize
     IN
     /\ writeQueue' = writeQueue \o (IF large THEN << <<n>> >> ELSE IF full THEN <<buffer>> ELSE <<>>)
     /\ buffer' = IF large THEN buffer ELSE IF full THEN <<n>> ELSE Append(buffer, n)
  /\ deq' = Idle
  /\ UNCHANGED <<link, head, tail, enq, enqueued, dequeued, netpc, isWritingAsync, wire, stalls, closeVars, authVars, sessionVars, otherVars>>

(* ... into buffers: a full one is queued, and a packet that fits in none    *)
(* gets one of its own, after an empty one if nothing was buffered.          *)
NetBuffers ==
  /\ NetAt("drain") /\ deq.at = "got"
  /\ LET n == deq.node
         full == GetRemainingSpace(buffer) < Size[n]
         rest == IF full THEN <<>> ELSE buffer
         large == GetRemainingSpace(rest) < Size[n]
     IN
     /\ writeQueue' = writeQueue \o (IF full THEN <<buffer>> ELSE <<>>)
                                 \o (IF large THEN << <<n>> >> ELSE <<>>)
     /\ buffer' = IF large THEN rest ELSE Append(rest, n)
  /\ deq' = Idle
  /\ UNCHANGED <<link, head, tail, enq, enqueued, dequeued, netpc, isWritingAsync, wire, stalls, closeVars, authVars, sessionVars, otherVars>>

(* The last buffer is queued only when it is full: a plausible slip. *)
NetDrainedKeepingRest ==
  /\ NetAt("drain") /\ deq.at = "none"
  /\ deq' = Idle /\ netpc' = "base"
  /\ UNCHANGED <<link, head, tail, enq, enqueued, dequeued, outVars, closeVars, authVars, sessionVars, otherVars>>

NetDrained ==
  /\ NetAt("drain") /\ deq.at = "none"
  /\ deq' = Idle
  /\ writeQueue' = IF buffer = <<>> THEN writeQueue ELSE Append(writeQueue, buffer)
  /\ buffer' = <<>>
  /\ netpc' = "base"
  /\ UNCHANGED <<link, head, tail, enq, enqueued, dequeued, isWritingAsync, wire, stalls, closeVars, authVars, sessionVars, otherVars>>

(* ... then comes Socket::Update: a closed socket is removed by the thread.  *)
NetBaseUpdate ==
  /\ NetAt("base")
  /\ netpc' = IF closed THEN "removed"
              ELSE IF isWritingAsync \/ (writeQueue = <<>> /\ ~closing) THEN "callbacks"
              ELSE "write"
  /\ UNCHANGED <<queueVars, outVars, closeVars, authVars, sessionVars, otherVars>>

-----------------------------------------------------------------------------
(* HandleQueue, called by Update until it returns false, and once by          *)
(* WriteHandlerWrapper.  Its test for an empty queue never succeeds: TLC      *)
(* would report a deadlock.                                                  *)

AfterHandleQueue(more) ==
  netpc' = CASE netpc = "ready" -> "poll"
             [] netpc = "write" /\ more -> "write"
             [] OTHER -> "callbacks"

queuedMessage == Head(writeQueue)

WouldBlock ==
  /\ netpc \in {"write", "ready"} /\ writeQueue # <<>>
  /\ peerUp /\ ~shut /\ queuedMessage # <<>> /\ stalls < MaxStalls
  /\ stalls' = stalls + 1
  /\ isWritingAsync' = TRUE
  /\ AfterHandleQueue(FALSE)
  /\ UNCHANGED <<queueVars, buffer, writeQueue, wire, closeVars, authVars, sessionVars, otherVars>>

PartialWrite ==
  /\ netpc \in {"write", "ready"} /\ writeQueue # <<>>
  /\ peerUp /\ ~shut
  /\ \E n \in 1 .. Len(queuedMessage) - 1 :
       /\ wire' = wire \o SubSeq(queuedMessage, 1, n)
       /\ writeQueue' = <<SubSeq(queuedMessage, n + 1, Len(queuedMessage))>> \o Tail(writeQueue)
  /\ isWritingAsync' = TRUE
  /\ AfterHandleQueue(FALSE)
  /\ UNCHANGED <<queueVars, buffer, stalls, closeVars, authVars, sessionVars, otherVars>>

(* The socket is not closed: a plausible slip. *)
PopForgettingClosing ==
  /\ writeQueue' = Tail(writeQueue)
  /\ UNCHANGED <<closed, shut, worldSession>>

(* The front leaves the queue, and a closing socket is closed with the last  *)
(* of it (CloseSocket and OnClose: nobody else knows a closing socket).      *)
Pop ==
  /\ writeQueue' = Tail(writeQueue)
  /\ LET close == closing /\ Tail(writeQueue) = <<>> IN
     /\ closed' = (closed \/ close)
     /\ shut' = (shut \/ close)
     /\ worldSession' = (worldSession /\ ~close)

(* An error, or nothing written because the buffer is empty: the front       *)
(* buffer is dropped and the socket left open.  An assumption on the system: *)
(* on a connection that both ends keep, a write fails with would_block only. *)
WriteFails ==
  /\ netpc \in {"write", "ready"} /\ writeQueue # <<>>
  /\ queuedMessage = <<>> \/ ~peerUp \/ shut
  /\ Pop
  /\ AfterHandleQueue(FALSE)
  /\ UNCHANGED <<queueVars, buffer, isWritingAsync, wire, stalls, closing, authVars, session, locked, otherVars>>

WriteAll ==
  /\ netpc \in {"write", "ready"} /\ writeQueue # <<>>
  /\ peerUp /\ ~shut /\ queuedMessage # <<>>
  /\ wire' = wire \o queuedMessage
  /\ Pop
  /\ AfterHandleQueue(Tail(writeQueue) # <<>>)
  /\ UNCHANGED <<queueVars, buffer, isWritingAsync, stalls, closing, authVars, session, locked, otherVars>>

HandleQueue == WouldBlock \/ PartialWrite \/ WriteFails \/ WriteAll

(* The socket can be written to again, or never will. *)
WriteHandlerWrapper ==
  /\ NetAt("poll") /\ isWritingAsync
  /\ isWritingAsync' = FALSE
  /\ netpc' = "ready"
  /\ UNCHANGED <<queueVars, buffer, writeQueue, wire, stalls, closeVars, authVars, sessionVars, otherVars>>

-----------------------------------------------------------------------------
(* Callbacks of the queries, at the end of Update. *)

DbAnswers ==
  /\ query # "none" /\ ~answered
  /\ answered' = TRUE
  /\ UNCHANGED <<queueVars, netpc, outVars, closeVars, reading, query, authed, sessionVars, otherVars>>

NothingReady ==
  /\ NetAt("callbacks") /\ ~answered
  /\ netpc' = "poll"
  /\ UNCHANGED <<queueVars, outVars, closeVars, authVars, sessionVars, otherVars>>

(* CheckIpCallback: the client is invited to introduce itself. *)
IpIsAllowed ==
  /\ NetAt("callbacks") /\ query = "ip" /\ answered
  /\ writeQueue' = Append(writeQueue, <<Initializer>>)
  /\ reading' = "init" /\ query' = "none" /\ answered' = FALSE
  /\ netpc' = "poll"
  /\ UNCHANGED <<queueVars, buffer, isWritingAsync, wire, stalls, closeVars, authed, sessionVars, otherVars>>

(* SendAuthResponseError, by CheckIpCallback or HandleAuthSessionCallback ... *)
SendAuthResponseError ==
  /\ NetAt("callbacks") /\ query \in {"ip", "account"} /\ answered
  /\ EnqueueExchange(Net, Response)
  /\ query' = "none" /\ answered' = FALSE
  /\ netpc' = "reject"
  /\ UNCHANGED <<outVars, closeVars, reading, authed, sessionVars, otherVars>>

(* ... and DelayedCloseSocket, which looks at _writeQueue only. *)
DelayedCloseSocket ==
  /\ NetAt("reject")
  /\ closing' = TRUE
  /\ closed' = (writeQueue = <<>>) /\ shut' = (writeQueue = <<>>)
  /\ netpc' = "poll"
  /\ UNCHANGED <<queueVars, outVars, authVars, sessionVars, otherVars>>

(* HandleAuthSessionCallback. *)
AccountIsAccepted ==
  /\ NetAt("callbacks") /\ query = "account" /\ answered
  /\ authed' = TRUE /\ worldSession' = TRUE /\ session' = "created"
  /\ query' = "permissions" /\ answered' = FALSE
  /\ reading' = "read"
  /\ netpc' = "poll"
  /\ UNCHANGED <<queueVars, outVars, closeVars, locked, otherVars>>

(* The session is used without a look at the pointer. *)
LoadSessionPermissionsCallback ==
  /\ NetAt("callbacks") /\ query = "permissions" /\ answered
  /\ session' = "added"
  /\ query' = "none" /\ answered' = FALSE
  /\ netpc' = "poll"
  /\ UNCHANGED <<queueVars, outVars, closeVars, reading, authed, worldSession, locked, otherVars>>

NetCallback ==
  \/ NothingReady \/ IpIsAllowed \/ SendAuthResponseError \/ AccountIsAccepted
  \/ LoadSessionPermissionsCallback

-----------------------------------------------------------------------------
(* Reads. *)

(* CloseSocket by the network thread: only who sets _closed goes on to       *)
(* OnClose.                                                                  *)
NetCloses ==
  /\ closed' = TRUE
  /\ netpc' = IF closed THEN "poll" ELSE "onClose"
  /\ reading' = "none"
  /\ UNCHANGED <<queueVars, outVars, closing, shut, query, answered, authed, worldSession, session,
                 otherVars>>

NetOnClose ==
  /\ NetAt("onClose")
  /\ shut' = TRUE /\ worldSession' = FALSE
  /\ netpc' = "poll"
  /\ UNCHANGED <<queueVars, outVars, closed, closing, authVars, session, locked, otherVars>>

(* The read fails: the client is gone. *)
ReadFails ==
  /\ NetAt("poll") /\ reading # "none" /\ ~peerUp
  /\ NetCloses /\ UNCHANGED locked

(* InitializeHandler and ReadHandler: nonsense. *)
ReadError ==
  /\ NetAt("poll") /\ reading # "none" /\ peerUp /\ IsOpen
  /\ NetCloses /\ UNCHANGED locked

ReadWhenClosed ==
  /\ NetAt("poll") /\ reading # "none" /\ peerUp /\ ~IsOpen
  /\ reading' = "none"
  /\ UNCHANGED <<queueVars, netpc, outVars, closeVars, query, answered, authed, sessionVars, otherVars>>

(* InitializeHandler: HandleSendAuthSession. *)
ReadInitializer ==
  /\ NetAt("poll") /\ reading = "init" /\ peerUp /\ IsOpen
  /\ EnqueueExchange(Net, Challenge)
  /\ netpc' = "rearm" /\ reading' = "none"
  /\ UNCHANGED <<outVars, closeVars, query, answered, authed, sessionVars, otherVars>>

(* The first CMSG_AUTH_SESSION: HandleAuthSession; nothing is read until the *)
(* answer.                                                                   *)
ReadAuthSession ==
  /\ NetAt("poll") /\ reading = "read" /\ peerUp /\ IsOpen
  /\ ~authed
  /\ query' = "account" /\ reading' = "none"
  /\ UNCHANGED <<queueVars, netpc, outVars, closeVars, answered, authed, sessionVars, otherVars>>

(* Any other packet ... *)
ReadPacket ==
  /\ NetAt("poll") /\ reading = "read" /\ peerUp /\ IsOpen
  /\ reading' = "none" /\ netpc' = "handle"
  /\ UNCHANGED <<queueVars, outVars, closeVars, query, answered, authed, sessionVars, otherVars>>

(* ... is for the session, which is looked at under _worldSessionLock.       *)
LockSession ==
  /\ NetAt("handle") /\ worldSession
  /\ locked' = TRUE /\ netpc' = "using"
  /\ UNCHANGED <<queueVars, outVars, closeVars, authVars, worldSession, session, otherVars>>

NoSession ==
  /\ NetAt("handle") /\ ~worldSession
  /\ NetCloses /\ UNCHANGED locked

(* QueuePacket to the session, or SetLatency.                                *)
UseSession ==
  /\ NetAt("using")
  /\ locked' = FALSE /\ netpc' = "rearm"
  /\ UNCHANGED <<queueVars, outVars, closeVars, authVars, worldSession, session, otherVars>>

(* CMSG_LOG_DISCONNECT and CMSG_ENABLE_NAGLE do without the session.         *)
NeedsNoSession ==
  /\ NetAt("handle")
  /\ netpc' = "rearm"
  /\ UNCHANGED <<queueVars, outVars, closeVars, authVars, sessionVars, otherVars>>

(* A CMSG_AUTH_SESSION or CMSG_AUTH_CONTINUED_SESSION when _authed is set:   *)
(* with the lock, if try_lock gets it, the player info of _worldSession is   *)
(* logged without a look at the pointer ...                                  *)
LockDuplicateAuth ==
  /\ NetAt("handle") /\ authed
  /\ locked' = TRUE /\ netpc' = "logging"
  /\ UNCHANGED <<queueVars, outVars, closeVars, authVars, worldSession, session, otherVars>>

(* ... and in any case the socket is closed.                                 *)
LogDuplicateAuth ==
  /\ NetAt("logging")
  /\ NetCloses /\ locked' = FALSE

DuplicateAuthUnlogged ==
  /\ NetAt("handle") /\ authed
  /\ NetCloses /\ UNCHANGED locked

(* HandlePing: SetLatency, and then SendPacket(Pong) without the lock.       *)
AnswerPing ==
  /\ NetAt("using") /\ IsOpen
  /\ ~Contains(enqueued, Pong)
  /\ locked' = FALSE /\ netpc' = "rearm"
  /\ EnqueueExchange(Net, Pong)
  /\ UNCHANGED <<outVars, closeVars, authVars, worldSession, session, otherVars>>

AsyncRead ==
  /\ NetAt("rearm")
  /\ reading' = IF IsOpen THEN "read" ELSE "none"
  /\ netpc' = "poll"
  /\ UNCHANGED <<queueVars, outVars, closeVars, query, answered, authed, sessionVars, otherVars>>

NetRead ==
  \/ ReadError \/ ReadWhenClosed \/ ReadInitializer \/ ReadAuthSession \/ ReadPacket

-----------------------------------------------------------------------------
(* The threads that send, and the client. *)

NextPacket(p) ==
  SelectInSeq(Outgoing[p], LAMBDA n : ~Contains(enqueued, n))

(* SendPacket: the socket is open, ... *)
SendPacket(p) ==
  /\ session = "added" /\ IsOpen
  /\ p \notin sending /\ enq[p] = Idle /\ NextPacket(p) # 0
  /\ p = World => wpc = "idle"
  /\ sending' = sending \cup {p}
  /\ UNCHANGED <<queueVars, netpc, outVars, closeVars, authVars, sessionVars, peerUp, wpc>>

(* ... and the packet is enqueued, open or not by then. *)
SendPacketEnqueues(p) ==
  /\ p \in sending
  /\ EnqueueExchange(p, Outgoing[p][NextPacket(p)])
  /\ sending' = sending \ {p}
  /\ UNCHANGED <<netpc, outVars, closeVars, authVars, sessionVars, peerUp, wpc>>

SendPacketLinks(p) ==
  /\ EnqueueLink(p)
  /\ UNCHANGED <<netpc, outVars, closeVars, authVars, sessionVars, otherVars>>

WorldIdle == wpc = "idle" /\ World \notin sending /\ enq[World] = Idle

(* KickPlayer, for whatever reason: CloseSocket ... *)
KickPlayer ==
  /\ WorldIdle /\ session = "added" /\ ~closed
  /\ closed' = TRUE /\ wpc' = "onClose"
  /\ UNCHANGED <<queueVars, netpc, outVars, closing, shut, authVars, sessionVars, peerUp, sending>>

(* OnClose does not take the lock: a plausible slip. *)
OnCloseUnlocked ==
  /\ wpc = "onClose"
  /\ shut' = TRUE /\ worldSession' = FALSE /\ wpc' = "idle"
  /\ UNCHANGED <<queueVars, netpc, outVars, closed, closing, authVars, session, locked, peerUp, sending>>

(* ... and OnClose, under _worldSessionLock. *)
OnClose ==
  /\ wpc = "onClose" /\ ~locked
  /\ shut' = TRUE /\ worldSession' = FALSE /\ wpc' = "idle"
  /\ UNCHANGED <<queueVars, netpc, outVars, closed, closing, authVars, session, locked, peerUp, sending>>

(* WorldSession::Update finds the socket closed and the session is deleted,  *)
(* while no map is updated.                                                  *)
DeleteSession ==
  /\ WorldIdle /\ session = "added" /\ closed
  /\ MapWorker \notin sending /\ enq[MapWorker] = Idle
  /\ session' = "deleted"
  /\ UNCHANGED <<queueVars, netpc, outVars, closeVars, authVars, worldSession, locked, otherVars>>

PeerGoes ==
  /\ peerUp
  /\ peerUp' = FALSE
  /\ UNCHANGED <<queueVars, netpc, outVars, closeVars, authVars, sessionVars, sending, wpc>>

Finished ==
  /\ netpc = "removed" /\ session # "added"
  /\ UNCHANGED vars

-----------------------------------------------------------------------------
(* What the network thread does once it has begun. *)
NetContinues ==
  \/ NetDequeue \/ NetBuffers \/ NetDrained \/ NetBaseUpdate \/ HandleQueue
  \/ NetCallback \/ DelayedCloseSocket \/ NetOnClose
  \/ LockSession \/ NoSession \/ UseSession \/ AnswerPing \/ AsyncRead
  \/ NeedsNoSession \/ LockDuplicateAuth \/ LogDuplicateAuth \/ DuplicateAuthUnlogged
  \/ SendPacketLinks(Net)

Senders == {World, MapWorker}

SocketNext ==
  \/ NetUpdate \/ NetContinues \/ WriteHandlerWrapper \/ NetRead \/ ReadFails
  \/ DbAnswers \/ PeerGoes
  \/ \E p \in Senders : SendPacket(p) \/ SendPacketEnqueues(p) \/ SendPacketLinks(p)
  \/ KickPlayer \/ OnClose \/ DeleteSession
  \/ Finished

SocketSpec == SocketInit /\ [][SocketNext]_vars

(* Every thread goes on with what it has begun, and the timer of the         *)
(* io_context is not passed over for ever.  Nothing is assumed of the client *)
(* and of the database.                                                      *)
SocketFairSpec ==
  /\ SocketSpec
  /\ WF_vars(NetContinues) /\ SF_vars(NetUpdate)
  /\ WF_vars(\E p \in Senders : SendPacketEnqueues(p) \/ SendPacketLinks(p))
  /\ WF_vars(OnClose \/ DeleteSession)

(* An assumption on the client, which the properties that need it name: it   *)
(* reads, or goes, so that a write that waits for room in the socket is      *)
(* completed.  A client that stays and never reads keeps _isWritingAsync set *)
(* and its packets queued for ever: the socket has no timeout for that.      *)
ClientReads == SF_vars(WriteHandlerWrapper)

-----------------------------------------------------------------------------
(* Properties. *)

(* ServerConnectionInitialize, if it was sent, comes before every packet.    *)
ReceivedPackets == IF wire # <<>> /\ Head(wire) = Initializer THEN Tail(wire) ELSE wire

Connection == INSTANCE PacketStream WITH
  Packets <- Nodes, sent <- enqueued, received <- ReceivedPackets

(* What the client receives is what was sent, from the first packet on, in   *)
(* order: draining, filling buffers, packets larger than a buffer, partial   *)
(* writes and writes that block neither lose, repeat nor reorder anything.   *)
ConnectionIsStream == Connection!StreamSpec

(* Where the network thread uses the session: a packet, the answer to a ping *)
(* and the log of a second authentication under the lock, and the callback   *)
(* that adds the session to the world.                                       *)
UsesSession == netpc \in {"using", "logging"} \/ (netpc = "callbacks" /\ query = "permissions")

(* Whenever the network thread uses the session the world thread has not     *)
(* deleted it: a pointer that is set never dangles.  It is set at every use  *)
(* but one: the log of a second authentication may find it null, when the    *)
(* world thread closes the socket after the test of IsOpen.                  *)
SessionIsAliveWhenUsed ==
  UsesSession =>
    /\ worldSession \/ netpc = "logging"
    /\ worldSession => session \in {"created", "added"}

(* Packets accepted by SendPacket are written unless the connection ends, if *)
(* the client reads: again and again nothing is left over.                   *)
PacketsLeave ==
  ClientReads => []<>(closed \/ ~peerUp \/ ToSet(enqueued) \subseteq ToSet(wire))

(* A closed socket leaves the network thread, and its session the world,     *)
(* whatever the client does.  One marked for closing does so too, once its   *)
(* queue is written.                                                         *)
ConnectionIsGone == netpc = "removed" /\ session # "added"
ClosingEnds ==
  /\ closed ~> ConnectionIsGone
  /\ ClientReads => (closing ~> ConnectionIsGone)

(* "Marks the socket for closing after write buffer becomes empty" and        *)
(* "Sent Auth Response": a client that is refused and stays is told so.      *)
RefusalIsSent == (closing /\ closed /\ peerUp) => Contains(wire, Response)
=============================================================================
