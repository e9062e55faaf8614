# TLA+ models of the world server

This directory models the core of the server: the threads that update maps, the
life of maps and of the players in them, instance ids, instance saves and their
resets, the asynchronous database layer, connections from handshake to removal,
the login queue, trades between players, and combat and threat. It is written
against the sources of this repository, and every definition that stands
for code names the lines it stands for in `PROJECT.json` ("map").

Contents: [inventory](#inventory), [modules](#modules-and-code),
[runs](#runs), [fairness](#fairness), [proofs](#proofs),
[disagreements found](#disagreements-between-code-and-documents),
[what is not modelled](#what-is-not-modelled), [plan](#plan).

To check a run: `tlc -workers 2 -config MapManager_threads.cfg MCMapManager`.
To check the proofs: `tlapm DatabaseProofs.tla`, and the same for the other
`...Proofs` modules.

## Inventory

The world server has one world thread (`World::Update`), a pool of map-update
threads, worker threads for each of the database pools, and network threads. The
world thread runs session handlers, resets and the start of the map updates; map
workers run `Map::Update` in parallel; database workers execute queued statements;
network threads hand over sessions and packets.

| Part | State it keeps | Operations | Interacts with | What is hard |
|---|---|---|---|---|
| `ProducerConsumerQueue` | queue, shutdown flag, a condition variable | `Push`, `WaitAndPop`, `Cancel` | used by map updater and database workers | lost wakeups, shutdown against sleeping consumers |
| `MapUpdater` | `pending_requests`, cancelation token, worker threads | `activate`, `schedule_update`, `wait`, `update_finished`, `deactivate` | called by `MapManager` on the world thread | counting across threads, null request after `Cancel` |
| `MapManager` | `i_maps` | `Update`, `CreateMap`, `DestroyMap`, `LoadInstanceForSave`, `UnloadEmptyInstance`, `UnloadAll` | schedules maps on the updater, called by teleports and resets | maps destroyed while others are updated |
| Maps and far teleport | a map's reference list and unload timer, a player's map reference | `TeleportTo`, `HandleMoveWorldportAck`, login, logout, `Reset`, `CanUnload` | world thread and map workers | a player is linked to the old map until the client's acknowledgement |
| Instance ids | free and freed bitsets, next id | `RegisterInstanceId`, `GenerateInstanceId`, `FreeInstanceId` | start-up, `CreateMap`, resets, lockout seeder | growth, overflow, reuse while deletes are queued |
| Instance saves | saves by id, player lists, binds in memory and in the database, queue of resets | `AddInstanceSave`, `BindToInstance`, `_ResetInstance`, `_ResetSave`, `ResetInstances`, `UnloadIfEmpty` | maps, players, ids, database | resets against entering, leaving and offline players |
| Database pool | queue, connections, MySQL sessions, `_deadlockLock` | `CommitTransaction`, `DirectCommitTransaction`, worker loop, `ExecuteTransaction`, `_HandleMySQLErrno`, `Close` | everything that saves | retries, deadlocks, lost connections, shutdown |
| World sessions | session map, login queue, recent disconnects | `AddSession_`, `RemoveQueuedPlayer`, `UpdateSessions`, `InitializeSession`, `KickAll` | network threads, database callbacks | reconnects, replaced sessions, slots counted twice |
| MPSC queue | a lock-free linked list with a dummy node | `Enqueue`, `Dequeue` | all threads that send packets, the network thread | the list is cut in two inside every `Enqueue` |
| Sockets, network threads | packet queue, write queue, close flags, pending query, session pointer | `SendPacket`, `Update`, `HandleQueue`, reads, `CloseSocket`, `DelayedCloseSocket`, `OnClose` | world thread, map workers, login database, client | partial writes, closing against pending writes, a session deleted by another thread |
| Query callbacks, query holders | pending futures, chained callbacks | `ProcessReadyCallbacks` | database pool, sessions, sockets | callbacks that outlive what they capture |
| Realm list server | authentication state of a connection | challenge, proof, reconnect | its own process | order of messages |
| Bot population, control, spell queue, lockout seeder | bots, cohorts, queued casts, seeded lockouts | load, cohort, cast, seed, read back, roll back | maps, saves, ids, database | partial failure in the middle of seeding |
| Groups, loot, dungeon finder, battlegrounds | members, rolls, proposals, queues | join, leave, roll, propose, accept | sessions, instances | timeouts against late answers |
| Trade | the two `TradeData`, acceptance, state index; bags, money and their rows | initiate, set item, set gold, cast, accept, unaccept, cancel | inventories, saves, clients that show an older state | late acceptances, items used up while offered, a crash between saves |
| Combat and threat | combat references in two managers, suppression, threat lists, victims | `SetInCombatWith`, `EndCombat`, `AddThreat`, `ClearThreat`, `CombatStop`, evade, `Update` | creature scripts, called in the middle of changes | re-entrance, raw pointers collected before a call |
| Auctions, mail | items and money on the move | bid, send, return, expire | database | conservation over a crash |
| Events, movement | timed events, motion stack | add, abort | map workers | changes during iteration |
| Spells, AI, scripts, data stores, logs, configuration | game rules and static data | | | little control state of their own |

What makes the modelled parts correct, in a line each:

- the queue loses no wakeup, and a shut down queue lets nobody sleep;
- `wait()` returns exactly when the last scheduled update has ended; no map is
  updated twice at a time, after its destruction, or while the world thread works
  on maps;
- a player is never linked to a map that was deleted, and an instance somebody
  plays in is not unloaded;
- an instance id in use is not handed out again, none is lost, and a freed id can
  be told from a clean one;
- binds, saves and player lists agree, every bind comes with a scheduled reset (ids
  below 2^16), and
  a player enters the instance it is bound to;
- a transaction is stored once and as a whole or not at all, and its result says
  which; operations overtake one another only between workers; every one ends;
- the login queue has no dangling or forgotten session, keeps the limit, passes
  every freed slot on, and lets nobody overtake;
- a client receives what was sent, in order, and nothing sticks; a socket that is
  closed goes, and nobody uses a deleted session;
- a trade gives both players what they accepted, and neither a trade nor a crash
  loses or doubles anything, what `moveItems` refuses aside;
- a unit is in combat iff it has an unsuppressed reference, every reference is in
  both managers, threat implies combat, and nothing refers to the dead.

The full list of hazards, each at its source line and with the properties that
cover it, is "hazards" in `PROJECT.json`.

## Modules and code

```
ProducerConsumerQueue ── MapUpdater ──┐
        │                             ├── MapManager ── MCMapManager, MapManagerProofs
        │              InstanceMap ───┘
        │                   └──────── InstanceSaves ── MCInstanceSaves, InstanceProofs
        │              InstanceIds ───┘
        │                   └── InstanceIdAllocation ── InstanceProofs
        ├── ProducerConsumerQueueProofs
        └── DatabaseWorkerPool ── MCDatabase, DatabaseProofs
                 └ implements AtomicStore
MPSCQueue ── WorldSocket ── MCWorldSocket, WorldSocketProofs
    └ implements    └ implements PacketStream
WorldSessions ── MCWorldSessions, WorldSessionsProofs
Trade ── MCTrade, TradeProofs
Combat ── MCCombat, CombatProofs
```

Names follow the source; an operator called `...Unchecked`, `...WithoutNotify` and
so on, commented "a plausible slip", is a deliberately wrong variant of the
definition below it. No specification uses it; it is there to show that a property
notices the slip ("mutants" in `PROJECT.json`).

**ProducerConsumerQueue** (`src/common/Threading/ProducerConsumerQueue.h`). Each
critical section of `_queueLock` is a step. A consumer is outside `WaitAndPop`,
about to test the loop condition (`ready`), or asleep (`waiting`). `notify_one`
wakes any one sleeper, and spurious wakeups are allowed. The out parameter keeps
`nullptr` when the queue is shut down.

**MapUpdater** (`Maps/MapUpdater.cpp`). `pending_requests`, the token, where the
world thread is inside the updater (`caller`) and where each worker is (`wpc`). A
request is its map. `UpdaterInit` starts any subset of the worker threads, none
included (`MapUpdate.Threads = 0`). A worker that would call through the null
request of a shut down queue becomes `crashed`.

**InstanceMap** (`Maps/Map.cpp`, `MapManager.cpp`, `MovementHandler.cpp`,
`Player.cpp`). `mapOf[p]` is the target of the player's map reference and
`inWorld` says who is in the world: in a far teleport a player is linked but not in
the world. `unloadTimer` counts map updates; `CanUnload` and `CountedDown` are the
test and the effect of `Map::CanUnload`. Grids, creatures and visibility are left
out: no property is about them.

**MapManager** (`Maps/MapManager.cpp`). Composes the two. `mpc` is where the world
thread is: in the rest of `World::Update`, in the loop over `i_maps` (`scan` holds
what is left of it), waiting, in `DelayedUpdate`, or shutting down. One iteration of
the loop is a step, so workers run between the iterations. During an update any
player inside may leave the map (`PlayerLeavesDuringUpdate`; with no workers,
`ScanUpdates`).

**InstanceIds, InstanceIdAllocation** (`MapManager.cpp`, `InstanceSaveMgr.cpp`).
The free and freed bitsets as sets, `capacity` as their size, `nextId`. The
allocation module adds the start-up (any instance table, its ids registered in
ascending order as `ORDER BY id ASC` gives them), callers that free what they were
given, and the shutdown on overflow. `MaxInstanceId` stands for `0xFFFFFFFF`.

**InstanceSaves** (`Instances/InstanceSaveMgr.cpp`, `Map.cpp`, `MapManager.cpp`,
`Player.cpp`, `Unit.cpp`). Normal dungeons entered without a group. The model
keeps the saves in memory, the player lists, the binds in memory and in the
`character_instance` table, the saved instance of each character, and the queue of
reset events with their own times, which differ from the reset time of the save, and
with the instance id as `InstResetEvent` keeps it, cut to 16 bits (`EventId`).
An action is a whole handler: `AddPlayerToMap` creates the save, schedules its
reset and binds the player; `Logout` takes the player off the list, unloads
the save, unlinks the player and reschedules. The statements for the database
are executed in order, so its tables are written at once.

**AtomicStore, DatabaseWorkerPool** (`src/server/database/Database`).
`AtomicStore` is the promise: an operation is submitted, then committed as a
whole, failed or discarded without a trace. `DatabaseWorkerPool` is the code: the
queue, the worker loop, `ExecuteTransaction` statement by statement, retries under
`_deadlockLock` and those of `DirectCommitTransaction`, `_HandleMySQLErrno`, and
`Close` with token, cancel and join. The MySQL server is external: it executes a
statement, fails it, reports a deadlock and rolls back, refuses START TRANSACTION
(the statements then run in autocommit mode) or COMMIT, loses the connection, or
cannot be reached. `ExecuteTransaction` looks at neither of these two results. It is
assumed of the server that a COMMIT that reports an error has rolled back, and that
ROLLBACK is not refused. The result of the property `ImplementsAtomicStore` is a
refinement with `stored` and `outcome` mapped to themselves; everything else is
hidden. `stored` counts how often each statement took effect, so a statement
executed twice is noticed.

**WorldSessions** (`World/World.cpp`, `Server/WorldSession.cpp`). Sessions arrive
from network threads, replace the old session of their account, wait or are
initialised; sockets close at any time and the limit is changed at run time. A
session is an account and a connection number, and a deleted one may return, as
memory is reused. `admitted` is a history variable: the sessions
`InitializeSession` was called for. There is no clock: `HasRecentlyDisconnected`
is modelled by what it computes, which is that an account with an entry always is
recently disconnected (see below).

**PacketStream, MPSCQueue, WorldSocket** (`common/Threading/MPSCQueue.h`,
`shared/Networking/Socket.h`, `NetworkThread.h`, `Server/WorldSocket.cpp`).
`PacketStream` is the promise of a queue of packets: what was sent arrives in that
order, none twice and none skipped. `MPSCQueue` has one step per access to the
shared head or to a link, with the dummy node that `Dequeue` puts behind the last
one. `WorldSocket` is one realm connection: `netpc` is where its network thread is
in `Update`, in a callback of the handshake or in a read, and the world thread and
a map worker send, kick and delete the session meanwhile. A write takes everything,
a part or nothing, or fails; the client may go and the database may never answer.
That a write fails with another error than `would_block` only when the peer is gone
or the socket shut is assumed of the network stack: the code drops the front buffer
then and leaves the socket open (`Socket.h:237-240`), so an error on a connection
that lives on would leave a gap in the stream. A second CMSG_AUTH_SESSION or
CMSG_AUTH_CONTINUED_SESSION is logged, if the lock is free, with whatever
`_worldSession` is then, and closes the socket.
A packet is the smallest part of a write, so the buffers of `_writeQueue` are
sequences of packets. Two refinements to `PacketStream` are checked: the queue
alone, and the whole way from `Enqueue` to the client.

**Trade** (`Handlers/TradeHandler.cpp`, `Player/TradeData.cpp`, parts of `Player`,
`Item`, `Spell`). All handlers run on the world thread; what races is the client.
`shown[p]` are the states of the partner's offer that the client of `p` was sent,
and an acceptance names one of them, any one, as its packet may have been on its
way for long. The random server state index is the position in that sequence.
`HandleAcceptTrade` is split into its ways out: no trade, stale index, too little or
too much money, an item that cannot be traded, the first of two acceptances, a
spell that fails, no space, and the exchange. `saved` are the rows of the database: the exchange writes
those of both players in one transaction, `SaveToDB` those of one, and `Crash`
puts the game back to the rows. The limit of a kind of items (`MaxCount` of a
template, or its limit category) is asked by `CanStoreItems` for each item alone and
again by `moveItems` with the earlier ones stored. An item refused there goes back to
its owner if it fits. `CanStoreItem` appends to a `dest` that may already name the
place of the partner's item of the same slot, in which case `StoreItem` puts a copy
there (`x.copy`). An item that does not fit back is in nobody's bags (`lost`), and its
row stays in the database until another item is saved in its place; the next login
or restart then brings it back (`StaleRows`). Money is paid in any case. An
item takes one slot: stacks are not merged, and items of a limited kind do not stack
(`LimitAssumption`). A start says who is online, who has what and how often offers
are changed.

**Combat** (`Combat/CombatManager.cpp`, `Combat/ThreatManager.cpp`, `CreatureAI.cpp`,
`Unit.cpp`). The record `m` holds both managers of every unit. One thread updates
a map, so the difficulty is not concurrency but re-entrance: `ClearThreat` and
`AddThreat` may select a victim and tell the creature's AI of it, and the script
called by `JustEngagedWith` may engage others or evade, which changes the managers
that are in the middle of something. `stack` is the explicit call stack; a step is
what a call does up to the next one that may run a script. A pointer kept across
such a call and used after its object was freed clears `m.ok`, and so does an
assertion that would fail. `handedOff` remembers that a script was called while
`EndCombat` or `RemoveMeFromThreatLists` was half done.

## Runs

| Run | Model | Distinct states | Expected |
|---|---|---|---|
| `map_threads` | 0 to 2 workers, 2 players, an instance, a battleground, timer 2, fair | 150,013 | pass |
| `instance_ids` | ids up to 6, every instance table up to id 4 | 641 | pass |
| `instance_saves` | 2 players, 2 instances (ids 1 and 3, a raid has 2), event ids cut to one bit, time 0 to 3, resets after 1 | 407,044 | pass |
| `database` | 2 workers, 1 synchronous connection, 4 operations, 3 deadlocks, errors or refused COMMITs | 2.5 million | pass |
| `database_liveness` | 2 workers, 1 synchronous connection, 2 transactions, 2 faults: deadlocks, refused BEGINs, lost and dead connections, fair | 184,842 | pass |
| `database_lost_connection` | 1 worker, 1 transaction, 1 lost connection | | violated |
| `login_queue` | 2 players with 2 connections each, 1 of the staff, limit changing among 0, 1, 2 | 1.7 million | pass |
| `staff_slots` | the same, limit 1 | | violated |
| `sockets` | 3 producers, 5 packets, one larger than a buffer, 1 write that blocks, fair | 366,567 | pass |
| `refusal_lost` | the same | | violated |
| `trade` | 3 players, a stack of 2 used up piece by piece and money, 2 changes of an offer; or 2 players, 3 rings of which nobody may have 3, 2 gems, 4 changes; 2 traded slots, bags of 2 and 4 | 195,801 | pass |
| `combat` | 2 creatures, 2 players, 4 pairs of enemies, scripts that engage twice | 725,235 | pass |

What they show:

- `map_threads`: no request is lost, dropped or run on a destroyed map, no two
  workers are in one map, none is in a map while the world thread is outside its
  update, and none calls through null at shutdown (`UpdatesAreSafe`);
  `pending_requests` is exact; players are linked to maps that exist, and an
  instance with somebody inside is not counting down (`PlayersKeepTheirMaps`);
  every tick ends, an empty instance that counts down goes, and the shutdown joins
  all workers.
  Two workers are enough for every race between workers, two
  players for one in transit while the other acts, and one map of each kind for
  every kind of unload. A timer of 2 separates "counting" from "expired". No world
  map is needed: it is scheduled and updated as every map is and is never unloaded,
  as a battleground for which `SetUnload` is not called.
- `instance_ids`: the four parts of `IdsAreSound` about the allocator for all tables up to id 4 and
  all orders of allocation and release until ids run out. Growth and overflow both
  happen. The overflow branch returns `0xFFFFFFFF` after asking for the shutdown; no
  caller uses the id in the model.
- `instance_saves`: binds, saves and lists agree, every bind, online or only in
  the database, to an instance whose id an event can keep has a scheduled reset, and
  everybody enters the bound instance. `EventIdLimit` stands for 2^16. With a limit
  of 2, id 3 is cut to 1: its reset hits instance 1, and instance 3 itself is never
  reset. The raid's id 2 in the table makes 1 and 3 the two lowest free ids, so
  both sides of the limit occur with two instances; ids cut to 0 are left to the
  proofs. Time 3 with a delay of 1 lets an instance be created, reset and created anew under its
  old id with another player still in the old map.
- `database`: the refinement and the order of settlement. Four operations are a
  transaction of two statements, another like it, an empty one and a lone
  statement; two statements are the fewest for which "in part" means something. Three
  faults with one synchronous and two asynchronous retries let a transaction
  exhaust its retries. A COMMIT that is refused stores nothing and is reported as
  success, which `AtomicStore` allows only for servers that refuse COMMITs
  (`CommitMayFail`). `AsyncRetries` stands for the time limit
  `DEADLOCK_MAX_RETRY_TIME_MS`: any number of attempts up to it may be made.
- `database_liveness`: every operation ends and `Close` ends, with retries queued
  behind `_deadlockLock`, BEGINs refused, lost connections and connections that died.
- `login_queue`: the queue has no dangling, doubled or forgotten session and nobody
  loads a player from it (`QueueIsSound`), a slot that comes free is passed on
  while the limit stays, nobody is let in beyond the limit, staff and the recently
  disconnected aside, and nobody overtakes. Two connections of an account are
  what a reconnect needs, two players and one of the staff what a queue and a
  bypass need.
- `sockets`: the queue and the connection are FIFO streams; accepted packets leave
  unless the connection ends, provided the client reads; a closed socket is removed
  and its session deleted whatever the client does, one marked for closing once the
  client has taken what is queued; a session pointer that is set is never
  dangling when the network thread uses it, and is null at no use but the log of a
  second authentication. Five packets
  are the handshake, a ping answered and one packet of each other thread; that
  makes every race of two producers with the consumer, and the large packet the
  case that replaces a buffer.
- `trade`: trades are paired, an acceptance is about the current offer, the
  exchange is what both clients showed, and items and money are conserved in
  the game and in the database at every crash point, but for what the error branch
  of `moveItems` loses or copies. There are two starts. In the first a third player
  interferes, a stack is used up while it is offered, and a money limit of 1 makes
  the refusal of a full purse happen. In the second one player has two rings, the
  other a third one and two gems, and nobody may have more than two: offered both
  rings, the second is refused after the first was stored; given back, it finds its
  own slot, a slot that a gem has taken, or the place the refused gem had been
  promised. Bags of 2 and 4 make full bags, lack of space and all of these
  outcomes occur; `new` is the guid of the copy.
- `combat`: flags, references of both sides and their objects agree at rest whatever
  scripts did (`InCombatIffReferenced`); threat implies combat, nothing freed is
  used, and no reference names the dead or absent, as long as no script was
  called in the middle of an ending combat. Four pairs of enemies, with two
  players that hide, are the fewest in which that happens, so the condition is
  not vacuous; the run stops calling once it has.

Symmetry is used where the cfg says so, over workers or players only, and in no
run with a liveness property. Deadlock is checked in every run; models that may end
have an explicit step for it.

## Fairness

`MapManager!FairSpec` assumes weak fairness of each worker (its spurious wakeups
aside), of the steps of a begun `MapManager::Update`, of the call of `Update`
(the world loop calls it again and again) and of the begun shutdown. That is what
the operating system's scheduler and the condition variables give. It assumes
nothing of players, of resets or of the start of the shutdown.
`DatabaseWorkerPool!DbFairSpec` assumes weak fairness of each worker (again without its
spurious wakeups), of each connection in use (a statement sent is executed or fails), and of the begun close;
none of callers, of the start of the close, or of any fault. Locks are free of
strong fairness because nothing competes for ever: faults are finitely many
(`MaxFaults`). That is an assumption on the environment. The code bounds the retries
of a deadlocked transaction, but not the reconnects: a server that loses every
connection right after it was opened keeps `_HandleMySQLErrno` and `Execute` calling
each other for ever. `WorldSocket!SocketFairSpec` assumes weak fairness of what a thread has begun
(the network thread, `SendPacket`, the close and deletion by the world thread)
and strong fairness of the update timer: the io_context serves handlers in the
order in which they become ready, so reads cannot keep it out for ever. It assumes
nothing of the client and of the database. `PacketsLeave`, and `ClosingEnds` for a
socket that is only marked for closing, need more and say so: their premise
`ClientReads` is strong fairness of the completion of a waiting write. A client that
stays connected and never reads keeps `_isWritingAsync` set (`Socket.h:62`), and the
code has no timeout for it: its packets stay queued and a delayed close never comes.

## Proofs

Proved by TLAPS for every value of the constants that satisfies the named
assumptions of the modules:

- `ProducerConsumerQueueProofs!QueueCorrect`: no wakeup is lost
  (`WorkConserving`: while a consumer sleeps, there are at least as many awake
  consumers inside `WaitAndPop` as elements), and nobody sleeps after `Cancel`.
  Assumes finitely many consumers. `WorkConserving` is not inductive alone: a
  consumer that leaves a shut down queue lowers the number of awake ones. The
  invariant `QueueIInv` adds `NobodySleepsAfterShutdown` and the types.
- `MapManagerProofs`: `ManagerTypeCorrect`, `PlayersKeepMaps`,
  `PendingRequestsExact`, `MapUpdatesAreSafe` and `WorkersAreWoken`, for any number
  of workers, players and maps and any unload timer. The inductive invariant has
  three parts. `QueueIInv` is the invariant of the queue above, with the workers
  as its consumers. `MapInv` is the types of the maps and `PlayersKeepTheirMaps`,
  which is inductive with them. `UpdaterInv` ties the threads together: where a
  worker is in `WaitAndPop` agrees with where it is in `WorkerThread`, and it comes
  back without a request only after the shutdown (`WorkersInv`); the world thread is
  inside the updater only where the manager called it, and the token is set before
  the queue is shut down (`CallerInv`); a request is queued or carried by one worker,
  is for a map that exists and that the loop has passed, and no map has two
  (`RequestsInv`). `UpdatesAreSafe` needs all of that: the loop destroys maps while
  workers run, and only the maps it has not passed.
- `InstanceProofs`, allocator: `AllocatorCorrect` and `HandedOutIdsAreNew`: the next
  id is the lowest free one, no live id is free, none is lost, an id that was never
  freed has had no owner, and no id in use is handed out; `AllocTypeCorrect`. The
  invariant `AllocIInv` adds `LoadingAscends`: while the table is being registered,
  the ids still to come are free and above all registered ones. That is why
  `RegisterInstanceId` may do with `++_nextInstanceId`.
- `InstanceProofs`, saves: `SavesTypeCorrect`, `BindsNeverDangle`
  (`BindsMatchSaves`), `BindsExpire` (`EveryBindExpires`) and
  `PlayersEnterTheirOwnInstance`, for any players, ids, times and width of the event
  id. The invariant
  `SavesIInv` adds that a player who is offline has no bind in memory
  (`OfflineIsUnbound`), that every save in memory has its reset scheduled, which is
  why a bind to a loaded save needs no new event (`SavesAreScheduled`), both for ids
  below the limit only, and that every id of a map or an event, the 0 of a cut id
  included, is inside the bitset of ids, on which the `FreeInstanceId` of a reset
  relies (`IdsAreInRange`). A stray reset of an instance by a cut id takes its binds
  away with the save, which is why those that are left still have their event.
- `TradeProofs`: `TradeTypeCorrect`, `TradesStayPaired`, `AcceptanceIsCurrent`,
  `ExchangeCorrect` (the action property `ExchangeIsAgreed`), `ItemsStayConserved`
  and, with the money, `GoodsStayConserved`, for any players, items, slots and size of
  bags. `DeskInv` relates the two `TradeData` and what the clients were shown of them: trades are
  paired, the last state shown to a client is the partner's offer but for items
  that were used up since, and an acceptance is about that state. It holds between
  the handlers but not inside them, where an offer changes before the acceptances
  are taken back, so there is one lemma per call (`SetItem`, `SetMoney`, `SetSpell`,
  the updates to the client) over a desk that is right but for one player.
  `ItemsInv` says that an item that exists and is not lost is in the bags and the
  rows of one player, that rows out of date hold only items that were used up or
  lost, that bags and rows fit, and that what exists was there at the start or is a
  copy. For the exchange the proof needs what a bag holds after any number of slots
  (`BagAfterIs`), that the bags stay apart (`BagsStayApart`) and that they
  still fit, which follows from the check of the last slot that put something in
  (`LastSlot`, `MovedFits`). That nothing is refused when no kind is limited is shown
  on the first slot that is not done (`FirstSlot`, `RoomBefore`, `AllSlotsDone`):
  `CanStoreItems` has counted the room for it and all before it.
  `MoneyInv` says that what a player owns and has spent is what the rows say, so that
  a crash changes nobody's wealth, and that the sum over the players is the one at
  the start. A trade adds to one player what it takes from the other, which leaves
  the sum (`SumOfTransfer`). That `MapThenSumSet`, a fold that chooses which element
  comes next, is a sum in any order is shown without induction, on a smallest
  counterexample: additive functions exist on a finite set (`AdditiveExists`), they
  satisfy the equation of the fold, and nothing else does (`FoldIsAdditive`).
  Assumes, beside the bounds, that there are finitely many players
  (`PlayersAssumption`), that there are finitely many traded slots, numbers, and the
  last slot is not one of them (`SlotAssumption`), that items of a limited kind do not
  stack (`LimitAssumption`) and that `None` is none of the other values.
- `WorldSocketProofs`: `SocketTypeCorrect`, `SessionStaysAlive`
  (`SessionIsAliveWhenUsed`) and `QueueRefinesStream`: the lock-free queue implements
  `PacketStream` in every behaviour of the socket, for any number of sending threads
  and packets. The list is cut in two inside every `Enqueue`, so `QueueIInv` keeps
  a list of nodes: the packets in the order of their exchanges of the head, with the
  dummy node at a position among them; neighbours are linked, or a sender is between
  its exchange and its link there (`Cut`). `Dequeue` then takes the next packet of
  the list or finds a cut and returns nothing. `HandshakeInv` and `SendersInv` say
  that no packet is sent twice, and `SessionInv` which thread may delete the session
  at which point of the close; a second authentication is logged under the same lock,
  so it finds a live session or none. `ConnectionRefinesStream` says the same of the whole
  way to the client, for any sizes of packets and buffer and any partial, blocked or
  failing write: what the client has received is always a beginning of what was
  enqueued. `ConnectionIInv` adds `FlowInv`: the initializer and the packets in the
  order of their exchanges form one line (`Line`); the wire is the beginning of it,
  and while the connection is up `_writeQueue` and the buffer behind it are what
  follows, to the last packet that `Update` has buffered. A queue of buffers is
  described by where each one starts and ends in the line (`Splits`, `Spans`,
  `OnItsWay`), not by the concatenation of its buffers, so every step moves one
  position and no induction over the data is needed. `GotInv` says what `Dequeue`
  returned last, `QuietInv` that nothing is sent before the address of the client is
  checked, `ShutInv` that only a closed socket is shut down. Assumes that threads are
  distinct, that every `SendPacket` allocates its packet (`PacketsAreDistinct`) and
  that packets and buffer have a size (`SizeAssumption`).
- `WorldSessionsProofs`: `WorldTypeCorrect`, `LoginQueueIsSound` (`QueueIsSound`),
  and of the action properties `FreeSlotsAreFilled`, `PlayerLimitIsRespected` and
  `NobodyOvertakes`, for any accounts, connections, staff, limits and tolerance.
  `WorldIInv` adds to the types that the session of an account is its own
  (`OwnSession`), that a session is handed over once and is then not listed yet
  (`ArrivedOnce`), that whoever is in the queue has `m_inQueue` and was not
  initialised (`Waiting`), and that every open session is in the queue or was let in
  (`Accounted`). `Leaving` says what `RemoveQueuedPlayer` does to a queue without
  repetitions. The action properties count: an account has one session, so finitely
  many are listed, and those let in are among the listed ones that do not wait. In
  the step that deletes a session `RemoveQueuedPlayer` runs twice. The second call
  does not find the session, which is still listed, and takes it off the count, so it
  accepts one more only if a slot is left. Assumes finitely many accounts and that
  `None` is no session (`NoneAssumption`).
- `CombatProofs`: `CombatTypeCorrect`, `CombatFlagsAreRight`
  (`InCombatIffReferenced`), `ThreatNeedsCombat` (`ThreatImpliesCombat`),
  `ReferencesNeverDangle` (`NoDanglingReference`) and `AbsentAreForgotten`
  (`AbsentUnitsAreForgotten`), for any creatures, players and enmities and any number
  of acts of the scripts. The calls in progress are a stack, so `CombatIInv` is about
  the stack as much as about the managers. Whatever scripts do, an entry and its
  reference agree except for the reference whose `EndCombat` is under way (`RefsOK`),
  and loops over the units of the map and removals from it start at rest (`BottomOK`);
  that gives the theorem on the flags, also for the calls a script interfered with, as
  long as nothing freed is used (where the model stops, as it does when those calls
  have returned). The last three theorems hold, as the properties say, until a script
  is called while a combat ends. Their part of the invariant says that until then only
  notifications of the AI run above a call that still uses a reference (`ShapeOK`),
  that what a call in progress still uses exists (`DueOK`), that whoever is gone or
  about to go has no combat nobody will end (`CoverOK`), and that scripts run before
  the references of a leaving player are collected (`GoneOK`). Engaging from inside
  such a call is harmless because it only adds references. Assumes that creatures and
  players are disjoint and that `None` is no unit (`CombatAssumption`).
- `DatabaseProofs!PoolImplementsAtomicStore`: if no START TRANSACTION is refused and
  no connection is lost (`SessionsLast`, the hypothesis of the theorem), the pool implements `AtomicStore`, for any number
  of workers, connections, operations, faults and retries. The invariant `DbIInv` says
  that what a thread or the queue holds is unsettled and held once (`HeldIsQueued`,
  `HeldApart`, `QueueIsQueued`), that an operation is stored as a whole and
  reported, or not at all (`Clean`), and that between BEGIN and COMMIT exactly the
  statements executed so far are in the open session (`SessionOK`). There is one
  lemma per action; each shows the invariant and the step of `AtomicStore` at once.
  A second invariant, `InsideIsEmpty`, says that a worker inside `WaitAndPop` has
  no operation yet, which the lemma on popping needs. The
  hypothesis is needed: `database_lost_connection` shows that the conclusion fails
  without it. COMMITs may be refused: such a transaction is the step `Forget` of
  `AtomicStore`, reported as stored with nothing stored.
- `DatabaseProofs!OperationsSettleInOrder` and `PoolTypeCorrect`, without that
  hypothesis. `OrderInv` says that the queue is the rest of what was pushed until the
  shutdown (`QueueIsRest`), that what the workers have begun is a prefix of it
  (`BegunInOrder`), that everything carried is carried once and open
  (`CarriedIsOpen`), and that for every settled operation some worker carries nothing
  pushed before it (`SomebodyIsBeyond`): first the worker that settled it, which takes
  only later operations from then on. The unsettled ones before it are then carried
  by the other workers, one each, which bounds their number.

Only model-checked: all liveness (`TickEnds`, `EmptyInstanceGoes`, `ShutdownEnds`,
`EverySubmissionSettles`, `CloseEnds`, `PacketsLeave`, `ClosingEnds`), which is out of
the prover's reach. Every invariant, action property and refinement that a passing
run checks is also a theorem; `ImplementsAtomicStore` is proved, and checked, for
servers that open the transactions they are asked to and keep their connections.

What the properties do not say: `EmptyInstanceGoes` follows an instance whose timer
runs, not one whose timer is never started; `ThreatImpliesCombat` and
`NoDanglingReference` leave out the scripts called while a combat ends;
`LimitIsRespected` and `NoOvertaking` exempt the recently disconnected, and since the
tolerance never ends (below) these are exempt for ever; `EveryBindExpires` is about
ids below 2^16.

## Disagreements between code and documents

Three runs are expected to end in a violation: each states what a comment or the
configuration file says, and TLC shows the code doing otherwise.

- `database_lost_connection`: a transaction "will automatically rollback if not
  commited" (`DatabaseWorkerPool.h:169`), but after a reconnect in the middle of
  it the remaining statements are executed in autocommit mode. So they are when
  START TRANSACTION is refused, whose result nobody looks at.
- `refusal_lost`: `DelayedCloseSocket` "Marks the socket for closing after write
  buffer becomes empty" (`Socket.h:129`), but it looks at `_writeQueue` only. The
  answer of `SendAuthResponseError` is still in `_bufferQueue`, so the socket is
  closed at once and the refused client gets no answer.
- `staff_slots`: `PlayerLimit` is the maximum "Excluding Mods, GMs and Admins"
  (`worldserver.conf.dist:280`), but sessions that skip the queue are counted like all
  others: one of the staff takes the slot a player waits for (`StaffTakesNoSlot`). What
  `FreeSlotIsFilled` calls a free slot is a free one in the code's count.

Seen while modelling, in the models but without a run of their own:

- Combat: `EndCombat` is to leave references "in a consistent state before you
  hand off" (`CombatManager.cpp:60`), but its first call, `ClearThreat`, may select
  another victim and call that creature's script while the reference is still
  in both managers. A script that engages then leaves threat without combat when the
  rest of `EndCombat` has run, and one that evades deletes the reference that
  `EndCombat`, or the threat entry that `RemoveMeFromThreatLists`, uses next. It takes a creature
  that is in combat but not engaged yet (its target was out of sight) and a
  second target that comes into sight in between.
- Trade: an acceptance refused for an item that cannot be traded
  (`TradeHandler.cpp:297`) leaves the player accepted, against the comment at line
  239. The checks are repeated at the partner's acceptance, so the exchange is still
  the agreed one (`ExchangeIsAgreed`).
- An instance is to be unloaded "if no characters are inside"
  (`worldserver.conf.dist:951`). When one player is on its way out by a far teleport
  and the other one leaves, two players are still linked, so
  `InstanceMap::RemovePlayerFromMap` does not start the timer, and nobody starts it
  later.
- "the instance will be created for the first time" (`MapManager.cpp:214`), but a
  reset frees the id of a map with players in it, and the next generated id leads
  into that map.
- "Tolerance (in seconds) for disconnected players before reentering the queue"
  (`worldserver.conf.dist:397`), but the arguments of `difftime` are swapped and
  the tolerance never ends.
- Trade: `moveItems` returns refused items "to the original owner"
  (`TradeHandler.cpp:155`), but one that does not fit is left in nobody's bags, and one
  whose partner's item had a place is returned twice, as itself and as a copy.
  `CanStoreItems` does not exclude it, as it asks for the limit of a kind item by item.
  The money is paid and both inventories are saved.
- The comment at `WorldSocket.cpp:443` says that a duplicate CMSG_AUTH_SESSION is
  logged "safely", but `_worldSession` is used without a look: when the world thread
  has closed the socket after `ReadHandler`'s test of `IsOpen`, it is null. The same at
  line 463.
- `InstResetEvent` keeps the instance id in 16 bits (`InstanceSaveMgr.h:170`). From id
  65536 on, an instance is never reset and another one is in its place, at the wrong
  time. For a multiple of 65536 the reset frees id 0, against "never allow 0 id"
  (`MapManager.cpp:474`); the next instance would get it and
  `ASSERT(mapSave)` in `InstanceMap::AddPlayerToMap` ends the server.
- A COMMIT that fails with an ordinary error is reported as success, with nothing
  stored (`MySQLConnection.cpp:451`).
- The reply to COMMIT may be lost: the second COMMIT finds no transaction, and the
  caller is told success whether or not the first took effect.
- `SetMap` links a player before `AddPlayerToMap`, so the "no players yet" test of
  `SetResetSchedule(false)` (`Map.cpp:2770`) fails and the reset scheduled for a new
  instance is not cancelled; it falls due with players inside.
- `Unit::Kill` (`Unit.cpp:10736`) moves the reset time of the save, not the
  scheduled event, so the reset comes at the old time.
- `MapManager::Update` destroys a map and erases its entry without `_mapsLock` while
  workers already update other maps, whereas the comment at `MapManager.cpp:277`
  says that this happens between map updates. No map in use is destroyed
  (`UpdatesAreSafe`).
- After a reconnect that fails with an unlisted error, `m_Mysql` is null and
  `ExecuteTransaction` can return 0 for a transaction that was never sent.
- `DatabaseWorkerPool::Close` discards what is still queued, the saves of the final
  `KickAll` included.
- A raised `PlayerLimit` lets nobody in from the queue until a session goes.

## What is not modelled

Components with status `not_modelled` in `PROJECT.json` are listed there with the
reason. In the modelled parts: `Map::Update` itself (grids, creatures, scripts) is
a step in which players may leave; data races on containers shared by map workers
(`InstanceSaveManager` is used without a lock from several maps) are not, because
the models give each handler its own step; query results, query holders,
prepared-statement binding and `KeepAlive` are left out of the database model, whose
queue holds writes only; group binds, permanent binds of raids and heroic
dungeons, the weekly reset and a restart are not in `InstanceSaves`; idle
timeouts and logout timers are not in `WorldSessions`; instance connections (the
connect-to handshake), the distribution of new sockets over network threads,
header encryption and the completion-port variant are not in `WorldSocket`; what a
spell does to the item of the last trade slot, items that leave the bags by
bank or mail, and the charges, enchantments and durability that the window shows, are
not in `Trade`; a COMMIT or ROLLBACK refused with the transaction left open is not in
`DatabaseWorkerPool`; threat amounts, taunts, fixation, redirects,
pets, `InheritCombatStatesFrom`, `RevalidateCombat`, the immunity flags, and
scripts that kill or despawn are not in `Combat`. Game rules over data rows
(spells, auras, loot tables, scripts of encounters) have no compact control state
and make up most of the repository's lines.

## Plan

Done: the parts above. Next, in this order:

1. `InstanceSaves` with group and permanent binds, the global resets and a restart,
   composed with the statements still queued in the database; the lockout seeder on top of it (seed, read back, roll back).
2. Session life: idle timeout, logout, the callbacks and query holders a session
   waits for, and what they capture; the second connection of a session.
3. The event processor and the motion stack (changes during iteration); group
   loot, dungeon finder and battleground queue (answers after timeouts); auction
   and mail (conservation over partial failure).
4. The lock discipline of the managers that map workers share.
