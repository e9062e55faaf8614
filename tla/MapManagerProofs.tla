--------------------------- MODULE MapManagerProofs ---------------------------
(***************************************************************************)
(* The map manager, its update threads and the players, for any number of   *)
(* threads, maps and players: what the locks of the code do not protect is  *)
(* protected by the order in which the world thread goes through            *)
(* MapManager::Update.                                                      *)
(***************************************************************************)
EXTENDS MapManager, ProducerConsumerQueueProofs

-----------------------------------------------------------------------------
(* Maps and players.  Every operation keeps the two halves of                *)
(* PlayersKeepTheirMaps together with the types.                             *)

MapInv == MapTypeOK /\ PlayersKeepTheirMaps

(* The only player on the reference list of a map is the one who leaves.     *)
LEMMA LastOneLeaves ==
  ASSUME MapTypeOK, NEW p \in Players, Cardinality(Linked(mapOf[p])) = 1
  PROVE  Linked(mapOf[p]) = {p}
<1>1. IsFiniteSet(Linked(mapOf[p]))
  BY PlayersFinite, FS_Subset DEF Linked
<1>2. PICK x : Linked(mapOf[p]) = {x}
  BY <1>1, FS_Singleton
<1>3. p \in Linked(mapOf[p])
  BY DEF Linked
<1> QED
  BY <1>2, <1>3

(* The unload timer of a map that a leaving player was not the last of is    *)
(* left alone, and the last one leaves nobody inside.                        *)
LEMMA TimerAfterLeavingIsSound ==
  ASSUME MapInv, NEW p \in Players, mapOf[p] # NoMap
  PROVE  /\ TimerAfterLeaving(p) \in [Maps -> Nat]
         /\ \A x \in InstanceMaps :
              Inside(x) \ {p} # {} => TimerAfterLeaving(p)[x] = unloadTimer[x]
<1> DEFINE mp == mapOf[p]
<1> USE DEF MapInv, MapTypeOK
<1>0. mp \in Maps /\ InstanceMaps \subseteq Maps
  BY DEF Maps
<1>1. UnloadDelay \in Nat /\ MIN_UNLOAD_DELAY \in Nat
  BY UnloadDelayAssumption DEF MIN_UNLOAD_DELAY
<1>2. CASE mp \in InstanceMaps /\ unloadTimer[mp] = 0 /\ Cardinality(Linked(mp)) = 1
  <2>1. Linked(mp) = {p}
    BY <1>2, LastOneLeaves
  <2>2. Inside(mp) \subseteq {p}
    BY <2>1 DEF Inside, Linked
  <2>3. TimerAfterLeaving(p) =
          [unloadTimer EXCEPT ![mp] = IF mp \in unloadWhenEmpty THEN MIN_UNLOAD_DELAY ELSE UnloadDelay]
    BY <1>2 DEF TimerAfterLeaving
  <2> HIDE DEF mp
  <2> QED
    BY <1>0, <1>1, <2>2, <2>3
<1>3. CASE ~(mp \in InstanceMaps /\ unloadTimer[mp] = 0 /\ Cardinality(Linked(mp)) = 1)
  <2>1. TimerAfterLeaving(p) = unloadTimer
    BY <1>3 DEF TimerAfterLeaving
  <2> QED
    BY <2>1
<1> QED
  BY <1>2, <1>3

(* A player leaves the world, and the map too if it logs out.                *)
LEMMA LeavingKeepsMaps ==
  ASSUME MapInv, NEW p \in Players, mapOf[p] # NoMap,
         inWorld' = inWorld \ {p},
         mapOf' = mapOf \/ mapOf' = [mapOf EXCEPT ![p] = NoMap],
         unloadTimer' = TimerAfterLeaving(p),
         UNCHANGED <<i_maps, unloadWhenEmpty>>
  PROVE  MapInv'
<1> USE DEF MapInv
<1>1. MapTypeOK'
  BY TimerAfterLeavingIsSound DEF MapTypeOK
<1>2. LinkedMapsExist'
  BY DEF LinkedMapsExist, PlayersKeepTheirMaps, MapTypeOK
<1>3. ASSUME NEW x \in InstanceMaps, Inside(x)' # {}
      PROVE  unloadTimer'[x] = 0
  <2>1. x # NoMap
    BY NoMapIsNoMap DEF Maps
  <2>2. Inside(x)' \subseteq Inside(x) \ {p}
    BY <2>1 DEF Inside, MapTypeOK
  <2>3. unloadTimer[x] = 0
    BY <1>3, <2>2 DEF PlayersKeepTheirMaps, OccupiedInstanceIsKept
  <2> QED
    BY <1>3, <2>2, <2>3, TimerAfterLeavingIsSound
<1> QED
  BY <1>1, <1>2, <1>3 DEF PlayersKeepTheirMaps, OccupiedInstanceIsKept

(* Creating a map sets the timer of that map, and no other. *)
LEMMA TimerOnceCreatedIsSound ==
  ASSUME MapInv, NEW x \in Maps
  PROVE  /\ TimerOnceCreated(x) \in [Maps -> Nat]
         /\ \A y \in InstanceMaps : (x = y => x \in i_maps) => TimerOnceCreated(x)[y] = unloadTimer[y]
  BY UnloadDelayAssumption DEF TimerOnceCreated, MapInv, MapTypeOK, Maps

(* A map that does not exist has nobody inside. *)
LEMMA NobodyInsideUnloadedMap ==
  ASSUME MapInv, NEW x \in Maps, x \notin i_maps
  PROVE  Inside(x) = {} /\ Linked(x) = {}
  BY NoMapIsNoMap DEF Inside, Linked, MapInv, MapTypeOK, PlayersKeepTheirMaps, LinkedMapsExist

(* A player enters a map, which is created if need be. *)
LEMMA EnterMapKeepsMaps ==
  ASSUME MapInv, NEW p \in Players, NEW x \in Maps, EnterMap(p, x)
  PROVE  MapInv'
<1> USE DEF MapInv
<1>0. unloadTimer' \in [Maps -> Nat] /\ \A y \in InstanceMaps \ {x} : unloadTimer'[y] = unloadTimer[y]
  <2>1. CASE x \in InstanceMaps
    BY <2>1 DEF EnterMap, MapTypeOK, Maps
  <2>2. CASE x \notin InstanceMaps
    BY <2>2, TimerOnceCreatedIsSound DEF EnterMap
  <2> QED
    BY <2>1, <2>2
<1>1. MapTypeOK'
  BY <1>0 DEF EnterMap, MapTypeOK
<1>2. LinkedMapsExist'
  BY DEF EnterMap, LinkedMapsExist, PlayersKeepTheirMaps, MapTypeOK
<1>3. ASSUME NEW y \in InstanceMaps, Inside(y)' # {}
      PROVE  unloadTimer'[y] = 0
  <2>1. CASE y = x
    BY <2>1, <1>3 DEF EnterMap, MapTypeOK, Maps
  <2>2. CASE y # x
    <3>1. Inside(y)' \subseteq Inside(y)
      BY <2>2 DEF Inside, MapTypeOK, EnterMap
    <3> QED
      BY <1>0, <1>3, <2>2, <3>1 DEF PlayersKeepTheirMaps, OccupiedInstanceIsKept
  <2> QED
    BY <2>1, <2>2
<1> QED
  BY <1>1, <1>2, <1>3 DEF PlayersKeepTheirMaps, OccupiedInstanceIsKept

(* A map is created with nobody in it. *)
LEMMA CreatingKeepsMaps ==
  ASSUME MapInv, NEW x \in Maps,
         i_maps' = i_maps \cup {x},
         unloadTimer' = TimerOnceCreated(x),
         unloadWhenEmpty' = WhenEmptyOnceCreated(x),
         UNCHANGED <<mapOf, inWorld>>
  PROVE  MapInv'
<1> USE DEF MapInv
<1>1. MapTypeOK'
  BY TimerOnceCreatedIsSound DEF MapTypeOK, WhenEmptyOnceCreated
<1>2. LinkedMapsExist'
  BY DEF LinkedMapsExist, PlayersKeepTheirMaps
<1>3. ASSUME NEW y \in InstanceMaps, Inside(y)' # {}
      PROVE  unloadTimer'[y] = 0
  <2>1. Inside(y) # {}
    BY <1>3 DEF Inside
  <2>2. unloadTimer[y] = 0
    BY <2>1 DEF PlayersKeepTheirMaps, OccupiedInstanceIsKept
  <2>3. x = y => x \in i_maps
    BY <2>1, NobodyInsideUnloadedMap
  <2> QED
    BY <2>2, <2>3, TimerOnceCreatedIsSound
<1> QED
  BY <1>1, <1>2, <1>3 DEF PlayersKeepTheirMaps, OccupiedInstanceIsKept

(* A timer is started, on a map where nobody is or that is no instance, or   *)
(* is counted down.                                                          *)
LEMMA TimerKeepsMaps ==
  ASSUME MapInv, NEW x \in Maps, NEW t \in Nat,
         unloadTimer' = [unloadTimer EXCEPT ![x] = t],
         x \in InstanceMaps => ~HavePlayers(x) \/ (unloadTimer[x] = 0 => t = 0),
         unloadWhenEmpty' \in SUBSET Maps,
         UNCHANGED <<i_maps, mapOf, inWorld>>
  PROVE  MapInv'
<1> USE DEF MapInv
<1>1. MapTypeOK'
  BY DEF MapTypeOK
<1>2. LinkedMapsExist'
  BY DEF LinkedMapsExist, PlayersKeepTheirMaps
<1>3. ASSUME NEW y \in InstanceMaps, Inside(y)' # {}
      PROVE  unloadTimer'[y] = 0
  <2>1. Inside(y) # {}
    BY <1>3 DEF Inside
  <2>2. unloadTimer[y] = 0 /\ HavePlayers(y)
    BY <2>1 DEF PlayersKeepTheirMaps, OccupiedInstanceIsKept, Inside, HavePlayers, Linked, MapTypeOK
  <2> QED
    BY <2>2 DEF MapTypeOK, Maps
<1> QED
  BY <1>1, <1>2, <1>3 DEF PlayersKeepTheirMaps, OccupiedInstanceIsKept

(* A map without players is destroyed. *)
LEMMA DestroyMapKeepsMaps ==
  ASSUME MapInv, NEW x \in Maps, DestroyMap(x)
  PROVE  MapInv'
<1> USE DEF MapInv, DestroyMap
<1>1. MapTypeOK'
  BY DEF MapTypeOK
<1>2. LinkedMapsExist'
  BY DEF LinkedMapsExist, PlayersKeepTheirMaps, HavePlayers, Linked
<1>3. OccupiedInstanceIsKept'
  BY DEF OccupiedInstanceIsKept, PlayersKeepTheirMaps, Inside, MapTypeOK, Maps
<1> QED
  BY <1>1, <1>2, <1>3 DEF PlayersKeepTheirMaps

(* Some players are sent away. *)
LEMMA SendingAwayKeepsMaps ==
  ASSUME MapInv, inWorld' \subseteq inWorld, UNCHANGED <<i_maps, mapOf, unloadTimer, unloadWhenEmpty>>
  PROVE  MapInv'
<1> USE DEF MapInv
<1>1. MapTypeOK' /\ LinkedMapsExist'
  BY DEF MapTypeOK, LinkedMapsExist, PlayersKeepTheirMaps
<1>2. \A y \in InstanceMaps : Inside(y)' \subseteq Inside(y)
  BY DEF Inside
<1> QED
  BY <1>1, <1>2 DEF PlayersKeepTheirMaps, OccupiedInstanceIsKept

(* What the world thread does between two updates. *)
LEMMA WorldThreadKeepsMaps ==
  ASSUME MapInv, WorldThreadMapStep
  PROVE  MapInv'
<1>1. ASSUME NEW p \in Players, NEW x \in Maps, Login(p, x) \/ HandleMoveWorldportAck(p, x)
      PROVE  MapInv'
  BY <1>1, EnterMapKeepsMaps DEF Login, HandleMoveWorldportAck
<1>2. ASSUME NEW p \in Players, NEW x \in Maps, HandleMoveWorldportAckFails(p, x)
      PROVE  MapInv'
  BY <1>2, CreatingKeepsMaps DEF HandleMoveWorldportAckFails
<1>3. ASSUME NEW p \in Players, TeleportTo(p), mapOf[p] # NoMap
      PROVE  MapInv'
  BY <1>3, LeavingKeepsMaps DEF TeleportTo
<1>4. ASSUME NEW p \in Players, LogoutPlayer(p)
      PROVE  MapInv'
  BY <1>4, LeavingKeepsMaps DEF LogoutPlayer
<1>5. ASSUME NEW x \in Maps, ResetEmpty(x) \/ SetUnload(x)
      PROVE  MapInv'
  BY <1>5, TimerKeepsMaps, MapKindsDisjoint
     DEF ResetEmpty, SetUnload, MIN_UNLOAD_DELAY, MapInv, MapTypeOK
<1>6. ASSUME NEW x \in Maps, ResetOccupied(x)
      PROVE  MapInv'
  BY <1>6 DEF ResetOccupied, MapInv, MapTypeOK, PlayersKeepTheirMaps, LinkedMapsExist,
              OccupiedInstanceIsKept, Inside
<1>7. ASSUME NEW x \in Maps, LoadInstanceForSave(x)
      PROVE  MapInv'
  BY <1>7, CreatingKeepsMaps DEF LoadInstanceForSave
<1>8. ASSUME NEW x \in Maps, UnloadEmptyInstance(x)
      PROVE  MapInv'
  BY <1>8, DestroyMapKeepsMaps DEF UnloadEmptyInstance
<1>9. ASSUME NEW p \in Players, TeleportTo(p), mapOf[p] = NoMap
      PROVE  MapInv'
  <2>1. unloadTimer' = unloadTimer
    BY <1>9, NoMapIsNoMap DEF TeleportTo, TimerAfterLeaving, Maps
  <2> QED
    BY <1>9, <2>1, SendingAwayKeepsMaps DEF TeleportTo
<1> QED
  BY <1>1, <1>2, <1>3, <1>4, <1>5, <1>6, <1>7, <1>8, <1>9 DEF WorldThreadMapStep

(* Map::Update of x on the world thread: some of the players inside leave.   *)
LEMMA ScanUpdatesKeepsMaps ==
  ASSUME MapInv, NEW x \in Maps, ScanUpdates(x)
  PROVE  MapInv'
<1> USE DEF MapInv
<1>1. PICK left \in SUBSET Inside(x) :
        /\ inWorld' = inWorld \ left
        /\ unloadTimer' = IF x \in InstanceMaps /\ left # {} /\ Cardinality(Linked(x)) = 1
                          THEN [unloadTimer EXCEPT ![x] = IF x \in unloadWhenEmpty
                                                          THEN MIN_UNLOAD_DELAY ELSE UnloadDelay]
                          ELSE CountedDown(x)
  BY DEF ScanUpdates
<1>2. UNCHANGED <<i_maps, mapOf, unloadWhenEmpty>>
  BY DEF ScanUpdates
<1>3. UnloadDelay \in Nat /\ MIN_UNLOAD_DELAY \in Nat
  BY UnloadDelayAssumption DEF MIN_UNLOAD_DELAY
<1>4. unloadTimer' \in [Maps -> Nat] /\ \A y \in Maps \ {x} : unloadTimer'[y] = unloadTimer[y]
  BY <1>1, <1>3 DEF CountedDown, MapTypeOK
<1>5. MapTypeOK' /\ LinkedMapsExist'
  BY <1>1, <1>2, <1>4 DEF MapTypeOK, LinkedMapsExist, PlayersKeepTheirMaps
<1>6. ASSUME NEW y \in InstanceMaps, Inside(y)' # {}
      PROVE  unloadTimer'[y] = 0
  <2>1. Inside(y)' = Inside(y) \ left /\ y \in Maps
    BY <1>1, <1>2 DEF Inside, Maps
  <2>2. unloadTimer[y] = 0
    BY <1>6, <2>1 DEF PlayersKeepTheirMaps, OccupiedInstanceIsKept
  <2>3. CASE y # x
    BY <1>4, <2>1, <2>2, <2>3
  <2>4. CASE y = x /\ left # {} /\ Cardinality(Linked(x)) = 1
    <3>1. PICK p \in left : p \in Players /\ mapOf[p] = x
      BY <2>4, <1>1 DEF Inside, MapTypeOK
    <3>2. Linked(x) = {p}
      BY <3>1, <2>4, LastOneLeaves
    <3>3. Inside(x) \subseteq {p}
      BY <3>2 DEF Inside, Linked, MapTypeOK
    <3> QED
      BY <1>6, <2>1, <2>4, <3>1, <3>3
  <2>5. CASE y = x /\ ~(left # {} /\ Cardinality(Linked(x)) = 1)
    BY <1>1, <2>2, <2>5 DEF CountedDown, MapTypeOK
  <2> QED
    BY <2>3, <2>4, <2>5
<1> QED
  BY <1>5, <1>6 DEF PlayersKeepTheirMaps, OccupiedInstanceIsKept

(* No step takes a map away from a player. *)
LEMMA MapInvStep ==
  ASSUME MapInv, [Next]_vars
  PROVE  MapInv'
<1>0. ASSUME UNCHANGED mapVars PROVE MapInv'
  BY <1>0 DEF mapVars, MapInv, MapTypeOK, PlayersKeepTheirMaps, LinkedMapsExist,
              OccupiedInstanceIsKept, Inside
<1>1. CASE WorldThreadRuns
  BY <1>1, WorldThreadKeepsMaps DEF WorldThreadRuns
<1>2. ASSUME NEW x \in Maps, ScanDestroys(x) PROVE MapInv'
  <2>1. CASE DestroyMap(x)
    BY <2>1, DestroyMapKeepsMaps
  <2>2. CASE DestroyMapRefused(x)
    BY <2>2, SendingAwayKeepsMaps DEF DestroyMapRefused
  <2> QED
    BY <1>2, <2>1, <2>2 DEF ScanDestroys
<1>3. ASSUME NEW x \in Maps, ScanSchedules(x) PROVE MapInv'
  <2> DEFINE t == IF unloadTimer[x] > 0 THEN unloadTimer[x] - 1 ELSE 0
  <2>1. unloadTimer' = [unloadTimer EXCEPT ![x] = t] /\ t \in Nat /\ (unloadTimer[x] = 0 => t = 0)
    BY <1>3 DEF ScanSchedules, CountedDown, MapInv, MapTypeOK
  <2> HIDE DEF t
  <2> QED
    BY <1>3, <2>1, TimerKeepsMaps DEF ScanSchedules, MapInv, MapTypeOK
<1>4. ASSUME NEW x \in Maps, ScanUpdates(x) PROVE MapInv'
  BY <1>4, ScanUpdatesKeepsMaps
<1>5. ASSUME NEW p \in Players, PlayerLeavesDuringUpdate(p) PROVE MapInv'
  <2>1. CASE mapOf[p] # NoMap
    BY <1>5, <2>1, LeavingKeepsMaps DEF PlayerLeavesDuringUpdate, TeleportTo
  <2>2. CASE mapOf[p] = NoMap
    <3>1. unloadTimer' = unloadTimer
      BY <1>5, <2>2, NoMapIsNoMap DEF PlayerLeavesDuringUpdate, TeleportTo, TimerAfterLeaving, Maps
    <3> QED
      BY <1>5, <3>1, SendingAwayKeepsMaps DEF PlayerLeavesDuringUpdate, TeleportTo
  <2> QED
    BY <2>1, <2>2
<1>6. ASSUME NEW p \in Players, KickedPlayerLogsOut(p) PROVE MapInv'
  BY <1>6, LeavingKeepsMaps DEF KickedPlayerLogsOut, LogoutPlayer
<1>7. CASE UnloadAll
  BY <1>7 DEF UnloadAll, MapInv, MapTypeOK, PlayersKeepTheirMaps, LinkedMapsExist,
              OccupiedInstanceIsKept, Inside, Maps
<1>8. UpdateBegins \/ ScanEnds \/ WaitStep \/ WaitReturns \/ DelayedUpdate
        \/ WaitIsWokenSpuriously \/ (\E w \in Workers : WorkerRuns(w)) \/ KickAll
        \/ UnloadAllDeactivates \/ DeactivateSteps \/ DeactivateReturns \/ Terminated
        \/ UNCHANGED vars
      => UNCHANGED mapVars
  BY DEF UpdateBegins, ScanEnds, WaitStep, WaitReturns, DelayedUpdate, WaitIsWokenSpuriously,
         WorkerRuns, KickAll, UnloadAllDeactivates, DeactivateSteps, DeactivateReturns,
         Terminated, vars
<1> QED
  BY <1>0, <1>1, <1>2, <1>3, <1>4, <1>5, <1>6, <1>7, <1>8 DEF Next, UpdateStep, ShutdownStep

-----------------------------------------------------------------------------
(* The update threads. *)

(* Where a worker is in WaitAndPop agrees with where it is in WorkerThread.  *)
(* It comes back empty-handed only once the queue is shut down, and it ends  *)
(* only without a request.                                                   *)
WorkersInv ==
  \A w \in Workers :
    /\ wpc[w] = "pop" <=> cstate[w] # "outside"
    /\ wpc[w] = "pop" => value[w] = Null
    /\ wpc[w] = "calling" => value[w] # Null
    /\ wpc[w] = "check" /\ value[w] = Null => shutdown
    /\ wpc[w] = "exited" => value[w] = Null
    /\ wpc[w] # "crashed"

(* The world thread is inside MapUpdater only where MapManager has called    *)
(* it; the token is set before the queue is shut down, and both only by      *)
(* UnloadAll.                                                                *)
CallerInv ==
  /\ mpc \in {"world", "scan", "delayed", "kicked", "unloaded"} => caller = "free"
  /\ mpc = "wait" => caller \in {"free", "testing", "asleep"}
  /\ mpc = "deactivate" => caller # "free" /\ cancelationToken
  /\ mpc = "done" => caller \in {"free", "stopped"}
  /\ cancelationToken => mpc \in {"deactivate", "done"}
  /\ shutdown => cancelationToken
  /\ mpc = "wait" /\ caller = "free" => pending_requests = 0

(* Every request is for a map that exists and that the scan has passed, and  *)
(* no map is requested twice.  While the scan goes on its maps exist.        *)
RequestsInv ==
  /\ mpc = "scan" => scan \subseteq i_maps
  /\ \A i \in DOMAIN queue : queue[i] \in i_maps \ scan
  /\ \A w \in Busy : value[w] \in i_maps \ scan
  /\ \A i, j \in DOMAIN queue : queue[i] = queue[j] => i = j
  /\ \A i \in DOMAIN queue, w \in Busy : queue[i] # value[w]
  /\ \A v, w \in Busy : value[v] = value[w] => v = w

(* Without worker threads nothing is queued. *)
NoWorkersInv == ~activated => queue = <<>>

UpdaterInv ==
  /\ UpdaterTypeOK
  /\ mpc \in {"world", "scan", "wait", "delayed", "kicked", "unloaded", "deactivate", "done"}
  /\ scan \in SUBSET Maps
  /\ WorkersInv /\ CallerInv /\ RequestsInv /\ NoWorkersInv
  /\ PendingIsExact /\ WorldThreadAlone

(* The inductive invariant of the composed system. *)
IInv == QueueIInv /\ MapInv /\ UpdaterInv

(* Every step of the system is a step of the queue, or none. *)
LEMMA StepsAreQueueSteps ==
  ASSUME TypeOK, [Next]_vars
  PROVE  [QueueNext]_queueVars
<1>1. ASSUME NEW x \in Maps, ScanSchedules(x) PROVE QueueNext
  BY <1>1, RequestsAreMaps DEF ScanSchedules, schedule_update, QueueNext
<1>2. ASSUME NEW w \in Workers, WorkerRuns(w) PROVE [QueueNext]_queueVars
  <2>1. WorkerFinishes(w) \/ WorkerChecksToken(w) => UNCHANGED queueVars
    BY DEF WorkerFinishes, WorkerChecksToken
  <2>2. WorkerEnters(w) \/ WorkerSleepsOrWakes(w) \/ WorkerPops(w) => ConsumerStep(w)
    BY DEF WorkerEnters, WorkerSleepsOrWakes, WorkerPops, ConsumerStep
  <2> QED
    BY <1>2, <2>1, <2>2 DEF WorkerRuns, WorkerStep, QueueNext, Workers
<1>3. CASE DeactivateSteps
  BY <1>3 DEF DeactivateSteps, DeactivateCancels, DeactivateJoins, QueueNext
<1>4. WorldThreadRuns \/ UpdateBegins \/ ScanEnds \/ WaitStep \/ WaitReturns \/ DelayedUpdate
        \/ WaitIsWokenSpuriously \/ KickAll \/ UnloadAll
        \/ UnloadAllDeactivates \/ DeactivateReturns \/ Terminated \/ UNCHANGED vars
      => UNCHANGED queueVars
  BY DEF WorldThreadRuns, UpdateBegins, ScanEnds, WaitStep, WaitReturns, DelayedUpdate,
         WaitIsWokenSpuriously, KickAll, UnloadAll, UnloadAllDeactivates, DeactivateReturns,
         Terminated, vars, wait, WaitTests, WaitWokenSpuriously, deactivate
<1>5. ASSUME NEW x \in Maps, ScanDestroys(x) \/ ScanUpdates(x) PROVE UNCHANGED queueVars
  BY <1>5 DEF ScanDestroys, ScanUpdates
<1>6. ASSUME NEW p \in Players, PlayerLeavesDuringUpdate(p) \/ KickedPlayerLogsOut(p)
      PROVE  UNCHANGED queueVars
  BY <1>6 DEF PlayerLeavesDuringUpdate, KickedPlayerLogsOut
<1> QED
  BY <1>1, <1>2, <1>3, <1>4, <1>5, <1>6 DEF Next, UpdateStep, ShutdownStep

(* The threads that carry a map are finitely many. *)
LEMMA BusyFinite ==
  IsFiniteSet(Busy) /\ Cardinality(Busy) \in Nat
<1>1. Busy \in SUBSET Consumers
  BY DEF Busy, Workers
<1> QED
  BY <1>1, ConsumersFinite, FS_Subset, FS_CardinalityType

(* When nothing is pending, nothing is queued and nobody is at work. *)
LEMMA NothingPending ==
  ASSUME UpdaterInv
  PROVE  pending_requests = 0 <=> queue = <<>> /\ Busy = {}
<1>1. Len(queue) \in Nat /\ (Len(queue) = 0 <=> queue = <<>>)
  BY DEF UpdaterInv, UpdaterTypeOK, QueueTypeOK
<1>2. Cardinality(Busy) = 0 <=> Busy = {}
  BY BusyFinite, FS_EmptySet
<1> QED
  BY <1>1, <1>2, BusyFinite DEF UpdaterInv, PendingIsExact

(* The steps of the world thread outside MapUpdater leave what concerns the  *)
(* workers alone.                                                            *)
LEMMA UpdaterFrame ==
  ASSUME UpdaterInv, UNCHANGED <<queueVars, updaterVars>>
  PROVE  /\ UpdaterTypeOK' /\ WorkersInv' /\ NoWorkersInv' /\ PendingIsExact'
         /\ Busy' = Busy /\ queue' = queue /\ value' = value /\ caller' = caller
         /\ cancelationToken' = cancelationToken /\ shutdown' = shutdown
         /\ pending_requests' = pending_requests /\ wpc' = wpc
<1>1. Busy' = Busy
  BY DEF Busy, queueVars, updaterVars
<1> QED
  BY <1>1 DEF UpdaterInv, queueVars, updaterVars, UpdaterTypeOK, QueueTypeOK, WorkersInv,
              NoWorkersInv, activated, PendingIsExact

(* Steps of the world thread and of the players that leave the updater       *)
(* alone.                                                                    *)
LEMMA ManagerKeepsUpdaterInv ==
  ASSUME IInv, MapInv', UNCHANGED <<queueVars, updaterVars>>,
         \/ WorldThreadRuns \/ UpdateBegins \/ (ScanEnds /\ ~activated) \/ WaitReturns
         \/ DelayedUpdate \/ KickAll \/ UnloadAll \/ (UnloadAllDeactivates /\ ~activated)
         \/ DeactivateReturns \/ Terminated \/ UNCHANGED vars
         \/ \E x \in Maps : ScanDestroys(x) \/ ScanUpdates(x)
         \/ \E p \in Players : PlayerLeavesDuringUpdate(p) \/ KickedPlayerLogsOut(p)
  PROVE  UpdaterInv'
<1> USE UpdaterFrame DEF IInv, UpdaterInv
<1>0. i_maps \in SUBSET Maps
  BY DEF MapInv, MapTypeOK
<1>a. ASSUME queue = <<>>, Busy = {}, mpc' = "scan" => scan' \subseteq i_maps'
      PROVE  RequestsInv'
  BY <1>a DEF RequestsInv
<1>1. CASE WorldThreadRuns
  <2>1. mpc = "world" /\ mpc' = mpc /\ scan' = scan
    BY <1>1 DEF WorldThreadRuns, managerVars
  <2> QED
    BY <2>1, <1>a DEF CallerInv, WorldThreadAlone
<1>2. CASE UpdateBegins
  BY <1>2, <1>0, <1>a DEF UpdateBegins, CallerInv, WorldThreadAlone, mapVars
<1>3. CASE ScanEnds /\ ~activated
  <2>1. mpc = "scan" /\ mpc' = "delayed" /\ scan' = i_maps /\ i_maps' = i_maps
    BY <1>3 DEF ScanEnds, mapVars
  <2>2. queue = <<>> /\ Busy = {}
    BY <1>3 DEF NoWorkersInv, activated, Busy
  <2> QED
    BY <1>0, <1>a, <2>1, <2>2 DEF CallerInv, WorldThreadAlone
<1>4. CASE WaitReturns
  <2>1. queue = <<>> /\ Busy = {}
    BY <1>4, NothingPending DEF WaitReturns, CallerInv
  <2> QED
    BY <1>0, <1>4, <1>a, <2>1 DEF WaitReturns, CallerInv, WorldThreadAlone
<1>5. CASE DelayedUpdate
  BY <1>5, <1>a DEF DelayedUpdate, CallerInv, WorldThreadAlone
<1>6. CASE KickAll
  BY <1>6, <1>a DEF KickAll, CallerInv, WorldThreadAlone
<1>7. CASE UnloadAll
  BY <1>7, <1>a DEF UnloadAll, CallerInv, WorldThreadAlone
<1>8. CASE UnloadAllDeactivates /\ ~activated
  BY <1>8, <1>a DEF UnloadAllDeactivates, CallerInv, WorldThreadAlone
<1>9. CASE DeactivateReturns
  BY <1>9, <1>a DEF DeactivateReturns, CallerInv, WorldThreadAlone
<1>10. CASE Terminated \/ UNCHANGED vars
  BY <1>10 DEF Terminated, vars, managerVars, mapVars, CallerInv, WorldThreadAlone, RequestsInv
<1>11. ASSUME NEW x \in Maps, ScanDestroys(x) \/ ScanUpdates(x) PROVE UpdaterInv'
  <2>1. mpc = "scan" /\ mpc' = mpc /\ x \in scan /\ scan' = scan \ {x}
        /\ (i_maps' = i_maps \/ i_maps' = i_maps \ {x})
    BY <1>11 DEF ScanDestroys, ScanUpdates, DestroyMap, DestroyMapRefused
  <2>2. RequestsInv'
    BY <2>1 DEF RequestsInv
  <2> QED
    BY <2>1, <2>2 DEF CallerInv, WorldThreadAlone
<1>12. ASSUME NEW p \in Players, PlayerLeavesDuringUpdate(p) \/ KickedPlayerLogsOut(p)
       PROVE  UpdaterInv'
  <2>1. mpc' = mpc /\ scan' = scan /\ i_maps' = i_maps
    BY <1>12 DEF PlayerLeavesDuringUpdate, KickedPlayerLogsOut, TeleportTo, LogoutPlayer, managerVars
  <2> QED
    BY <2>1 DEF CallerInv, WorldThreadAlone, RequestsInv
<1> QED
  BY <1>1, <1>2, <1>3, <1>4, <1>5, <1>6, <1>7, <1>8, <1>9, <1>10, <1>11, <1>12

(* The world thread inside MapUpdater: only caller, the token and mpc move.  *)
LEMMA CallerKeepsUpdaterInv ==
  ASSUME IInv,
         \/ ScanEnds /\ activated
         \/ WaitStep \/ WaitIsWokenSpuriously
         \/ UnloadAllDeactivates /\ activated
         \/ DeactivateSteps /\ ~DeactivateCancels
  PROVE  UpdaterInv'
<1> USE DEF IInv, UpdaterInv
<1>1. /\ UNCHANGED <<queueVars, pending_requests, wpc, scan>> /\ i_maps' = i_maps
      /\ caller' \in CallerStates /\ cancelationToken' \in BOOLEAN
  BY DEF ScanEnds, wait, WaitStep, WaitTests, WaitIsWokenSpuriously, WaitWokenSpuriously,
         UnloadAllDeactivates, deactivate, DeactivateSteps, DeactivateJoins, managerVars,
         mapVars, CallerStates, UpdaterTypeOK
<1>2. Busy' = Busy
  BY <1>1 DEF Busy, queueVars
<1>3. UpdaterTypeOK' /\ WorkersInv' /\ NoWorkersInv' /\ PendingIsExact'
  BY <1>1, <1>2 DEF queueVars, UpdaterTypeOK, QueueTypeOK, WorkersInv, NoWorkersInv, activated,
                    PendingIsExact
<1>4. CASE ScanEnds /\ activated
  BY <1>1, <1>2, <1>3, <1>4
     DEF ScanEnds, wait, CallerInv, RequestsInv, WorldThreadAlone, queueVars
<1>5. CASE WaitStep
  BY <1>1, <1>2, <1>3, <1>5
     DEF WaitStep, WaitTests, CallerInv, RequestsInv, WorldThreadAlone, queueVars, managerVars,
         UpdaterTypeOK
<1>6. CASE WaitIsWokenSpuriously
  BY <1>1, <1>2, <1>3, <1>6
     DEF WaitIsWokenSpuriously, WaitWokenSpuriously, CallerInv, RequestsInv, WorldThreadAlone,
         queueVars, managerVars
<1>7. CASE UnloadAllDeactivates /\ activated
  BY <1>1, <1>2, <1>3, <1>7
     DEF UnloadAllDeactivates, deactivate, CallerInv, RequestsInv, WorldThreadAlone, queueVars
<1>8. CASE DeactivateSteps /\ ~DeactivateCancels
  BY <1>1, <1>2, <1>3, <1>8
     DEF DeactivateSteps, DeactivateJoins, CallerInv, RequestsInv, WorldThreadAlone, queueVars,
         managerVars
<1> QED
  BY <1>4, <1>5, <1>6, <1>7, <1>8

(* Cancel finds the queue empty. *)
LEMMA CancelKeepsUpdaterInv ==
  ASSUME IInv, QueueTypeOK', DeactivateSteps, DeactivateCancels
  PROVE  UpdaterInv'
<1> USE DEF IInv, UpdaterInv
<1>1. /\ mpc = "deactivate" /\ UNCHANGED <<mpc, scan, i_maps>>
      /\ UNCHANGED <<pending_requests, cancelationToken, wpc, value>>
      /\ caller = "cancel" /\ caller' = "join" /\ queue' = <<>> /\ shutdown' = TRUE
      /\ cstate' = [c \in Consumers |-> IF cstate[c] = "waiting" THEN "ready" ELSE cstate[c]]
  BY DEF DeactivateSteps, DeactivateCancels, Cancel, NotifyAll, CallerInv, managerVars, mapVars
<1>2. queue = <<>> /\ Busy = {}
  BY <1>1 DEF WorldThreadAlone
<1>3. Busy' = {}
  BY <1>1, <1>2 DEF Busy
<1>4. UpdaterTypeOK' /\ WorkersInv'
  BY <1>1 DEF UpdaterTypeOK, QueueTypeOK, WorkersInv, CallerStates, Workers
<1> QED
  BY <1>1, <1>2, <1>3, <1>4
     DEF NoWorkersInv, PendingIsExact, CallerInv, RequestsInv, WorldThreadAlone

(* schedule_update: the map was not requested yet, and the scan passes it.   *)
LEMMA SchedulingKeepsUpdaterInv ==
  ASSUME IInv, QueueTypeOK', NEW x \in Maps, ScanSchedules(x)
  PROVE  UpdaterInv'
<1> USE DEF IInv, UpdaterInv
<1>1. /\ mpc = "scan" /\ mpc' = mpc /\ x \in scan /\ scan' = scan \ {x} /\ i_maps' = i_maps
      /\ activated /\ queue' = Append(queue, x) /\ pending_requests' = pending_requests + 1
      /\ UNCHANGED <<shutdown, value, cancelationToken, caller, wpc>>
  BY DEF ScanSchedules, schedule_update, Push
<1>2. \A w \in Workers : cstate'[w] = "outside" <=> cstate[w] = "outside"
  BY DEF ScanSchedules, schedule_update, Push, NotifyOne, Waiting, Workers, UpdaterTypeOK, QueueTypeOK
<1>3. Busy' = Busy
  BY <1>1 DEF Busy
<1>4. UpdaterTypeOK' /\ WorkersInv'
  BY <1>1, <1>2 DEF UpdaterTypeOK, WorkersInv
<1>5. queue \in Seq(Values) /\ Len(queue') = Len(queue) + 1 /\ DOMAIN queue' = 1 .. Len(queue) + 1
      /\ DOMAIN queue = 1 .. Len(queue) /\ Len(queue) \in Nat /\ x \in Values
  BY <1>1, RequestsAreMaps DEF UpdaterTypeOK, QueueTypeOK
<1>6. \A i \in DOMAIN queue' : \/ i = Len(queue) + 1 /\ queue'[i] = x
                               \/ i \in DOMAIN queue /\ queue'[i] = queue[i]
  BY <1>1, <1>5
<1>7. RequestsInv'
  <2>1. x \in i_maps
    BY <1>1 DEF RequestsInv
  <2>2. \A i \in DOMAIN queue : queue[i] # x
    BY <1>1 DEF RequestsInv
  <2>3. \A w \in Busy : value[w] # x
    BY <1>1 DEF RequestsInv
  <2> QED
    BY <1>1, <1>3, <1>6, <2>1, <2>2, <2>3 DEF RequestsInv
<1>8. PendingIsExact'
  BY <1>1, <1>3, <1>5, BusyFinite DEF PendingIsExact
<1> QED
  BY <1>1, <1>3, <1>4, <1>7, <1>8 DEF NoWorkersInv, activated, CallerInv, WorldThreadAlone

(* A worker: what it pops moves from the queue into its hands, and leaves    *)
(* the count when its update ends.                                           *)
LEMMA WorkerKeepsUpdaterInv ==
  ASSUME IInv, QueueTypeOK', NEW w \in Workers, WorkerRuns(w)
  PROVE  UpdaterInv'
<1> USE DEF IInv, UpdaterInv
<1>0. UNCHANGED <<mpc, scan, i_maps>> /\ w \in Consumers
  BY DEF WorkerRuns, managerVars, mapVars, Workers
<1>a. wpc \in [Workers -> WorkerStates] /\ cstate \in [Workers -> {"outside", "ready", "waiting"}]
      /\ value \in [Workers -> Values \cup {Null}] /\ queue \in Seq(Values)
  BY DEF UpdaterTypeOK, QueueTypeOK, Workers
<1>b. \A v \in Workers : (v \in Busy <=> wpc[v] \in {"check", "calling"} /\ value[v] # Null)
                         /\ (v \in Busy' <=> wpc'[v] \in {"check", "calling"} /\ value'[v] # Null)
  BY DEF Busy
<1>c. Busy \subseteq Workers /\ Busy' \subseteq Workers
  BY DEF Busy
<1>d. ASSUME wpc' \in [Workers -> WorkerStates], \A v \in Workers : wpc'[v] # "none" \/ wpc[v] = "none",
             queue' = <<>> \/ queue # <<>>
      PROVE  NoWorkersInv'
  BY <1>d DEF NoWorkersInv, activated
<1>1. CASE WorkerEnters(w)
  <2>1. /\ wpc[w] = "loop" /\ wpc' = [wpc EXCEPT ![w] = "pop"]
        /\ cstate' = [cstate EXCEPT ![w] = "ready"] /\ value' = [value EXCEPT ![w] = Null]
        /\ UNCHANGED <<queue, shutdown, pending_requests, cancelationToken, caller>>
    BY <1>1 DEF WorkerEnters, EnterWaitAndPop
  <2>2. Busy' = Busy /\ w \notin Busy
    BY <2>1, <1>a, <1>b, <1>c
  <2>3. \A v \in Busy : value'[v] = value[v]
    BY <2>1, <2>2, <1>a, <1>c
  <2>4. UpdaterTypeOK' /\ WorkersInv' /\ NoWorkersInv'
    BY <2>1, <1>a, <1>d DEF UpdaterTypeOK, WorkersInv, WorkerStates
  <2>5. RequestsInv'
    BY <2>1, <2>2, <2>3, <1>0 DEF RequestsInv
  <2> QED
    BY <2>1, <2>2, <2>4, <2>5, <1>0 DEF PendingIsExact, CallerInv, WorldThreadAlone
<1>2. CASE WorkerSleepsOrWakes(w)
  <2>1. /\ wpc[w] = "pop" /\ cstate[w] # "outside" /\ \E c \in {"ready", "waiting"} : cstate' = [cstate EXCEPT ![w] = c]
        /\ UNCHANGED <<queue, shutdown, value, wpc, pending_requests, cancelationToken, caller>>
    BY <1>2 DEF WorkerSleepsOrWakes, Wait, SpuriousWakeup, updaterVars
  <2>2. Busy' = Busy
    BY <2>1 DEF Busy
  <2>4. UpdaterTypeOK' /\ WorkersInv' /\ NoWorkersInv'
    BY <2>1, <1>a DEF UpdaterTypeOK, WorkersInv, NoWorkersInv, activated
  <2> QED
    BY <2>1, <2>2, <2>4, <1>0 DEF PendingIsExact, CallerInv, WorldThreadAlone, RequestsInv
<1>3. CASE WorkerPops(w) /\ ReturnEmptyHanded(w)
  <2>1. /\ wpc[w] = "pop" /\ wpc' = [wpc EXCEPT ![w] = "check"] /\ shutdown
        /\ cstate' = [cstate EXCEPT ![w] = "outside"]
        /\ UNCHANGED <<queue, shutdown, value, pending_requests, cancelationToken, caller>>
    BY <1>3 DEF WorkerPops, ReturnEmptyHanded
  <2>2. Busy' = Busy
    BY <2>1, <1>a, <1>b, <1>c DEF WorkersInv
  <2>4. UpdaterTypeOK' /\ WorkersInv' /\ NoWorkersInv'
    BY <2>1, <1>a, <1>d DEF UpdaterTypeOK, WorkersInv, WorkerStates
  <2> QED
    BY <2>1, <2>2, <2>4, <1>0 DEF PendingIsExact, CallerInv, WorldThreadAlone, RequestsInv
<1>4. CASE WorkerPops(w) /\ Take(w)
  <2>1. /\ wpc[w] = "pop" /\ wpc' = [wpc EXCEPT ![w] = "check"] /\ queue # <<>> /\ ~shutdown
        /\ cstate' = [cstate EXCEPT ![w] = "outside"]
        /\ value' = [value EXCEPT ![w] = Head(queue)] /\ queue' = Tail(queue)
        /\ UNCHANGED <<shutdown, pending_requests, cancelationToken, caller>>
    BY <1>4 DEF WorkerPops, Take
  <2>2. Head(queue) \in Values /\ Head(queue) # Null /\ Len(queue') = Len(queue) - 1 /\ Len(queue) \in Nat
    BY <2>1, <1>a, NullNotAValue
  <2>3. Busy' = Busy \cup {w} /\ w \notin Busy
    BY <2>1, <2>2, <1>a, <1>b, <1>c
  <2>4. Cardinality(Busy') = Cardinality(Busy) + 1
    BY <2>3, BusyFinite, FS_AddElement
  <2>5. UpdaterTypeOK' /\ WorkersInv' /\ NoWorkersInv'
    BY <2>1, <2>2, <1>a, <1>d DEF UpdaterTypeOK, WorkersInv, WorkerStates
  <2>6. mpc \in {"scan", "wait"}
    BY <2>1 DEF WorldThreadAlone
  <2>7. RequestsInv'
    <3>1. \A i \in DOMAIN queue' : i + 1 \in DOMAIN queue /\ queue'[i] = queue[i + 1] /\ i \in Nat /\ i + 1 # 1
      BY <2>1, <1>a
    <3>2. 1 \in DOMAIN queue /\ Head(queue) = queue[1]
      BY <2>1, <1>a
    <3>3. value'[w] = queue[1] /\ \A v \in Busy : value'[v] = value[v]
      BY <2>1, <2>3, <3>2, <1>a, <1>c
    <3>4. \A i \in DOMAIN queue' : queue'[i] # queue[1]
      BY <3>1, <3>2 DEF RequestsInv
    <3>5. \A i, j \in DOMAIN queue' : queue'[i] = queue'[j] => i = j
      BY <3>1 DEF RequestsInv
    <3>6. \A v \in Busy : value[v] # queue[1]
      BY <3>2 DEF RequestsInv
    <3>7. \A i \in DOMAIN queue', v \in Busy : queue'[i] # value[v]
      BY <3>1 DEF RequestsInv
    <3>8. (\A i \in DOMAIN queue' : queue'[i] \in i_maps \ scan) /\ queue[1] \in i_maps \ scan
      BY <3>1, <3>2 DEF RequestsInv
    <3> QED
      BY <2>3, <3>3, <3>4, <3>5, <3>6, <3>7, <3>8, <1>0 DEF RequestsInv
  <2>8. PendingIsExact'
    BY <2>1, <2>2, <2>4, BusyFinite DEF PendingIsExact
  <2> QED
    BY <2>1, <2>5, <2>6, <2>7, <2>8, <1>0 DEF CallerInv, WorldThreadAlone
<1>5. CASE WorkerChecksToken(w)
  <2>1. /\ wpc[w] = "check"
        /\ wpc' = [wpc EXCEPT ![w] = IF cancelationToken THEN "exited"
                                     ELSE IF value[w] = Null THEN "crashed" ELSE "calling"]
        /\ UNCHANGED <<queueVars, pending_requests, cancelationToken, caller>>
    BY <1>5 DEF WorkerChecksToken
  <2>2. cancelationToken => value[w] = Null
    BY <2>1, <1>b DEF CallerInv, WorldThreadAlone
  <2>3. value[w] = Null => cancelationToken
    BY <2>1 DEF WorkersInv, CallerInv
  <2>4. Busy' = Busy
    BY <2>1, <2>2, <2>3, <1>a, <1>b, <1>c DEF queueVars
  <2>5. UpdaterTypeOK' /\ WorkersInv' /\ NoWorkersInv'
    BY <2>1, <2>2, <2>3, <1>a, <1>d DEF UpdaterTypeOK, WorkersInv, WorkerStates, queueVars
  <2> QED
    BY <2>1, <2>4, <2>5, <1>0 DEF PendingIsExact, CallerInv, WorldThreadAlone, RequestsInv, queueVars
<1>6. CASE WorkerFinishes(w)
  <2>1. /\ wpc[w] = "calling" /\ wpc' = [wpc EXCEPT ![w] = "loop"]
        /\ pending_requests' = pending_requests - 1
        /\ caller' = IF caller = "asleep" THEN "testing" ELSE caller
        /\ UNCHANGED <<queueVars, cancelationToken>>
    BY <1>6 DEF WorkerFinishes, update_finished
  <2>2. w \in Busy
    BY <2>1, <1>b DEF WorkersInv
  <2>3. Busy' = Busy \ {w}
    BY <2>1, <1>a, <1>b, <1>c DEF queueVars
  <2>4. Cardinality(Busy') = Cardinality(Busy) - 1
    BY <2>2, <2>3, BusyFinite, FS_RemoveElement
  <2>5. pending_requests' \in Nat /\ pending_requests # 0
    BY <2>1, <2>2, NothingPending DEF UpdaterTypeOK
  <2>6. UpdaterTypeOK' /\ WorkersInv' /\ NoWorkersInv'
    BY <2>1, <2>5, <1>a, <1>d DEF UpdaterTypeOK, WorkersInv, WorkerStates, CallerStates, queueVars
  <2>7. mpc \in {"scan", "wait"}
    BY <2>2 DEF WorldThreadAlone
  <2>8. PendingIsExact'
    BY <2>1, <2>4, <1>a, BusyFinite DEF PendingIsExact, queueVars
  <2> QED
    BY <2>1, <2>3, <2>5, <2>6, <2>7, <2>8, <1>0 DEF CallerInv, WorldThreadAlone, RequestsInv, queueVars
<1> QED
  BY <1>1, <1>2, <1>3, <1>4, <1>5, <1>6 DEF WorkerRuns, WorkerStep, WorkerPops

-----------------------------------------------------------------------------
(* The server starts without maps and without workers. *)
LEMMA InitIInv ==
  ASSUME Init
  PROVE  IInv
<1> USE DEF Init
<1>1. QueueIInv
  BY QueueInitially DEF UpdaterInit
<1>2. MapInv
  <2>1. MapTypeOK
    BY DEF MapInit, MapTypeOK
  <2> QED
    BY <2>1 DEF MapInit, MapInv, PlayersKeepTheirMaps, LinkedMapsExist,
                OccupiedInstanceIsKept, Inside
<1>3. PICK started \in SUBSET Workers : activate(started)
  BY DEF UpdaterInit
<1>4. /\ wpc \in [Workers -> {"none", "loop"}] /\ value = [c \in Workers |-> Null]
      /\ cstate = [c \in Workers |-> "outside"] /\ queue = <<>>
  BY <1>3 DEF activate, UpdaterInit, QueueInit, Workers
<1>5. Busy = {}
  BY <1>4 DEF Busy
<1>6. PendingIsExact
  BY <1>4, <1>5, FS_EmptySet DEF PendingIsExact, UpdaterInit
<1>7. UpdaterTypeOK
  <2>1. QueueTypeOK
    BY <1>1 DEF QueueIInv
  <2> QED
    BY <2>1, <1>4 DEF UpdaterTypeOK, UpdaterInit, CallerStates, WorkerStates
<1>8. WorkersInv
  BY <1>4 DEF WorkersInv
<1>9. CallerInv /\ RequestsInv /\ NoWorkersInv /\ WorldThreadAlone
  BY <1>4, <1>5 DEF CallerInv, UpdaterInit, QueueInit, RequestsInv, NoWorkersInv, WorldThreadAlone
<1> QED
  BY <1>1, <1>2, <1>6, <1>7, <1>8, <1>9 DEF IInv, UpdaterInv

(* Every step of every thread keeps the invariant. *)
LEMMA StepIInv ==
  ASSUME IInv, [Next]_vars
  PROVE  IInv'
<1>0. TypeOK
  BY DEF IInv, UpdaterInv, MapInv, TypeOK
<1>1. QueueIInv'
  BY <1>0, StepsAreQueueSteps, QueueStep DEF IInv
<1>2. MapInv'
  BY MapInvStep DEF IInv
<1>3. QueueTypeOK'
  BY <1>1 DEF QueueIInv
<1>4. UpdaterInv'
  <2>1. ASSUME NEW w \in Workers, WorkerRuns(w) PROVE UpdaterInv'
    BY <2>1, <1>3, WorkerKeepsUpdaterInv
  <2>2. ASSUME NEW x \in Maps, ScanSchedules(x) PROVE UpdaterInv'
    BY <2>2, <1>3, SchedulingKeepsUpdaterInv
  <2>3. CASE DeactivateSteps
    BY <2>3, <1>3, CancelKeepsUpdaterInv, CallerKeepsUpdaterInv
  <2>4. CASE WaitStep \/ WaitIsWokenSpuriously
    BY <2>4, CallerKeepsUpdaterInv
  <2>5. CASE ScanEnds \/ UnloadAllDeactivates
    <3>1. CASE activated
      BY <2>5, <3>1, CallerKeepsUpdaterInv
    <3>2. CASE ~activated
      BY <2>5, <3>2, <1>2, ManagerKeepsUpdaterInv DEF ScanEnds, UnloadAllDeactivates
    <3> QED
      BY <3>1, <3>2
  <2>6. CASE WorldThreadRuns \/ UpdateBegins \/ WaitReturns \/ DelayedUpdate \/ KickAll \/ UnloadAll
             \/ DeactivateReturns \/ Terminated \/ UNCHANGED vars
    BY <2>6, <1>2, ManagerKeepsUpdaterInv
       DEF WorldThreadRuns, UpdateBegins, WaitReturns, DelayedUpdate, KickAll, UnloadAll,
           DeactivateReturns, Terminated, vars
  <2>7. ASSUME NEW x \in Maps, ScanDestroys(x) \/ ScanUpdates(x) PROVE UpdaterInv'
    BY <2>7, <1>2, ManagerKeepsUpdaterInv DEF ScanDestroys, ScanUpdates
  <2>8. ASSUME NEW p \in Players, PlayerLeavesDuringUpdate(p) \/ KickedPlayerLogsOut(p)
        PROVE  UpdaterInv'
    BY <2>8, <1>2, ManagerKeepsUpdaterInv DEF PlayerLeavesDuringUpdate, KickedPlayerLogsOut
  <2> QED
    BY <2>1, <2>2, <2>3, <2>4, <2>5, <2>6, <2>7, <2>8 DEF Next, UpdateStep, ShutdownStep
<1> QED
  BY <1>1, <1>2, <1>4 DEF IInv

(* No map is in the hands of two workers. *)
LEMMA OneUpdater ==
  ASSUME IInv
  PROVE  OneUpdaterPerMap
<1> SUFFICES ASSUME NEW x \in Maps
             PROVE  Cardinality(Updating(x)) <= 1
  BY DEF OneUpdaterPerMap
<1>1. \A v, w \in Updating(x) : v = w
  BY DEF IInv, UpdaterInv, WorkersInv, RequestsInv, Updating, Busy
<1>2. CASE Updating(x) = {}
  BY <1>2, FS_EmptySet
<1>3. ASSUME NEW w \in Updating(x) PROVE Cardinality(Updating(x)) = 1
  <2>1. Updating(x) = {w}
    BY <1>1, <1>3
  <2> QED
    BY <2>1, FS_Singleton
<1> QED
  BY <1>2, <1>3

(* The invariant says that updates are safe. *)
LEMMA IInvSafe ==
  ASSUME IInv
  PROVE  UpdatesAreSafe
<1>1. NoUpdateOfDestroyedMap
  <2> SUFFICES ASSUME NEW x \in Maps, Outstanding(x)
               PROVE  x \in i_maps
    BY DEF NoUpdateOfDestroyedMap
  <2>1. x # Null
    BY NullNotAValue, RequestsAreMaps
  <2> QED
    BY <2>1 DEF Outstanding, IInv, UpdaterInv, RequestsInv, Busy
<1>2. NoNullCall /\ NothingDropped
  BY DEF NoNullCall, NothingDropped, IInv, UpdaterInv, WorkersInv, CallerInv, WorldThreadAlone
<1> QED
  BY <1>1, <1>2, OneUpdater DEF UpdatesAreSafe, IInv, UpdaterInv

(* The invariant holds in every reachable state. *)
LEMMA ManagerInvariant == Spec => []IInv
<1>1. Init => IInv
  BY InitIInv
<1>2. IInv /\ [Next]_vars => IInv'
  BY StepIInv
<1> QED
  BY <1>1, <1>2, PTL DEF Spec

(* The variables always have their types. *)
THEOREM ManagerTypeCorrect == Spec => []TypeOK
<1>1. IInv => TypeOK
  BY DEF IInv, UpdaterInv, MapInv, TypeOK
<1> QED
  BY <1>1, ManagerInvariant, PTL

(* No player is ever linked to a map that MapManager has destroyed, and no   *)
(* instance with somebody inside counts down to be unloaded, for any number  *)
(* of players, maps and workers.                                             *)
THEOREM PlayersKeepMaps == Spec => []PlayersKeepTheirMaps
<1>1. IInv => PlayersKeepTheirMaps
  BY DEF IInv, MapInv
<1> QED
  BY <1>1, ManagerInvariant, PTL

(* MapUpdater::pending_requests is exactly what is queued or being updated,  *)
(* so that wait() ends with the last update and not before.                  *)
THEOREM PendingRequestsExact == Spec => []PendingIsExact
<1>1. IInv => PendingIsExact
  BY DEF IInv, UpdaterInv
<1> QED
  BY <1>1, ManagerInvariant, PTL

(* The map-update threads never touch a destroyed map, never meet in one,    *)
(* never run beside the world thread outside MapManager::Update, never call  *)
(* through a null request and never drop one, however many there are.        *)
THEOREM MapUpdatesAreSafe == Spec => []UpdatesAreSafe
<1>1. IInv => UpdatesAreSafe
  BY IInvSafe
<1> QED
  BY <1>1, ManagerInvariant, PTL

(* The queue between the world thread and the workers loses no wakeup in the *)
(* composed system, and the shutdown leaves no worker asleep.                *)
THEOREM WorkersAreWoken == Spec => [](WorkConserving /\ NobodySleepsAfterShutdown)
<1>1. IInv => WorkConserving /\ NobodySleepsAfterShutdown
  BY DEF IInv, QueueIInv
<1> QED
  BY <1>1, ManagerInvariant, PTL
=============================================================================
