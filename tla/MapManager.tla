------------------------------ MODULE MapManager ------------------------------
(***************************************************************************)
(* MapManager::Update and MapManager::UnloadAll                             *)
(* (src/server/game/Maps/MapManager.cpp) on top of the map-update threads   *)
(* and of the life of maps and players.                                     *)
(*                                                                         *)
(* The world thread alternates between everything World::Update does        *)
(* outside MapManager::Update ("world") and MapManager::Update itself: scan *)
(* the maps (destroy the expired ones, schedule the others), wait for the   *)
(* workers, run DelayedUpdate on every map.  The workers run Map::Update,   *)
(* in which players may leave the map for another one.                      *)
(***************************************************************************)
EXTENDS MapUpdater, InstanceMap

ASSUME RequestsAreMaps == Values = Maps

VARIABLES mpc,    \* where the world thread is
          scan    \* the maps the current loop over i_maps has still to visit

managerVars == <<mpc, scan>>
vars == <<queueVars, updaterVars, mapVars, managerVars>>

TypeOK ==
  /\ UpdaterTypeOK
  /\ MapTypeOK
  /\ mpc \in {"world", "scan", "wait", "delayed", "kicked", "unloaded", "deactivate", "done"}
  /\ scan \in SUBSET Maps

Init ==
  /\ UpdaterInit
  /\ MapInit
  /\ mpc = "world"
  /\ scan = {}

-----------------------------------------------------------------------------
(* Sessions, battlegrounds, instance resets: the rest of World::Update. *)
WorldThreadRuns ==
  /\ mpc = "world"
  /\ WorldThreadMapStep
  /\ UNCHANGED <<queueVars, updaterVars, managerVars>>

(* i_timer has passed: MapManager::Update begins its loop. *)
UpdateBegins ==
  /\ mpc = "world"
  /\ mpc' = "scan"
  /\ scan' = i_maps
  /\ UNCHANGED <<queueVars, updaterVars, mapVars>>

(* One iteration of the loop on a map whose timer has run out. *)
ScanDestroys(m) ==
  /\ mpc = "scan"
  /\ m \in scan
  /\ CanUnload(m)
  /\ DestroyMap(m) \/ DestroyMapRefused(m)
  /\ scan' = scan \ {m}
  /\ UNCHANGED <<queueVars, updaterVars, mpc>>

(* The map is scheduled before its timer is looked at: a plausible slip. *)
ScanSchedulesFirst(m) ==
  /\ mpc = "scan"
  /\ m \in scan
  /\ activated
  /\ unloadTimer' = IF CanUnload(m) THEN unloadTimer ELSE CountedDown(m)
  /\ schedule_update(m)
  /\ scan' = IF CanUnload(m) THEN scan ELSE scan \ {m}
  /\ UNCHANGED <<i_maps, mapOf, inWorld, unloadWhenEmpty, mpc>>

(* One iteration on any other map, with worker threads ... *)
ScanSchedules(m) ==
  /\ mpc = "scan"
  /\ m \in scan
  /\ ~CanUnload(m)
  /\ activated
  /\ unloadTimer' = CountedDown(m)
  /\ schedule_update(m)
  /\ scan' = scan \ {m}
  /\ UNCHANGED <<i_maps, mapOf, inWorld, unloadWhenEmpty, mpc>>

(* ... and, with none configured, on the world thread itself. *)
ScanUpdates(m) ==
  /\ mpc = "scan"
  /\ m \in scan
  /\ ~CanUnload(m)
  /\ ~activated
  /\ \E left \in SUBSET Inside(m) : inWorld' = inWorld \ left
       /\ unloadTimer' = IF m \in InstanceMaps /\ left # {} /\ Cardinality(Linked(m)) = 1
                         THEN [unloadTimer EXCEPT ![m] = IF m \in unloadWhenEmpty
                                                         THEN MIN_UNLOAD_DELAY ELSE UnloadDelay]
                         ELSE CountedDown(m)
  /\ scan' = scan \ {m}
  /\ UNCHANGED <<queueVars, updaterVars, i_maps, mapOf, unloadWhenEmpty, mpc>>

(* The workers are not waited for: a plausible slip. *)
ScanEndsWithoutWait ==
  /\ mpc = "scan" /\ scan = {}
  /\ mpc' = "delayed" /\ scan' = i_maps
  /\ UNCHANGED <<queueVars, updaterVars, mapVars>>

ScanEnds ==
  /\ mpc = "scan" /\ scan = {}
  /\ \/ activated /\ wait /\ mpc' = "wait" /\ UNCHANGED scan
     \/ ~activated /\ mpc' = "delayed" /\ scan' = i_maps /\ UNCHANGED <<queueVars, updaterVars>>
  /\ UNCHANGED mapVars

WaitStep ==
  /\ WaitTests
  /\ UNCHANGED <<mapVars, managerVars>>

WaitIsWokenSpuriously ==
  /\ WaitWokenSpuriously
  /\ UNCHANGED <<mapVars, managerVars>>

WaitReturns ==
  /\ mpc = "wait" /\ caller = "free"
  /\ mpc' = "delayed" /\ scan' = i_maps
  /\ UNCHANGED <<queueVars, updaterVars, mapVars>>

(* Map::DelayedUpdate and, after the last map, the end of the tick. *)
DelayedUpdate ==
  /\ mpc = "delayed"
  /\ \/ \E m \in scan : scan' = scan \ {m} /\ UNCHANGED mpc
     \/ scan = {} /\ mpc' = "world" /\ UNCHANGED scan
  /\ UNCHANGED <<queueVars, updaterVars, mapVars>>

(* A worker inside Map::Update of a player's map lets that player leave. *)
PlayerLeavesDuringUpdate(p) ==
  /\ \E w \in Workers : wpc[w] = "calling" /\ value[w] = mapOf[p]
  /\ TeleportTo(p)
  /\ UNCHANGED <<queueVars, updaterVars, managerVars>>

WorkerRuns(w) ==
  /\ WorkerStep(w)
  /\ UNCHANGED <<mapVars, managerVars>>

-----------------------------------------------------------------------------
(* Shutdown, after the last World::Update: KickAll and UpdateSessions log    *)
(* every player out, then MapManager::UnloadAll deletes all maps and stops   *)
(* the updater.                                                              *)
KickAll ==
  /\ mpc = "world"
  /\ mpc' = "kicked"
  /\ UNCHANGED <<queueVars, updaterVars, mapVars, scan>>

KickedPlayerLogsOut(p) ==
  /\ mpc = "kicked"
  /\ LogoutPlayer(p)
  /\ UNCHANGED <<queueVars, updaterVars, managerVars>>

UnloadAll ==
  /\ mpc = "kicked"
  /\ \A p \in Players : mapOf[p] = NoMap
  /\ i_maps' = {}
  /\ unloadTimer' = [m \in Maps |-> 0]
  /\ unloadWhenEmpty' = {}
  /\ mpc' = "unloaded"
  /\ UNCHANGED <<queueVars, updaterVars, mapOf, inWorld, scan>>

UnloadAllDeactivates ==
  /\ mpc = "unloaded"
  /\ \/ activated /\ deactivate /\ mpc' = "deactivate"
     \/ ~activated /\ mpc' = "done" /\ UNCHANGED <<queueVars, updaterVars>>
  /\ UNCHANGED <<mapVars, scan>>

DeactivateSteps ==
  /\ DeactivateCancels \/ DeactivateJoins
  /\ UNCHANGED <<mapVars, managerVars>>

DeactivateReturns ==
  /\ mpc = "deactivate" /\ caller = "stopped"
  /\ mpc' = "done"
  /\ UNCHANGED <<queueVars, updaterVars, mapVars, scan>>

Terminated == mpc = "done" /\ UNCHANGED vars

-----------------------------------------------------------------------------
(* One tick of MapManager::Update. *)
UpdateStep ==
  \/ \E m \in Maps : ScanDestroys(m) \/ ScanSchedules(m) \/ ScanUpdates(m)
  \/ ScanEnds
  \/ WaitStep
  \/ WaitReturns
  \/ DelayedUpdate

ShutdownStep ==
  \/ \E p \in Players : KickedPlayerLogsOut(p)
  \/ UnloadAll
  \/ UnloadAllDeactivates
  \/ DeactivateSteps
  \/ DeactivateReturns

Next ==
  \/ WorldThreadRuns
  \/ UpdateBegins
  \/ UpdateStep
  \/ WaitIsWokenSpuriously
  \/ \E w \in Workers : WorkerRuns(w)
  \/ \E p \in Players : PlayerLeavesDuringUpdate(p)
  \/ KickAll
  \/ ShutdownStep
  \/ Terminated

Spec == Init /\ [][Next]_vars

(* The operating system runs every thread that can run, and the world loop   *)
(* calls MapManager::Update again and again; world events, spurious wakeups  *)
(* and the shutdown are never forced.                                        *)
Fairness ==
  /\ WF_vars(UpdateBegins)
  /\ WF_vars(UpdateStep)
  /\ WF_vars(ShutdownStep)
  /\ \A w \in Workers : WF_vars(WorkerRuns(w) /\ ~ SpuriousWakeup(w))

FairSpec == Spec /\ Fairness

-----------------------------------------------------------------------------
(* Properties. *)

Updating(m) == {w \in Workers : wpc[w] = "calling" /\ value[w] = m}

(* Map::Update is never entered on a map that MapManager has deleted, nor is *)
(* one queued for it: the scan never destroys what it has scheduled.         *)
NoUpdateOfDestroyedMap ==
  \A m \in Maps : Outstanding(m) => m \in i_maps

(* No two threads are ever in Map::Update of the same map.                   *)
OneUpdaterPerMap ==
  \A m \in Maps : Cardinality(Updating(m)) <= 1

(* Session handlers, DelayedUpdate, resets and shutdown touch any map from   *)
(* the world thread without a lock: no worker is then inside a map.          *)
WorldThreadAlone ==
  mpc \notin {"scan", "wait"} => queue = <<>> /\ Busy = {}

(* The discipline the code relies on instead of locks: what a worker updates *)
(* exists and is its own, the world thread is alone outside                  *)
(* MapManager::Update, and the shutdown neither drops a request nor lets a   *)
(* worker use the null one.                                                  *)
UpdatesAreSafe ==
  NoUpdateOfDestroyedMap /\ OneUpdaterPerMap /\ WorldThreadAlone /\ NoNullCall /\ NothingDropped

(* A tick that was begun ends: wait() returns whatever the order in which    *)
(* the workers finish.                                                       *)
TickEnds == mpc = "scan" ~> mpc = "world"

(* An instance that is counting down with nobody linked to it is destroyed,  *)
(* unless a player comes first.                                              *)
EmptyInstanceGoes ==
  \A m \in InstanceMaps :
    (unloadTimer[m] > 0 /\ ~HavePlayers(m)) ~> (m \notin i_maps \/ HavePlayers(m))

(* The shutdown that was begun ends, with every worker joined.               *)
ShutdownEnds == mpc = "kicked" ~> mpc = "done"
=============================================================================
