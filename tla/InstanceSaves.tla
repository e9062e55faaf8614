---------------------------- MODULE InstanceSaves ----------------------------
(***************************************************************************)
(* Instance saves of normal dungeons and their reset schedule:              *)
(* src/server/game/Instances/InstanceSaveMgr.cpp, InstanceMap in            *)
(* Maps/Map.cpp, MapManager::CreateMap, the binds in Player.cpp.            *)
(*                                                                         *)
(* One dungeon map visited by players without a group.  An instance and its *)
(* map are identified by the instance id; 0 is "no instance", and as a map  *)
(* it stands for the world outside.  The character database executes the    *)
(* queued statements in order, so its tables are written at once; the       *)
(* reset time of an unloaded save is the one RemoveInstanceSave stored.     *)
(*                                                                         *)
(* A scheduled reset keeps the instance id in 16 bits: from EventIdLimit on *)
(* the reset of an instance falls on another one, or on id 0, for which     *)
(* nothing is found but which is freed.  Where GenerateInstanceId would     *)
(* then hand out 0, ASSERT(mapSave) in InstanceMap::AddPlayerToMap ends the *)
(* server: nobody enters a new instance any more.                           *)
(***************************************************************************)
EXTENDS InstanceMap, InstanceIds

CONSTANTS ResetDelay,   \* the 2 * HOUR of a normal instance
          EventIdLimit, \* 2^16: InstResetEvent::instanceId is a uint16
          RaidId,       \* an id the instance table has at first, of a raid; 0 for none
          MaxTime       \* bound: the clock stops there

Outside == 0

ASSUME IdsAreMaps == InstanceMaps \subseteq Nat \ {0} /\ WorldMaps = {Outside} /\ BattlegroundMaps = {}
ASSUME ResetDelayAssumption == ResetDelay \in Nat \ {0}
ASSUME EventIdLimitAssumption == EventIdLimit \in Nat \ {0}
ASSUME RaidIdAssumption == RaidId \in Nat \ InstanceMaps

VARIABLES saves,        \* m_instanceSaveById: the ids with an InstanceSave in memory
          playerList,   \* InstanceSave::m_playerList
          resetAt,      \* InstanceSave::m_resetTime, or instance.resettime when unloaded
          bind,         \* Player::m_boundInstances of online players
          dbBind,       \* table character_instance
          lastInst,     \* characters.instance_id
          events,       \* m_resetTimeQueue: <<time, instanceId of the InstResetEvent>>
          now

saveVars == <<saves, playerList, resetAt, bind, dbBind, lastInst, events>>
instVars == <<mapVars, idVars, saveVars, now>>

SavesTypeOK ==
  /\ MapTypeOK /\ IdTypeOK
  /\ saves \in SUBSET InstanceMaps
  /\ playerList \in [InstanceMaps -> SUBSET Players]
  /\ resetAt \in [InstanceMaps -> Nat]
  /\ bind \in [Players -> InstanceMaps \cup {0}]
  /\ dbBind \in [Players -> InstanceMaps \cup {0}]
  /\ lastInst \in [Players -> InstanceMaps \cup {0}]
  /\ events \in SUBSET (Nat \X (0 .. EventIdLimit - 1))
  /\ now \in Nat

(* InitInstanceIds, and RegisterInstanceId of the only id in the instance    *)
(* table, whose instance is not followed further; nobody is online.          *)
InstInit ==
  /\ MapInit
  /\ freeIds = (1 .. RaidId + 1) \ {RaidId} /\ capacity = RaidId + 2
  /\ nextId = (IF RaidId = 1 THEN 2 ELSE 1) /\ freedIds = {} /\ stopping = FALSE
  /\ saves = {} /\ events = {} /\ now = 0
  /\ playerList = [id \in InstanceMaps |-> {}]
  /\ resetAt = [id \in InstanceMaps |-> 0]
  /\ bind = [p \in Players |-> 0]
  /\ dbBind = [p \in Players |-> 0]
  /\ lastInst = [p \in Players |-> 0]

-----------------------------------------------------------------------------
(* The conversion of an instance id in the constructor of InstResetEvent.    *)
EventId(id) == id % EventIdLimit

(* AddInstanceSave for an id without a save does not schedule the reset,     *)
(* trusting InstanceMap::RemovePlayerFromMap to: a plausible slip.           *)
AddInstanceSaveUnscheduled(id) ==
  /\ resetAt' = [resetAt EXCEPT ![id] = now + ResetDelay]
  /\ UNCHANGED events

(* AddInstanceSave(id) with no reset time, when there is no save yet.        *)
AddInstanceSave(id) ==
  /\ resetAt' = [resetAt EXCEPT ![id] = now + ResetDelay]
  /\ events' = events \cup {<<now + ResetDelay, EventId(id)>>}

(* Player::BindToInstance(save of id, permanent = false).                    *)
BindToInstance(p, id) ==
  /\ bind' = [bind EXCEPT ![p] = id]
  /\ dbBind' = [dbBind EXCEPT ![p] = id]
  /\ playerList' = [playerList EXCEPT ![id] = @ \cup {p}]

(* Player p, whose bind is b, is linked to map m and added to it.  A dungeon *)
(* without a save gets one and a player without a bind gets the dungeon's.   *)
(* SetResetSchedule(false) does nothing, because SetMap has linked p to the  *)
(* map before AddPlayerToMap: the map already has players.                   *)
AddPlayerToMap(p, m, b) ==
  LET loaded == saves \cup ({b} \ {0}) IN
  /\ EnterMap(p, m)
  /\ saves' = loaded \cup ({m} \ {Outside})
  /\ IF m # Outside /\ m \notin loaded THEN AddInstanceSave(m) ELSE UNCHANGED <<resetAt, events>>
  /\ \/ m # Outside /\ b = 0 /\ BindToInstance(p, m)
     \/ b # 0 /\ BindToInstance(p, b)
     \/ m = Outside /\ b = 0 /\ UNCHANGED <<bind, dbBind, playerList>>

(* Player::LoadFromDB: _LoadBoundInstances, then CreateMap with the saved    *)
(* instance id: the bound instance, or a loaded map of that id, or outside.  *)
LoginMap(p) ==
  IF lastInst[p] = 0 THEN Outside
  ELSE IF dbBind[p] # 0 THEN dbBind[p]
  ELSE IF lastInst[p] \in i_maps THEN lastInst[p] ELSE Outside

LoadFromDB(p) ==
  /\ mapOf[p] = NoMap
  /\ AddPlayerToMap(p, LoginMap(p), dbBind[p])
  /\ UNCHANGED <<idVars, lastInst, now>>

(* HandleMoveWorldportAck of a player coming from outside: CreateMap finds   *)
(* the bound instance ...                                                    *)
AckBound(p) ==
  /\ IsBeingTeleportedFar(p) /\ mapOf[p] = Outside
  /\ bind[p] # 0
  /\ AddPlayerToMap(p, bind[p], bind[p])
  /\ UNCHANGED <<idVars, lastInst, now>>

(* The bind is not looked up: a plausible slip. *)
AckIgnoringBind(p) ==
  /\ IsBeingTeleportedFar(p) /\ mapOf[p] = Outside
  /\ nextId \in InstanceMaps
  /\ GenerateInstanceId
  /\ AddPlayerToMap(p, nextId, bind[p])
  /\ UNCHANGED <<lastInst, now>>

(* ... or generates an id for a new one.                                     *)
AckUnbound(p) ==
  /\ IsBeingTeleportedFar(p) /\ mapOf[p] = Outside
  /\ bind[p] = 0
  /\ nextId \in InstanceMaps
  /\ GenerateInstanceId
  /\ AddPlayerToMap(p, nextId, 0)
  /\ UNCHANGED <<lastInst, now>>

(* CannotEnter refuses the player after CreateMap has taken an id and        *)
(* created the map; the player goes on to its homebind.                      *)
AckRefused(p) ==
  /\ mapOf[p] = Outside /\ bind[p] = 0
  /\ nextId \in InstanceMaps
  /\ GenerateInstanceId
  /\ HandleMoveWorldportAckFails(p, nextId)
  /\ UNCHANGED <<saveVars, now>>

(* The acknowledgement of a teleport to the world outside. *)
AckOutside(p) ==
  /\ IsBeingTeleportedFar(p)
  /\ AddPlayerToMap(p, Outside, bind[p])
  /\ UNCHANGED <<idVars, lastInst, now>>

(* TeleportTo another map.  In RemovePlayerFromMap, SetResetSchedule(true)   *)
(* and UnloadInstanceSave find the leaving player still linked, and do       *)
(* nothing.                                                                  *)
TeleportAway(p) ==
  /\ TeleportTo(p)
  /\ UNCHANGED <<idVars, saveVars, now>>

(* LogoutPlayer: CleanupsBeforeDelete takes the player off its save's list   *)
(* (which unloads the save unless somebody is linked to the map); then, with *)
(* the player deleted, SetResetSchedule(true) and UnloadInstanceSave.        *)
Logout(p) ==
  LET m == mapOf[p]
      b == bind[p]
      list == [id \in InstanceMaps |-> playerList[id] \ {p}]
      kept == saves \ {id \in {b} \ {0} : list[id] = {} /\ ~HavePlayers(id)}
      last == m # Outside /\ Linked(m) = {p}
  IN
  /\ p \in inWorld
  /\ LogoutPlayer(p)
  /\ playerList' = list
  /\ bind' = [bind EXCEPT ![p] = 0]
  /\ lastInst' = [lastInst EXCEPT ![p] = m]
  /\ events' = IF last /\ m \in kept THEN events \cup {<<resetAt[m], EventId(m)>>} ELSE events
  /\ saves' = IF last /\ list[m] = {} THEN kept \ {m} ELSE kept
  /\ UNCHANGED <<idVars, resetAt, dbBind, now>>

(* Unit::Kill of a creature in the dungeon pushes the reset time out; the    *)
(* scheduled event is not moved.                                             *)
KillCreature(p) ==
  LET m == mapOf[p] IN
  /\ p \in inWorld /\ m \in saves
  /\ resetAt[m] < now + ResetDelay
  /\ resetAt' = [resetAt EXCEPT ![m] = now + ResetDelay]
  /\ UNCHANGED <<mapVars, idVars, saves, playerList, bind, dbBind, lastInst, events, now>>

(* Player::ResetInstances(INSTANCE_RESET_ALL): refused while the loaded map  *)
(* has players.  The id is not freed and the scheduled reset stays.          *)
ResetInstances(p) ==
  LET id == bind[p] IN
  /\ p \in inWorld /\ id # 0
  /\ ~HavePlayers(id)
  /\ ResetEmpty(id) \/ (id \notin i_maps /\ UNCHANGED mapVars)
  /\ dbBind' = [q \in Players |-> IF dbBind[q] = id THEN 0 ELSE dbBind[q]]
  /\ bind' = [bind EXCEPT ![p] = 0]
  /\ playerList' = [playerList EXCEPT ![id] = @ \ {p}]
  /\ saves' = IF playerList[id] = {p} THEN saves \ {id} ELSE saves
  /\ UNCHANGED <<idVars, resetAt, lastInst, events, now>>

-----------------------------------------------------------------------------
Due == {e \in events : e[1] < now}

(* The players keep their binds: a plausible slip. *)
ResetSaveOnly(id) ==
  /\ saves' = saves \ {id}
  /\ UNCHANGED <<bind, playerList>>

(* _ResetSave unbinds every online player, then the save is deleted.         *)
ResetSave(id) ==
  /\ bind' = [p \in Players |-> IF p \in playerList[id] /\ bind[p] = id THEN 0 ELSE bind[p]]
  /\ playerList' = [playerList EXCEPT ![id] = {}]
  /\ saves' = saves \ {id}

(* InstanceSaveManager::Update takes the earliest due event: _ResetInstance  *)
(* of the id the event has kept.                                             *)
ResetInstance(e) ==
  LET id == e[2] IN
  /\ e \in Due /\ \A f \in Due : e[1] <= f[1]
  /\ IF id \in saves THEN ResetSave(id) ELSE UNCHANGED <<bind, playerList, saves>>
  /\ dbBind' = [p \in Players |-> IF dbBind[p] = id THEN 0 ELSE dbBind[p]]
  /\ ResetEmpty(id) \/ ResetOccupied(id) \/ (id \notin i_maps \ {Outside} /\ UNCHANGED mapVars)
  /\ FreeInstanceId(id)
  /\ events' = events \ {e}
  /\ UNCHANGED <<resetAt, lastInst, now>>

(* Time passes; every world update empties the queue of due resets. *)
Tick ==
  /\ now < MaxTime
  /\ Due = {}
  /\ now' = now + 1
  /\ UNCHANGED <<mapVars, idVars, saveVars>>

(* MapManager::Update looks at map m. *)
UpdateMap(m) ==
  /\ m \in i_maps
  /\ \/ CanUnload(m) /\ (DestroyMap(m) \/ DestroyMapRefused(m))
     \/ /\ ~CanUnload(m) /\ unloadTimer[m] > 0
        /\ unloadTimer' = CountedDown(m)
        /\ UNCHANGED <<i_maps, mapOf, inWorld, unloadWhenEmpty>>
  /\ UNCHANGED <<idVars, saveVars, now>>

InstNext ==
  \/ \E p \in Players :
       \/ LoadFromDB(p) \/ AckBound(p) \/ AckUnbound(p) \/ AckRefused(p) \/ AckOutside(p)
       \/ TeleportAway(p) \/ Logout(p) \/ KillCreature(p) \/ ResetInstances(p)
  \/ \E e \in events : ResetInstance(e)
  \/ \E m \in InstanceMaps : UpdateMap(m)
  \/ Tick

InstSpec == InstInit /\ [][InstNext]_instVars

-----------------------------------------------------------------------------
(* Properties. *)

(* A bind never outlives its save and the two lists agree: the pointers of   *)
(* m_boundInstances and of m_playerList are broken together, whoever logs    *)
(* out, resets or is reset (the ASSERTs of ~InstanceSave and _ResetSave).    *)
BindsMatchSaves ==
  \A id \in InstanceMaps, p \in Players :
    /\ p \in playerList[id] <=> bind[p] = id
    /\ p \in playerList[id] => id \in saves

(* "cannot jump to a different instance without resetting it": a player      *)
(* enters the instance it is bound to (the ASSERT of AddPlayerToMap).        *)
EntersItsOwnInstance ==
  [][ \A p \in Players :
        (mapOf'[p] # mapOf[p] /\ mapOf'[p] \in InstanceMaps) => bind'[p] = mapOf'[p] ]_instVars

(* No bind lasts for ever: as long as a player, online or not, is bound to a *)
(* normal instance, a reset of that instance is scheduled.  It is promised   *)
(* for the ids an event can keep only: InstResetEvent cuts the others, so    *)
(* that nothing ever resets their instances.  Resets that fall on an         *)
(* instance by such a cut id do not take its own away before its binds.      *)
Expires(id) == (id # 0 /\ id < EventIdLimit) => \E e \in events : e[2] = id

EveryBindExpires == \A p \in Players : Expires(dbBind[p]) /\ Expires(bind[p])
=============================================================================
