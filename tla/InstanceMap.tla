----------------------------- MODULE InstanceMap -----------------------------
(***************************************************************************)
(* The life of maps and of the players in them: the map reference list      *)
(* (Player::SetMap / Player::ResetMap), the far teleport, and the unload    *)
(* timer of instance and battleground maps.                                *)
(* Source: src/server/game/Maps/Map.cpp, Map.h, MapManager.cpp,             *)
(*         Handlers/MovementHandler.cpp, Entities/Player/Player.cpp.        *)
(*                                                                         *)
(* A player stays linked to the old map's m_mapRefManager during a far      *)
(* teleport: TeleportTo takes it out of the world, and only the client's    *)
(* worldport acknowledgement unlinks it and links it to the new map.        *)
(***************************************************************************)
EXTENDS Naturals, FiniteSets

CONSTANTS Players,
          WorldMaps, InstanceMaps, BattlegroundMaps,  \* keys {mapId, instanceId}
          NoMap,
          UnloadDelay   \* max(CONFIG_INSTANCE_UNLOAD_DELAY, MIN_UNLOAD_DELAY), in ticks

MIN_UNLOAD_DELAY == 1

Maps == WorldMaps \cup InstanceMaps \cup BattlegroundMaps

ASSUME MapKindsDisjoint ==
  /\ WorldMaps \cap InstanceMaps = {}
  /\ WorldMaps \cap BattlegroundMaps = {}
  /\ InstanceMaps \cap BattlegroundMaps = {}
ASSUME NoMapIsNoMap == NoMap \notin Maps
ASSUME PlayersFinite == IsFiniteSet(Players)
ASSUME UnloadDelayAssumption == UnloadDelay \in Nat /\ UnloadDelay >= MIN_UNLOAD_DELAY

VARIABLES i_maps,           \* MapManager::i_maps: the maps that exist
          mapOf,            \* target of each player's m_mapRef
          inWorld,          \* players that are IsInWorld
          unloadTimer,      \* Map::m_unloadTimer
          unloadWhenEmpty   \* maps with m_unloadWhenEmpty

mapVars == <<i_maps, mapOf, inWorld, unloadTimer, unloadWhenEmpty>>

Linked(m) == {p \in Players : mapOf[p] = m}
HavePlayers(m) == Linked(m) # {}
Inside(m) == {p \in inWorld : mapOf[p] = m}
IsBeingTeleportedFar(p) == mapOf[p] # NoMap /\ p \notin inWorld

MapTypeOK ==
  /\ i_maps \in SUBSET Maps
  /\ mapOf \in [Players -> Maps \cup {NoMap}]
  /\ inWorld \in SUBSET Players
  /\ unloadTimer \in [Maps -> Nat]
  /\ unloadWhenEmpty \in SUBSET Maps

(* No map and no player is loaded; maps are created on demand. *)
MapInit ==
  /\ i_maps = {}
  /\ mapOf = [p \in Players |-> NoMap]
  /\ inWorld = {}
  /\ unloadTimer = [m \in Maps |-> 0]
  /\ unloadWhenEmpty = {}

-----------------------------------------------------------------------------
(* The timer is never counted down: a plausible slip. *)
NotCountedDown(m) == unloadTimer

(* Map::CanUnload(diff) with a diff of one tick: the test, and the timer it  *)
(* leaves behind when the map stays.                                         *)
CanUnload(m) == unloadTimer[m] > 0 /\ unloadTimer[m] <= 1
CountedDown(m) == [unloadTimer EXCEPT ![m] = IF @ > 0 THEN @ - 1 ELSE 0]

(* The timer and flags of m once MapManager::CreateMap has returned it: the  *)
(* InstanceMap constructor starts the timer, other maps do not.              *)
TimerOnceCreated(m) ==
  IF m \notin i_maps
  THEN [unloadTimer EXCEPT ![m] = IF m \in InstanceMaps THEN UnloadDelay ELSE 0]
  ELSE unloadTimer

WhenEmptyOnceCreated(m) == IF m \in i_maps THEN unloadWhenEmpty ELSE unloadWhenEmpty \ {m}

(* The entering player does not stop the timer: a plausible slip. *)
EnterMapKeepingTimer(p, m) ==
  /\ i_maps' = i_maps \cup {m}
  /\ mapOf' = [mapOf EXCEPT ![p] = m]
  /\ inWorld' = inWorld \cup {p}
  /\ unloadTimer' = TimerOnceCreated(m)
  /\ unloadWhenEmpty' = unloadWhenEmpty \ {m}

(* CreateMap followed by SetMap and AddPlayerToMap of player p: the entering *)
(* player stops an instance's unload timer.                                  *)
EnterMap(p, m) ==
  /\ i_maps' = i_maps \cup {m}
  /\ mapOf' = [mapOf EXCEPT ![p] = m]
  /\ inWorld' = inWorld \cup {p}
  /\ unloadTimer' = IF m \in InstanceMaps THEN [unloadTimer EXCEPT ![m] = 0]
                    ELSE TimerOnceCreated(m)
  /\ unloadWhenEmpty' = unloadWhenEmpty \ {m}

-----------------------------------------------------------------------------
(* Any leaving player starts the timer: a plausible slip. *)
TimerAfterAnyLeaves(p) ==
  LET m == mapOf[p] IN
  IF m \in InstanceMaps THEN [unloadTimer EXCEPT ![m] = MIN_UNLOAD_DELAY] ELSE unloadTimer

(* InstanceMap::RemovePlayerFromMap starts the timer "if last player": the   *)
(* reference list must hold exactly one player.                              *)
TimerAfterLeaving(p) ==
  LET m == mapOf[p] IN
  IF m \in InstanceMaps /\ unloadTimer[m] = 0 /\ Cardinality(Linked(m)) = 1
  THEN [unloadTimer EXCEPT ![m] = IF m \in unloadWhenEmpty THEN MIN_UNLOAD_DELAY
                                  ELSE UnloadDelay]
  ELSE unloadTimer

(* Player::TeleportTo to another map: out of the world, still linked. *)
TeleportTo(p) ==
  /\ p \in inWorld
  /\ inWorld' = inWorld \ {p}
  /\ unloadTimer' = TimerAfterLeaving(p)
  /\ UNCHANGED <<i_maps, mapOf, unloadWhenEmpty>>

(* Player login: the map of the saved position is found or created. *)
Login(p, m) ==
  /\ mapOf[p] = NoMap
  /\ EnterMap(p, m)

(* WorldSession::HandleMoveWorldportAck. *)
HandleMoveWorldportAck(p, m) ==
  /\ IsBeingTeleportedFar(p)
  /\ m # mapOf[p]
  /\ EnterMap(p, m)

(* The acknowledgement finds a map that refuses the player: the map was      *)
(* created, the player starts a new far teleport to its homebind.            *)
HandleMoveWorldportAckFails(p, m) ==
  /\ IsBeingTeleportedFar(p)
  /\ m # mapOf[p]
  /\ i_maps' = i_maps \cup {m}
  /\ unloadTimer' = TimerOnceCreated(m)
  /\ unloadWhenEmpty' = WhenEmptyOnceCreated(m)
  /\ UNCHANGED <<mapOf, inWorld>>

(* WorldSession::LogoutPlayer removes and deletes the player, which unlinks  *)
(* it.  A player in transit is first moved to its destination (an            *)
(* acknowledgement step); one whose teleport was refused for good logs out   *)
(* of the map it is still linked to.                                         *)
LogoutPlayer(p) ==
  /\ mapOf[p] # NoMap
  /\ inWorld' = inWorld \ {p}
  /\ mapOf' = [mapOf EXCEPT ![p] = NoMap]
  /\ unloadTimer' = TimerAfterLeaving(p)
  /\ UNCHANGED <<i_maps, unloadWhenEmpty>>

(* InstanceMap::Reset when nobody is linked: unloaded at the next update.    *)
ResetEmpty(m) ==
  /\ m \in InstanceMaps \cap i_maps
  /\ ~HavePlayers(m)
  /\ unloadTimer' = [unloadTimer EXCEPT ![m] = MIN_UNLOAD_DELAY]
  /\ UNCHANGED <<i_maps, mapOf, inWorld, unloadWhenEmpty>>

(* InstanceMap::Reset by a reset time with players linked: the map unloads   *)
(* as soon as they have left.                                                *)
ResetOccupied(m) ==
  /\ m \in InstanceMaps \cap i_maps
  /\ HavePlayers(m)
  /\ unloadWhenEmpty' = unloadWhenEmpty \cup {m}
  /\ UNCHANGED <<i_maps, mapOf, inWorld, unloadTimer>>

(* BattlegroundMap::SetUnload, from the Battleground's destructor. *)
SetUnload(m) ==
  /\ m \in BattlegroundMaps \cap i_maps
  /\ unloadTimer' = [unloadTimer EXCEPT ![m] = MIN_UNLOAD_DELAY]
  /\ UNCHANGED <<i_maps, mapOf, inWorld, unloadWhenEmpty>>

-----------------------------------------------------------------------------
(* HavePlayers is not asked again after RemoveAllPlayers: a plausible slip.  *)
DestroyMapUnchecked(m) ==
  /\ i_maps' = i_maps \ {m}
  /\ inWorld' = inWorld \ Inside(m)
  /\ unloadTimer' = [unloadTimer EXCEPT ![m] = 0]
  /\ unloadWhenEmpty' = unloadWhenEmpty \ {m}
  /\ UNCHANGED mapOf

(* MapManager::DestroyMap(m): RemoveAllPlayers sends those not already in    *)
(* transit away (some may be refused), and the map is deleted when nobody is *)
(* linked.                                                                   *)
DestroyMap(m) ==
  /\ ~HavePlayers(m)
  /\ i_maps' = i_maps \ {m}
  /\ unloadTimer' = [unloadTimer EXCEPT ![m] = 0]
  /\ unloadWhenEmpty' = unloadWhenEmpty \ {m}
  /\ UNCHANGED <<mapOf, inWorld>>

DestroyMapRefused(m) ==
  /\ HavePlayers(m)
  /\ \E sent \in SUBSET Inside(m) : inWorld' = inWorld \ sent
  /\ UNCHANGED <<i_maps, mapOf, unloadTimer, unloadWhenEmpty>>

(* MapManager::LoadInstanceForSave and UnloadEmptyInstance, by which an      *)
(* instance is prepared, read back and dropped without any player.           *)
LoadInstanceForSave(m) ==
  /\ m \in InstanceMaps \ i_maps
  /\ i_maps' = i_maps \cup {m}
  /\ unloadTimer' = TimerOnceCreated(m)
  /\ unloadWhenEmpty' = WhenEmptyOnceCreated(m)
  /\ UNCHANGED <<mapOf, inWorld>>

UnloadEmptyInstance(m) ==
  /\ m \in InstanceMaps \cap i_maps
  /\ ~HavePlayers(m)
  /\ DestroyMap(m)

-----------------------------------------------------------------------------
(* What the world thread does to maps and players between map updates. *)
WorldThreadMapStep ==
  \/ \E p \in Players, m \in Maps : Login(p, m)
  \/ \E p \in Players, m \in Maps : HandleMoveWorldportAck(p, m)
  \/ \E p \in Players, m \in Maps : HandleMoveWorldportAckFails(p, m)
  \/ \E p \in Players : TeleportTo(p)
  \/ \E p \in Players : LogoutPlayer(p)
  \/ \E m \in Maps : ResetEmpty(m)
  \/ \E m \in Maps : ResetOccupied(m)
  \/ \E m \in Maps : SetUnload(m)
  \/ \E m \in Maps : LoadInstanceForSave(m)
  \/ \E m \in Maps : UnloadEmptyInstance(m)

-----------------------------------------------------------------------------
(* Properties. *)

(* A player is only ever linked to a map that exists: no map is destroyed    *)
(* under a player, not even under one that is between two maps.              *)
LinkedMapsExist ==
  \A p \in Players : mapOf[p] # NoMap => mapOf[p] \in i_maps

(* An instance somebody plays in is never counting down to be unloaded, so   *)
(* only players already on their way out can delay or meet its destruction.  *)
OccupiedInstanceIsKept ==
  \A m \in InstanceMaps : Inside(m) # {} => unloadTimer[m] = 0

(* Teleports, logouts, resets and unloads in any order take no map away from *)
(* a player.                                                                 *)
PlayersKeepTheirMaps == LinkedMapsExist /\ OccupiedInstanceIsKept
=============================================================================
