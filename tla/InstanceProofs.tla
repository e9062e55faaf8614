---------------------------- MODULE InstanceProofs ----------------------------
(***************************************************************************)
(* Instance ids and instance saves, for every database content, any number  *)
(* of players and every order of their comings and goings.                  *)
(***************************************************************************)
EXTENDS InstanceIdAllocation, InstanceSaves, TLAPS

-----------------------------------------------------------------------------
(* The allocator.  The inductive invariant adds to the checked properties    *)
(* what holds while the instance table is being registered: its ids come in  *)
(* ascending order, and those still to come are free.  That is why           *)
(* ++_nextInstanceId, with no search for a free bit, is enough in            *)
(* RegisterInstanceId.                                                       *)

LoadingAscends ==
  /\ loading \subseteq freeIds
  /\ capacity >= HighestDbId + 2
  /\ \A i \in loading, j \in live : j < i

AllocIInv ==
  /\ AllocTypeOK
  /\ NextIdIsLowestFree
  /\ LiveIdsAreNotFree
  /\ NoIdIsLost
  /\ UnfreedIdIsUnused
  /\ LoadingAscends

(* InitInstanceIds establishes the invariant. *)
LEMMA AllocInitially == AllocInit => AllocIInv
<1> SUFFICES ASSUME AllocInit PROVE AllocIInv
  OBVIOUS
<1>1. stopping \in BOOLEAN
  BY Zenon DEF AllocInit, InitInstanceIds
<1>2. AllocTypeOK
  BY <1>1, HighestDbIdAssumption DEF AllocInit, InitInstanceIds, AllocTypeOK, IdTypeOK
<1>3. NextIdIsLowestFree /\ LiveIdsAreNotFree /\ NoIdIsLost /\ UnfreedIdIsUnused
  BY HighestDbIdAssumption DEF AllocInit, InitInstanceIds, NextIdIsLowestFree,
     LiveIdsAreNotFree, NoIdIsLost, UnfreedIdIsUnused
<1>4. LoadingAscends
  BY HighestDbIdAssumption DEF AllocInit, InitInstanceIds, LoadingAscends
<1> QED BY <1>2, <1>3, <1>4 DEF AllocIInv

(* Registering the lowest id still to be loaded keeps the invariant: when it *)
(* is the next id, its successor is free.                                    *)
LEMMA RegisterStep ==
  ASSUME NEW id \in loading, AllocIInv, LoadNext(id)
  PROVE  AllocIInv'
<1> USE HighestDbIdAssumption
<1>0. /\ id \in 1 .. HighestDbId
      /\ id \in freeIds
      /\ id < capacity - 1
      /\ nextId <= id
  BY DEF AllocIInv, AllocTypeOK, IdTypeOK, LoadingAscends, NextIdIsLowestFree
<1>1. AllocTypeOK'
  BY <1>0 DEF AllocIInv, AllocTypeOK, IdTypeOK, LoadNext, RegisterInstanceId
<1>2. NextIdIsLowestFree'
  <2>1. CASE nextId # id
    BY <2>1, <1>0 DEF AllocIInv, AllocTypeOK, IdTypeOK, LoadNext, RegisterInstanceId, NextIdIsLowestFree
  <2>2. CASE nextId = id
    <3>1. id + 1 \in 1 .. capacity - 1
      BY <1>0 DEF AllocIInv, AllocTypeOK, IdTypeOK
    <3>2. id + 1 \notin live
      BY <1>0 DEF AllocIInv, AllocTypeOK, IdTypeOK, LoadingAscends
    <3>3. id + 1 \in freeIds
      BY <3>1, <3>2 DEF AllocIInv, NoIdIsLost
    <3> QED
      BY <2>2, <3>1, <3>3, <1>0
      DEF AllocIInv, AllocTypeOK, IdTypeOK, LoadNext, RegisterInstanceId, NextIdIsLowestFree
  <2> QED BY <2>1, <2>2
<1>3. LiveIdsAreNotFree' /\ UnfreedIdIsUnused'
  BY DEF AllocIInv, LoadNext, RegisterInstanceId, LiveIdsAreNotFree, UnfreedIdIsUnused
<1>4. NoIdIsLost'
  BY DEF AllocIInv, LoadNext, RegisterInstanceId, NoIdIsLost
<1>5. LoadingAscends'
  BY <1>0 DEF AllocIInv, AllocTypeOK, IdTypeOK, LoadNext, RegisterInstanceId, LoadingAscends
<1> QED BY <1>1, <1>2, <1>3, <1>4, <1>5 DEF AllocIInv

(* Handing out the next id and finding the one after it keeps the invariant. *)
LEMMA GenerateStep ==
  ASSUME AllocIInv, Generate
  PROVE  AllocIInv'
<1> DEFINE taken == freeIds \ {nextId}
           higher == {i \in taken : i > nextId}
<1>a. /\ nextId \in freeIds
      /\ nextId \in 1 .. capacity - 1
      /\ \A i \in taken : i > nextId
  BY DEF AllocIInv, AllocTypeOK, IdTypeOK, NextIdIsLowestFree
<1>b. higher = taken
  BY <1>a
<1>c. freedIds' = freedIds /\ stopping' = stopping
  BY Zenon DEF Generate, GenerateInstanceId
<1>0. /\ loading = {} /\ loading' = {}
      /\ live' = live \cup {nextId}
      /\ used' = used \cup {nextId}
  BY Zenon DEF Generate
<1> USE <1>a, <1>b, <1>c
<1>1. \/ /\ higher = {}
         /\ nextId' = capacity
         /\ capacity' = capacity + 1
         /\ freeIds' = taken \cup {capacity}
      \/ \E n \in higher :
         /\ \A i \in higher : n <= i
         /\ nextId' = n
         /\ freeIds' = taken
         /\ capacity' = capacity
  BY Zenon DEF Generate, GenerateInstanceId, AdvanceNextId
<1>2. CASE /\ higher = {}
           /\ nextId' = capacity
           /\ capacity' = capacity + 1
           /\ freeIds' = taken \cup {capacity}
  <2>1. freeIds' = {capacity}
    BY <1>0, <1>2
  <2>2. AllocTypeOK'
    BY <1>0, <1>2, <2>1 DEF AllocIInv, AllocTypeOK, IdTypeOK
  <2>3. NextIdIsLowestFree' /\ LiveIdsAreNotFree' /\ LoadingAscends'
    BY <1>0, <1>2, <2>1, HighestDbIdAssumption
    DEF AllocIInv, AllocTypeOK, IdTypeOK, NextIdIsLowestFree, LiveIdsAreNotFree, LoadingAscends
  <2>4. NoIdIsLost'
    BY <1>0, <1>2 DEF AllocIInv, AllocTypeOK, IdTypeOK, NoIdIsLost
  <2>5. UnfreedIdIsUnused'
    BY <1>0, <2>1 DEF AllocIInv, AllocTypeOK, IdTypeOK, UnfreedIdIsUnused
  <2> QED BY <2>2, <2>3, <2>4, <2>5 DEF AllocIInv
<1>3. CASE \E n \in higher :
           /\ \A i \in higher : n <= i
           /\ nextId' = n
           /\ freeIds' = taken
           /\ capacity' = capacity
  <2>1. AllocTypeOK'
    BY <1>0, <1>3 DEF AllocIInv, AllocTypeOK, IdTypeOK
  <2>2. NextIdIsLowestFree' /\ LiveIdsAreNotFree' /\ LoadingAscends'
    BY <1>0, <1>3, HighestDbIdAssumption
    DEF AllocIInv, AllocTypeOK, IdTypeOK, NextIdIsLowestFree, LiveIdsAreNotFree, LoadingAscends
  <2>3. NoIdIsLost' /\ UnfreedIdIsUnused'
    BY <1>0, <1>3 DEF AllocIInv, AllocTypeOK, IdTypeOK, NoIdIsLost, UnfreedIdIsUnused
  <2> QED BY <2>1, <2>2, <2>3 DEF AllocIInv
<1> QED BY <1>1, <1>2, <1>3

(* Giving an id back keeps the invariant. *)
LEMMA FreeStep ==
  ASSUME NEW id \in live, AllocIInv, Free(id)
  PROVE  AllocIInv'
<1> USE HighestDbIdAssumption
<1>1. AllocTypeOK'
  BY DEF AllocIInv, AllocTypeOK, IdTypeOK, Free, FreeInstanceId
<1>2. NextIdIsLowestFree'
  BY DEF AllocIInv, AllocTypeOK, IdTypeOK, Free, FreeInstanceId, NextIdIsLowestFree
<1>3. LiveIdsAreNotFree' /\ NoIdIsLost' /\ UnfreedIdIsUnused'
  BY DEF AllocIInv, AllocTypeOK, IdTypeOK, Free, FreeInstanceId,
         LiveIdsAreNotFree, NoIdIsLost, UnfreedIdIsUnused
<1>4. LoadingAscends'
  BY DEF AllocIInv, Free, FreeInstanceId, LoadingAscends
<1> QED BY <1>1, <1>2, <1>3, <1>4 DEF AllocIInv

(* Every step keeps the invariant, the overflow and stuttering included. *)
LEMMA AllocStep == AllocIInv /\ [AllocNext]_allocVars => AllocIInv'
<1> SUFFICES ASSUME AllocIInv, [AllocNext]_allocVars PROVE AllocIInv'
  OBVIOUS
<1>1. CASE GenerateOverflows
  BY <1>1 DEF GenerateOverflows, GenerateInstanceIdOverflows, AllocIInv, AllocTypeOK, IdTypeOK,
     NextIdIsLowestFree, LiveIdsAreNotFree, NoIdIsLost, UnfreedIdIsUnused, LoadingAscends
<1>2. CASE UNCHANGED allocVars
  BY <1>2 DEF allocVars, idVars, AllocIInv, AllocTypeOK, IdTypeOK,
     NextIdIsLowestFree, LiveIdsAreNotFree, NoIdIsLost, UnfreedIdIsUnused, LoadingAscends
<1> QED BY <1>1, <1>2, RegisterStep, GenerateStep, FreeStep DEF AllocNext

(* At every moment the next id is the lowest free one and lies inside the    *)
(* bitset (the ASSERT of GenerateInstanceId), no id in use is free, none is  *)
(* lost, and an id on offer that was never freed was never used.             *)
THEOREM AllocatorCorrect == AllocSpec => []IdsAreSound
<1>1. AllocIInv => IdsAreSound
  BY DEF AllocIInv, IdsAreSound
<1> QED BY <1>1, AllocInitially, AllocStep, PTL DEF AllocSpec

(* GenerateInstanceId never hands out an id that is in use. *)
THEOREM HandedOutIdsAreNew == AllocSpec => HandedOutIdIsNew
<1>1. AllocIInv /\ [AllocNext]_allocVars => [Generate => nextId \notin live]_allocVars
  BY DEF AllocIInv, NextIdIsLowestFree, LiveIdsAreNotFree
<1> QED BY <1>1, AllocInitially, AllocStep, PTL DEF AllocSpec, HandedOutIdIsNew

(* The bitset only ever holds ids below its size. *)
THEOREM AllocTypeCorrect == AllocSpec => []AllocTypeOK
<1>1. AllocIInv => AllocTypeOK
  BY DEF AllocIInv
<1> QED BY <1>1, AllocInitially, AllocStep, PTL DEF AllocSpec

-----------------------------------------------------------------------------
(* The saves.  The inductive invariant adds to the checked properties that   *)
(* a player who is offline has no bind in memory, that every save in memory  *)
(* has its reset scheduled, if an event can keep its id (which is why a bind *)
(* to a loaded save needs no new event), and that every id in use is inside  *)
(* the bitset of ids (which FreeInstanceId, called by a reset with the id of *)
(* an event, cut or not, relies on).                                         *)

InRange(id) == id \in 0 .. capacity - 1

OfflineIsUnbound == \A p \in Players : mapOf[p] = NoMap => bind[p] = 0
SavesAreScheduled == \A id \in saves : Expires(id)

IdsAreInRange ==
  /\ InRange(nextId)
  /\ \A e \in events : InRange(e[2])
  /\ \A id \in i_maps \cup saves : InRange(id)
  /\ \A p \in Players : InRange(bind[p]) /\ InRange(dbBind[p])

SavesIInv ==
  /\ SavesTypeOK /\ BindsMatchSaves /\ EveryBindExpires
  /\ OfflineIsUnbound /\ SavesAreScheduled /\ IdsAreInRange

(* Cutting an id makes it no larger, and keeps the ones that fit.            *)
LEMMA EventIdBounds ==
  ASSUME NEW id \in Nat
  PROVE  /\ EventId(id) \in 0 .. EventIdLimit - 1
         /\ EventId(id) <= id
         /\ id < EventIdLimit => EventId(id) = id
<1>1. EventId(id) \in 0 .. EventIdLimit - 1
  BY EventIdLimitAssumption DEF EventId
<1>2. id < EventIdLimit => EventId(id) = id
  BY EventIdLimitAssumption DEF EventId
<1>3. EventId(id) <= id
  BY <1>1, <1>2, EventIdLimitAssumption
<1> QED BY <1>1, <1>2, <1>3

(* Every map is the world outside or an instance. *)
LEMMA MapsOfInstances == Maps = InstanceMaps \cup {0} /\ 0 \notin InstanceMaps
  BY IdsAreMaps DEF Maps, Outside

(* A player entering a map keeps the types of maps and players. *)
LEMMA EnterMapTypes ==
  ASSUME MapTypeOK, NEW p \in Players, NEW m \in Maps, EnterMap(p, m)
  PROVE  MapTypeOK'
<1>1. unloadTimer' \in [Maps -> Nat]
  BY UnloadDelayAssumption DEF MapTypeOK, EnterMap, TimerOnceCreated
<1> QED BY <1>1 DEF MapTypeOK, EnterMap

(* The timer a leaving player may start. *)
LEMMA LeavingTimerTypes ==
  ASSUME MapTypeOK, NEW p \in Players
  PROVE  TimerAfterLeaving(p) \in [Maps -> Nat]
<1>1. MIN_UNLOAD_DELAY \in Nat
  BY DEF MIN_UNLOAD_DELAY
<1> QED BY <1>1, UnloadDelayAssumption DEF MapTypeOK, TimerAfterLeaving

(* A refused acknowledgement keeps the types: the map is created all the     *)
(* same.                                                                     *)
LEMMA CreatedMapTypes ==
  ASSUME MapTypeOK, NEW p \in Players, NEW m \in Maps, HandleMoveWorldportAckFails(p, m)
  PROVE  MapTypeOK'
<1>1. unloadTimer' \in [Maps -> Nat]
  BY UnloadDelayAssumption DEF MapTypeOK, HandleMoveWorldportAckFails, TimerOnceCreated
<1> QED BY <1>1 DEF MapTypeOK, HandleMoveWorldportAckFails, WhenEmptyOnceCreated

(* Resetting a map, with or without players in it, keeps the types. *)
LEMMA ResetMapTypes ==
  ASSUME MapTypeOK, NEW m \in InstanceMaps, ResetEmpty(m) \/ ResetOccupied(m) \/ UNCHANGED mapVars
  PROVE  MapTypeOK' /\ i_maps' = i_maps /\ mapOf' = mapOf
<1>0. m \in Maps /\ MIN_UNLOAD_DELAY \in Nat
  BY DEF Maps, MIN_UNLOAD_DELAY
<1>1. CASE ResetEmpty(m)
  BY <1>0, <1>1 DEF MapTypeOK, ResetEmpty
<1>2. CASE ResetOccupied(m)
  BY <1>0, <1>2 DEF MapTypeOK, ResetOccupied
<1>3. CASE UNCHANGED mapVars
  BY <1>3 DEF MapTypeOK, mapVars
<1> QED BY <1>1, <1>2, <1>3

(* Handing out an id: it is inside the bitset, and so is the next one. *)
LEMMA GenerateTypes ==
  ASSUME IdTypeOK, InRange(nextId), GenerateInstanceId
  PROVE  IdTypeOK' /\ InRange(nextId)' /\ capacity' >= capacity
<1> DEFINE taken == freeIds \ {nextId}
           higher == {i \in taken : i > nextId}
<1>0. freedIds' = freedIds /\ stopping' = stopping
  BY Zenon DEF GenerateInstanceId
<1>1. \/ /\ nextId' = capacity
         /\ capacity' = capacity + 1
         /\ freeIds' = taken \cup {capacity}
      \/ \E n \in higher :
         /\ nextId' = n
         /\ freeIds' = taken
         /\ capacity' = capacity
  BY Zenon DEF GenerateInstanceId, AdvanceNextId
<1>2. CASE /\ nextId' = capacity
           /\ capacity' = capacity + 1
           /\ freeIds' = taken \cup {capacity}
  BY <1>0, <1>2 DEF IdTypeOK, InRange
<1>3. CASE \E n \in higher :
           /\ nextId' = n
           /\ freeIds' = taken
           /\ capacity' = capacity
  BY <1>0, <1>3 DEF IdTypeOK, InRange
<1> QED BY <1>1, <1>2, <1>3

(* An id inside the bitset stays inside it when the bitset grows. *)
LEMMA RangeGrows ==
  ASSUME NEW old \in Nat, NEW new \in Nat, new >= old
  PROVE  \A id : id \in 0 .. old - 1 => id \in 0 .. new - 1
OBVIOUS

(* A player p whose bind, in memory or about to be loaded, is b enters m:    *)
(* the world outside, its bound instance or, unbound, a new one.             *)
LEMMA AddPlayerKeeps ==
  ASSUME SavesIInv,
         NEW p \in Players, NEW m \in InstanceMaps \cup {0}, NEW b \in InstanceMaps \cup {0},
         AddPlayerToMap(p, m, b),
         bind[p] \in {0, b},
         b # 0 => m \in {0, b},
         Expires(b), InRange(b), InRange(m),
         IdTypeOK', InRange(nextId)', capacity' >= capacity,
         lastInst' = lastInst, now' = now
  PROVE  SavesIInv'
<1> DEFINE bound == IF b = 0 THEN m ELSE b
<1>i. SavesTypeOK /\ BindsMatchSaves /\ EveryBindExpires /\ OfflineIsUnbound /\ SavesAreScheduled /\ IdsAreInRange
  BY DEF SavesIInv
<1>t. /\ saves \in SUBSET InstanceMaps
      /\ playerList \in [InstanceMaps -> SUBSET Players]
      /\ resetAt \in [InstanceMaps -> Nat]
      /\ bind \in [Players -> InstanceMaps \cup {0}]
      /\ dbBind \in [Players -> InstanceMaps \cup {0}]
      /\ lastInst \in [Players -> InstanceMaps \cup {0}]
      /\ events \in SUBSET (Nat \X (0 .. EventIdLimit - 1))
      /\ now \in Nat
      /\ MapTypeOK
  BY <1>i DEF SavesTypeOK
<1>m. m \in Maps /\ bound \in InstanceMaps \cup {0} /\ 0 \notin InstanceMaps /\ NoMap \notin InstanceMaps \cup {0}
  BY MapsOfInstances, NoMapIsNoMap
<1>1. EnterMap(p, m) /\ MapTypeOK'
  BY <1>t, <1>m, EnterMapTypes DEF AddPlayerToMap
<1>2. saves' = saves \cup ({b, m} \ {0})
  BY DEF AddPlayerToMap, Outside
<1>3. /\ events' \in SUBSET (Nat \X (0 .. EventIdLimit - 1))
      /\ resetAt' \in [InstanceMaps -> Nat]
      /\ events \subseteq events'
      /\ \A e \in events' \ events : e[2] = EventId(m) /\ m # 0
      /\ m # 0 /\ m \notin saves \cup {b} => \E e \in events' : e[2] = EventId(m)
  <2>1. CASE m # 0 /\ m \notin saves \cup {b}
    <3>1. AddInstanceSave(m)
      BY <2>1 DEF AddPlayerToMap, Outside
    <3>2. now + ResetDelay \in Nat /\ m \in InstanceMaps /\ EventId(m) \in 0 .. EventIdLimit - 1
      BY <1>t, <2>1, ResetDelayAssumption, IdsAreMaps, EventIdBounds
    <3>3. /\ <<now + ResetDelay, EventId(m)>> \in Nat \X (0 .. EventIdLimit - 1)
          /\ <<now + ResetDelay, EventId(m)>>[2] = EventId(m)
      BY <3>2
    <3>4. resetAt' \in [InstanceMaps -> Nat]
      BY <3>1, <3>2, <1>t DEF AddInstanceSave
    <3> QED BY <3>1, <3>3, <3>4, <2>1, <1>t DEF AddInstanceSave
  <2>2. CASE ~(m # 0 /\ m \notin saves \cup {b})
    <3>1. UNCHANGED <<resetAt, events>>
      BY <2>2 DEF AddPlayerToMap, Outside
    <3> QED BY <3>1, <2>2, <1>t
  <2> QED BY <2>1, <2>2
<1>4. /\ bind' \in [Players -> InstanceMaps \cup {0}]
      /\ dbBind' \in [Players -> InstanceMaps \cup {0}]
      /\ playerList' \in [InstanceMaps -> SUBSET Players]
      /\ bind'[p] = bound
      /\ dbBind'[p] \in {bound, dbBind[p]}
      /\ \A q \in Players \ {p} : bind'[q] = bind[q] /\ dbBind'[q] = dbBind[q]
      /\ \A id \in InstanceMaps : playerList'[id] = playerList[id] \cup (IF id = bound THEN {p} ELSE {})
  <2>1. CASE bound = 0
    <3>1. UNCHANGED <<bind, dbBind, playerList>>
      BY <2>1 DEF AddPlayerToMap, Outside
    <3> QED BY <3>1, <2>1, <1>t, <1>m
  <2>2. CASE bound # 0
    <3>1. BindToInstance(p, bound) /\ bound \in InstanceMaps
      BY <2>2, <1>m DEF AddPlayerToMap, Outside
    <3> HIDE DEF bound
    <3> QED BY <3>1, <1>t DEF BindToInstance
  <2> QED BY <2>1, <2>2
<1>5. /\ i_maps' = i_maps \cup {m}
      /\ \A q \in Players \ {p} : mapOf'[q] = mapOf[q]
      /\ mapOf'[p] = m
  BY <1>1, <1>t DEF EnterMap, MapTypeOK
<1>6. SavesTypeOK'
  BY <1>1, <1>2, <1>3, <1>4, <1>t DEF SavesTypeOK
<1>b. bound # 0 => bound \in saves'
  BY <1>2, <1>m
<1>7. BindsMatchSaves'
  <2> HIDE DEF bound
  <2> SUFFICES ASSUME NEW id \in InstanceMaps, NEW q \in Players
               PROVE  /\ q \in playerList'[id] <=> bind'[q] = id
                      /\ q \in playerList'[id] => id \in saves'
    BY DEF BindsMatchSaves
  <2>0. /\ q \in playerList[id] <=> bind[q] = id
        /\ q \in playerList[id] => id \in saves
    BY <1>i DEF BindsMatchSaves
  <2>1. CASE q # p
    BY <2>0, <2>1, <1>4, <1>2
  <2>2. CASE q = p
    <3>1. bind[p] \in {0, bound}
      BY DEF bound
    <3> QED BY <2>0, <2>2, <3>1, <1>4, <1>2, <1>b, <1>m
  <2> QED BY <2>1, <2>2
<1>e. \A id : Expires(id) => Expires(id)'
  BY <1>3 DEF Expires
<1>s. \A id \in saves' : Expires(id)'
  <2> TAKE id \in saves'
  <2>1. CASE id \in saves \cup {b}
    BY <2>1, <1>i, <1>e DEF SavesAreScheduled
  <2>2. CASE id \notin saves \cup {b}
    <3>1. id = m /\ m # 0 /\ m \in Nat
      BY <2>2, <1>2, IdsAreMaps
    <3>2. m < EventIdLimit => EventId(m) = m
      BY <3>1, EventIdBounds
    <3> QED BY <3>1, <3>2, <2>2, <1>3 DEF Expires
  <2> QED BY <2>1, <2>2
<1>8. EveryBindExpires'
  <2> HIDE DEF bound
  <2>1. \A q \in Players : Expires(bind[q])' \/ bind'[q] # bind[q]
    BY <1>i, <1>e DEF EveryBindExpires, Expires
  <2>2. \A q \in Players : Expires(dbBind[q])' \/ dbBind'[q] # dbBind[q]
    BY <1>i, <1>e DEF EveryBindExpires, Expires
  <2>3. bound # 0 /\ bound < EventIdLimit => \E e \in events' : e[2] = bound
    BY <1>b, <1>s DEF Expires
  <2> QED BY <2>1, <2>2, <2>3, <1>4 DEF EveryBindExpires, Expires
<1>9. OfflineIsUnbound'
  BY <1>i, <1>4, <1>5, <1>m DEF OfflineIsUnbound
<1>10. SavesAreScheduled'
  BY <1>s DEF SavesAreScheduled
<1>11. IdsAreInRange'
  <2>c. capacity \in Nat /\ capacity' \in Nat
    BY <1>i DEF SavesTypeOK, IdTypeOK
  <2>1. \A id : InRange(id) => id \in 0 .. capacity' - 1
    BY <2>c, RangeGrows DEF InRange
  <2>2. \A e \in events' : e[2] \in 0 .. capacity' - 1
    <3>1. InRange(EventId(m))
      BY <2>c, EventIdBounds, IdsAreMaps, EventIdLimitAssumption DEF InRange
    <3> QED BY <3>1, <2>1, <1>i, <1>3 DEF IdsAreInRange
  <2>3. \A id \in i_maps' \cup saves' : id \in 0 .. capacity' - 1
    BY <2>1, <1>i, <1>5, <1>2 DEF IdsAreInRange
  <2>4. \A q \in Players : bind'[q] \in 0 .. capacity' - 1 /\ dbBind'[q] \in 0 .. capacity' - 1
    BY <2>1, <1>i, <1>4 DEF IdsAreInRange
  <2> QED BY <2>2, <2>3, <2>4 DEF IdsAreInRange, InRange
<1> QED BY <1>6, <1>7, <1>8, <1>9, <1>10, <1>11 DEF SavesIInv

(* The four ways into a map: login, and the acknowledgement of a teleport to *)
(* the bound instance, to a new one or to the world outside.                 *)
LEMMA EnteringKeeps ==
  ASSUME SavesIInv, NEW p \in Players,
         LoadFromDB(p) \/ AckBound(p) \/ AckUnbound(p) \/ AckOutside(p)
  PROVE  SavesIInv'
<1>t. /\ IdTypeOK /\ InRange(nextId) /\ capacity >= capacity
      /\ bind[p] \in InstanceMaps \cup {0}
      /\ dbBind[p] \in InstanceMaps \cup {0}
      /\ lastInst[p] \in InstanceMaps \cup {0}
      /\ Expires(bind[p]) /\ Expires(dbBind[p])
      /\ InRange(bind[p]) /\ InRange(dbBind[p])
      /\ \A id \in i_maps : InRange(id)
  BY DEF SavesIInv, SavesTypeOK, IdsAreInRange, IdTypeOK, EveryBindExpires
<1>r. InRange(0) /\ Expires(0)
  BY <1>t DEF InRange, Expires, IdTypeOK
<1>u. UNCHANGED idVars => IdTypeOK' /\ InRange(nextId)' /\ capacity' >= capacity
  BY <1>t DEF idVars, IdTypeOK, InRange
<1>1. CASE LoadFromDB(p)
  <2>1. /\ AddPlayerToMap(p, LoginMap(p), dbBind[p])
        /\ UNCHANGED idVars /\ lastInst' = lastInst /\ now' = now
        /\ mapOf[p] = NoMap
    BY <1>1 DEF LoadFromDB
  <2>2. bind[p] = 0
    BY <2>1 DEF SavesIInv, OfflineIsUnbound
  <2>3. /\ LoginMap(p) \in InstanceMaps \cup {0}
        /\ dbBind[p] # 0 => LoginMap(p) \in {0, dbBind[p]}
        /\ InRange(LoginMap(p))
    BY <1>t, <1>r DEF LoginMap, Outside
  <2> QED BY <2>1, <2>2, <2>3, <1>t, <1>u, AddPlayerKeeps
<1>2. CASE AckBound(p)
  <2>1. /\ AddPlayerToMap(p, bind[p], bind[p])
        /\ UNCHANGED idVars /\ lastInst' = lastInst /\ now' = now
    BY <1>2 DEF AckBound
  <2> QED BY <2>1, <1>t, <1>r, <1>u, AddPlayerKeeps
<1>3. CASE AckUnbound(p)
  <2>1. /\ AddPlayerToMap(p, nextId, 0)
        /\ nextId \in InstanceMaps
        /\ bind[p] = 0
        /\ GenerateInstanceId
        /\ lastInst' = lastInst /\ now' = now
    BY <1>3 DEF AckUnbound
  <2>2. IdTypeOK' /\ InRange(nextId)' /\ capacity' >= capacity
    BY <2>1, <1>t, GenerateTypes
  <2> QED BY <2>1, <2>2, <1>t, <1>r, AddPlayerKeeps
<1>4. CASE AckOutside(p)
  <2>1. /\ AddPlayerToMap(p, 0, bind[p])
        /\ UNCHANGED idVars /\ lastInst' = lastInst /\ now' = now
    BY <1>4 DEF AckOutside, Outside
  <2> QED BY <2>1, <1>t, <1>r, <1>u, AddPlayerKeeps
<1> QED BY <1>1, <1>2, <1>3, <1>4

(* Steps that leave the saves, the binds and their events alone: a refused   *)
(* acknowledgement, a teleport, a map update and the clock.                  *)
LEMMA SavesUntouched ==
  ASSUME SavesIInv, UNCHANGED saveVars, now' \in Nat,
         MapTypeOK', IdTypeOK', InRange(nextId)', capacity' >= capacity,
         mapOf' = mapOf, \A id \in i_maps' \ i_maps : InRange(id)
  PROVE  SavesIInv'
<1>v. /\ saves' = saves /\ playerList' = playerList /\ resetAt' = resetAt /\ bind' = bind
      /\ dbBind' = dbBind /\ lastInst' = lastInst /\ events' = events
  BY DEF saveVars
<1>1. SavesTypeOK'
  BY <1>v DEF SavesIInv, SavesTypeOK
<1>2. BindsMatchSaves' /\ EveryBindExpires' /\ OfflineIsUnbound' /\ SavesAreScheduled'
  BY <1>v DEF SavesIInv, BindsMatchSaves, EveryBindExpires, OfflineIsUnbound, SavesAreScheduled, Expires
<1>3. IdsAreInRange'
  <2>1. capacity \in Nat /\ capacity' \in Nat
    BY DEF SavesIInv, SavesTypeOK, IdTypeOK
  <2>2. \A id : InRange(id) => id \in 0 .. capacity' - 1
    BY <2>1, RangeGrows DEF InRange
  <2>3. IdsAreInRange
    BY DEF SavesIInv
  <2>4. \A e \in events' : e[2] \in 0 .. capacity' - 1
    BY <2>2, <2>3, <1>v DEF IdsAreInRange
  <2>5. \A id \in i_maps' \cup saves' : id \in 0 .. capacity' - 1
    BY <2>2, <2>3, <1>v DEF IdsAreInRange
  <2>6. \A p \in Players : bind'[p] \in 0 .. capacity' - 1 /\ dbBind'[p] \in 0 .. capacity' - 1
    BY <2>2, <2>3, <1>v DEF IdsAreInRange
  <2> QED BY <2>4, <2>5, <2>6 DEF IdsAreInRange, InRange
<1> QED BY <1>1, <1>2, <1>3 DEF SavesIInv

(* The steps of the maps and of time change no bind and no save. *)
LEMMA MapStepsKeep ==
  ASSUME SavesIInv,
         \/ \E p \in Players : AckRefused(p) \/ TeleportAway(p)
         \/ \E m \in InstanceMaps : UpdateMap(m)
         \/ Tick
  PROVE  SavesIInv'
<1>t. MapTypeOK /\ IdTypeOK /\ InRange(nextId) /\ now \in Nat /\ capacity \in Nat
  BY DEF SavesIInv, SavesTypeOK, IdsAreInRange, IdTypeOK
<1>u. UNCHANGED idVars => IdTypeOK' /\ InRange(nextId)' /\ capacity' >= capacity
  BY <1>t DEF idVars, IdTypeOK, InRange
<1>1. ASSUME NEW p \in Players, AckRefused(p) PROVE SavesIInv'
  <2>1. /\ GenerateInstanceId /\ nextId \in InstanceMaps
        /\ HandleMoveWorldportAckFails(p, nextId)
        /\ UNCHANGED saveVars /\ now' = now
    BY <1>1 DEF AckRefused
  <2>2. IdTypeOK' /\ InRange(nextId)' /\ capacity' >= capacity
    BY <2>1, <1>t, GenerateTypes
  <2>3. MapTypeOK'
    BY <2>1, <1>t, CreatedMapTypes, MapsOfInstances
  <2>4. mapOf' = mapOf /\ i_maps' = i_maps \cup {nextId}
    BY <2>1 DEF HandleMoveWorldportAckFails
  <2> QED BY <2>1, <2>2, <2>3, <2>4, <1>t, SavesUntouched
<1>2. ASSUME NEW p \in Players, TeleportAway(p) PROVE SavesIInv'
  <2>1. TeleportTo(p) /\ UNCHANGED idVars /\ UNCHANGED saveVars /\ now' = now
    BY <1>2 DEF TeleportAway
  <2>2. MapTypeOK' /\ mapOf' = mapOf /\ i_maps' = i_maps
    BY <2>1, <1>t, LeavingTimerTypes DEF TeleportTo, MapTypeOK
  <2> QED BY <2>1, <2>2, <1>t, <1>u, SavesUntouched
<1>3. ASSUME NEW m \in InstanceMaps, UpdateMap(m) PROVE SavesIInv'
  <2>1. UNCHANGED idVars /\ UNCHANGED saveVars /\ now' = now /\ m \in Maps
    BY <1>3 DEF UpdateMap, Maps
  <2>2. MapTypeOK' /\ mapOf' = mapOf /\ i_maps' \subseteq i_maps
    <3>1. CASE DestroyMap(m)
      BY <2>1, <3>1, <1>t DEF DestroyMap, MapTypeOK
    <3>2. CASE DestroyMapRefused(m)
      BY <3>2, <1>t DEF DestroyMapRefused, MapTypeOK
    <3>3. CASE /\ unloadTimer' = CountedDown(m)
               /\ UNCHANGED <<i_maps, mapOf, inWorld, unloadWhenEmpty>>
      BY <2>1, <3>3, <1>t DEF CountedDown, MapTypeOK
    <3> QED BY <1>3, <3>1, <3>2, <3>3 DEF UpdateMap
  <2> QED BY <2>1, <2>2, <1>t, <1>u, SavesUntouched
<1>4. CASE Tick
  <2>1. UNCHANGED mapVars /\ UNCHANGED idVars /\ UNCHANGED saveVars /\ now' = now + 1
    BY <1>4 DEF Tick
  <2>2. MapTypeOK' /\ mapOf' = mapOf /\ i_maps' = i_maps
    BY <2>1, <1>t DEF mapVars, MapTypeOK
  <2> QED BY <2>1, <2>2, <1>t, <1>u, SavesUntouched
<1> QED BY <1>1, <1>2, <1>3, <1>4

(* A logout drops the player's bind and unloads only saves whose list has    *)
(* become empty.                                                             *)
LEMMA LogoutKeeps ==
  ASSUME SavesIInv, NEW p \in Players, Logout(p)
  PROVE  SavesIInv'
<1> DEFINE m == mapOf[p]
           list == [id \in InstanceMaps |-> playerList[id] \ {p}]
<1>i. SavesTypeOK /\ BindsMatchSaves /\ EveryBindExpires /\ OfflineIsUnbound /\ SavesAreScheduled /\ IdsAreInRange
  BY DEF SavesIInv
<1>t. /\ saves \in SUBSET InstanceMaps
      /\ playerList \in [InstanceMaps -> SUBSET Players]
      /\ resetAt \in [InstanceMaps -> Nat]
      /\ bind \in [Players -> InstanceMaps \cup {0}]
      /\ dbBind \in [Players -> InstanceMaps \cup {0}]
      /\ lastInst \in [Players -> InstanceMaps \cup {0}]
      /\ events \in SUBSET (Nat \X (0 .. EventIdLimit - 1))
      /\ now \in Nat
      /\ MapTypeOK /\ IdTypeOK
  BY <1>i DEF SavesTypeOK
<1>1. /\ LogoutPlayer(p)
      /\ playerList' = list
      /\ bind' = [bind EXCEPT ![p] = 0]
      /\ lastInst' = [lastInst EXCEPT ![p] = m]
      /\ UNCHANGED idVars /\ resetAt' = resetAt /\ dbBind' = dbBind /\ now' = now
  BY DEF Logout
<1>2. m \in InstanceMaps \cup {0}
  BY <1>1, <1>t, MapsOfInstances DEF LogoutPlayer, MapTypeOK
<1>3. /\ saves' \subseteq saves
      /\ \A id \in saves \ saves' : list[id] = {}
  BY <1>t DEF Logout
<1>4. events' = events \/ (m \in saves /\ events' = events \cup {<<resetAt[m], EventId(m)>>})
  BY DEF Logout
<1>5. /\ events' \in SUBSET (Nat \X (0 .. EventIdLimit - 1))
      /\ events \subseteq events'
      /\ \A e \in events' : InRange(e[2])
  <2>1. CASE events' = events
    BY <2>1, <1>t, <1>i DEF IdsAreInRange
  <2>2. CASE m \in saves /\ events' = events \cup {<<resetAt[m], EventId(m)>>}
    <3> HIDE DEF m
    <3>0. EventId(m) \in 0 .. EventIdLimit - 1 /\ EventId(m) <= m /\ m \in Nat
      BY <2>2, <1>t, IdsAreMaps, EventIdBounds
    <3>1. /\ <<resetAt[m], EventId(m)>> \in Nat \X (0 .. EventIdLimit - 1)
          /\ <<resetAt[m], EventId(m)>>[2] = EventId(m)
      BY <2>2, <3>0, <1>t
    <3>2. InRange(EventId(m))
      BY <2>2, <3>0, <1>i, <1>t, EventIdLimitAssumption DEF IdsAreInRange, InRange, IdTypeOK
    <3> QED BY <3>1, <3>2, <2>2, <1>t, <1>i DEF IdsAreInRange
  <2> QED BY <2>1, <2>2, <1>4
<1>6. MapTypeOK' /\ i_maps' = i_maps /\ mapOf' = [mapOf EXCEPT ![p] = NoMap]
  BY <1>1, <1>t, LeavingTimerTypes DEF LogoutPlayer, MapTypeOK
<1>7. IdTypeOK' /\ InRange(nextId)' /\ capacity' = capacity
  BY <1>1, <1>t, <1>i DEF idVars, IdTypeOK, IdsAreInRange, InRange
<1>l. /\ list \in [InstanceMaps -> SUBSET Players]
      /\ \A id \in InstanceMaps : list[id] = playerList[id] \ {p}
  BY <1>t
<1> HIDE DEF m, list
<1>8. SavesTypeOK'
  BY <1>1, <1>2, <1>3, <1>5, <1>6, <1>7, <1>t, <1>l DEF SavesTypeOK
<1>9. BindsMatchSaves'
  BY <1>1, <1>3, <1>i, <1>t, <1>l, MapsOfInstances DEF BindsMatchSaves
<1>10. EveryBindExpires'
  BY <1>1, <1>5, <1>i, <1>t DEF EveryBindExpires, Expires
<1>11. OfflineIsUnbound'
  BY <1>1, <1>6, <1>i, <1>t DEF OfflineIsUnbound, MapTypeOK
<1>12. SavesAreScheduled'
  BY <1>3, <1>5, <1>i DEF SavesAreScheduled, Expires
<1>13. IdsAreInRange'
  <2>1. \A q \in Players : InRange(bind'[q]) /\ InRange(dbBind'[q])
    BY <1>1, <1>7, <1>i, <1>t DEF IdsAreInRange, InRange, IdTypeOK
  <2> QED BY <2>1, <1>3, <1>5, <1>6, <1>7, <1>i DEF IdsAreInRange, InRange
<1> QED BY <1>8, <1>9, <1>10, <1>11, <1>12, <1>13 DEF SavesIInv

(* A kill pushes out the reset time only. *)
LEMMA KillKeeps ==
  ASSUME SavesIInv, NEW p \in Players, KillCreature(p)
  PROVE  SavesIInv'
<1>i. SavesTypeOK /\ BindsMatchSaves /\ EveryBindExpires /\ OfflineIsUnbound /\ SavesAreScheduled /\ IdsAreInRange
  BY DEF SavesIInv
<1>1. /\ UNCHANGED mapVars /\ UNCHANGED idVars
      /\ saves' = saves /\ playerList' = playerList /\ bind' = bind
      /\ dbBind' = dbBind /\ lastInst' = lastInst /\ events' = events /\ now' = now
  BY DEF KillCreature
<1>2. resetAt' \in [InstanceMaps -> Nat]
  BY <1>i, ResetDelayAssumption DEF KillCreature, SavesTypeOK
<1>3. MapTypeOK' /\ IdTypeOK' /\ mapOf' = mapOf /\ i_maps' = i_maps /\ nextId' = nextId /\ capacity' = capacity
  BY <1>1, <1>i DEF SavesTypeOK, mapVars, idVars, MapTypeOK, IdTypeOK
<1>4. SavesTypeOK'
  BY <1>1, <1>2, <1>3, <1>i DEF SavesTypeOK
<1>5. BindsMatchSaves' /\ EveryBindExpires' /\ OfflineIsUnbound' /\ SavesAreScheduled'
  BY <1>1, <1>3, <1>i DEF BindsMatchSaves, EveryBindExpires, OfflineIsUnbound, SavesAreScheduled, Expires
<1>6. IdsAreInRange'
  BY <1>1, <1>3, <1>i DEF IdsAreInRange, InRange
<1> QED BY <1>4, <1>5, <1>6 DEF SavesIInv

(* A player resetting its instances loses the bind, and the save goes with   *)
(* its last player.                                                          *)
LEMMA ResetInstancesKeeps ==
  ASSUME SavesIInv, NEW p \in Players, ResetInstances(p)
  PROVE  SavesIInv'
<1> DEFINE id == bind[p]
<1>i. SavesTypeOK /\ BindsMatchSaves /\ EveryBindExpires /\ OfflineIsUnbound /\ SavesAreScheduled /\ IdsAreInRange
  BY DEF SavesIInv
<1>t. /\ saves \in SUBSET InstanceMaps
      /\ playerList \in [InstanceMaps -> SUBSET Players]
      /\ bind \in [Players -> InstanceMaps \cup {0}]
      /\ dbBind \in [Players -> InstanceMaps \cup {0}]
      /\ MapTypeOK /\ IdTypeOK
  BY <1>i DEF SavesTypeOK
<1>1. /\ id \in InstanceMaps
      /\ ResetEmpty(id) \/ UNCHANGED mapVars
      /\ dbBind' = [q \in Players |-> IF dbBind[q] = id THEN 0 ELSE dbBind[q]]
      /\ bind' = [bind EXCEPT ![p] = 0]
      /\ playerList' = [playerList EXCEPT ![id] = playerList[id] \ {p}]
      /\ saves' = saves \/ (playerList[id] = {p} /\ saves' = saves \ {id})
      /\ UNCHANGED idVars /\ resetAt' = resetAt /\ lastInst' = lastInst /\ events' = events /\ now' = now
  BY <1>t DEF ResetInstances
<1>2. MapTypeOK' /\ i_maps' = i_maps /\ mapOf' = mapOf
  BY <1>1, <1>t, ResetMapTypes
<1>3. IdTypeOK' /\ nextId' = nextId /\ capacity' = capacity
  BY <1>1, <1>t DEF idVars, IdTypeOK
<1>4. SavesTypeOK'
  <2>1. dbBind' \in [Players -> InstanceMaps \cup {0}]
    BY <1>1, <1>t
  <2>2. bind' \in [Players -> InstanceMaps \cup {0}] /\ playerList' \in [InstanceMaps -> SUBSET Players]
    BY <1>1, <1>t
  <2>3. saves' \in SUBSET InstanceMaps
    BY <1>1, <1>t
  <2> QED BY <2>1, <2>2, <2>3, <1>1, <1>2, <1>3, <1>i DEF SavesTypeOK
<1>5. BindsMatchSaves'
  BY <1>1, <1>t, <1>i, MapsOfInstances DEF BindsMatchSaves
<1>6. EveryBindExpires'
  BY <1>1, <1>t, <1>i DEF EveryBindExpires, Expires
<1>7. OfflineIsUnbound' /\ SavesAreScheduled'
  BY <1>1, <1>2, <1>t, <1>i DEF OfflineIsUnbound, SavesAreScheduled, Expires
<1>8. IdsAreInRange'
  <2>1. \A q \in Players : InRange(bind'[q]) /\ InRange(dbBind'[q])
    BY <1>1, <1>i, <1>t DEF IdsAreInRange, InRange, IdTypeOK
  <2> QED BY <2>1, <1>1, <1>2, <1>3, <1>i DEF IdsAreInRange, InRange
<1> QED BY <1>4, <1>5, <1>6, <1>7, <1>8 DEF SavesIInv

(* A reset that comes due takes the save, every bind to it and its event     *)
(* away together, and gives the id back.                                     *)
LEMMA ResetInstanceKeeps ==
  ASSUME SavesIInv, NEW e \in events, ResetInstance(e)
  PROVE  SavesIInv'
<1> DEFINE id == e[2]
<1>i. SavesTypeOK /\ BindsMatchSaves /\ EveryBindExpires /\ OfflineIsUnbound /\ SavesAreScheduled /\ IdsAreInRange
  BY DEF SavesIInv
<1>t. /\ saves \in SUBSET InstanceMaps
      /\ playerList \in [InstanceMaps -> SUBSET Players]
      /\ bind \in [Players -> InstanceMaps \cup {0}]
      /\ dbBind \in [Players -> InstanceMaps \cup {0}]
      /\ events \in SUBSET (Nat \X (0 .. EventIdLimit - 1))
      /\ MapTypeOK /\ IdTypeOK
  BY <1>i DEF SavesTypeOK
<1>0. id \in Nat /\ InRange(id)
  BY <1>t, <1>i, EventIdLimitAssumption DEF IdsAreInRange
<1>1. /\ id \in saves => ResetSave(id)
      /\ id \notin saves => UNCHANGED <<bind, playerList, saves>>
      /\ dbBind' = [p \in Players |-> IF dbBind[p] = id THEN 0 ELSE dbBind[p]]
      /\ (id \in InstanceMaps /\ (ResetEmpty(id) \/ ResetOccupied(id))) \/ UNCHANGED mapVars
      /\ FreeInstanceId(id)
      /\ events' = events \ {e}
      /\ resetAt' = resetAt /\ lastInst' = lastInst /\ now' = now
  BY DEF ResetInstance, ResetEmpty, ResetOccupied
<1> HIDE DEF id
<1>2. MapTypeOK' /\ i_maps' = i_maps /\ mapOf' = mapOf
  BY <1>1, <1>t, ResetMapTypes DEF MapTypeOK, mapVars
<1>3. IdTypeOK' /\ InRange(nextId)' /\ capacity' = capacity
  <2>1. stopping' = stopping /\ capacity' = capacity
    BY <1>1 DEF FreeInstanceId
  <2>2. InRange(nextId)
    BY <1>i DEF IdsAreInRange
  <2> QED BY <2>1, <2>2, <1>0, <1>1, <1>t DEF FreeInstanceId, IdTypeOK, InRange
<1>4. /\ bind' = [p \in Players |-> IF bind[p] = id THEN 0 ELSE bind[p]]
      /\ playerList' = [playerList EXCEPT ![id] = {}]
      /\ saves' = saves \ {id}
  <2>1. id \in InstanceMaps =>
          \A p \in Players : /\ p \in playerList[id] <=> bind[p] = id
                             /\ p \in playerList[id] => id \in saves
    BY <1>i DEF BindsMatchSaves
  <2>2. CASE id \in saves
    BY <2>1, <2>2, <1>1, <1>t DEF ResetSave
  <2>3. CASE id \notin saves
    <3>1. /\ id \in InstanceMaps => playerList[id] = {}
          /\ \A p \in Players : bind[p] = id => id = 0
      BY <2>1, <2>3, <1>t
    <3>2. bind = [p \in Players |-> IF bind[p] = id THEN 0 ELSE bind[p]]
      BY <3>1, <1>t
    <3>3. playerList = [playerList EXCEPT ![id] = {}]
      BY <3>1, <1>t
    <3>4. saves = saves \ {id}
      BY <2>3
    <3> QED BY <1>1, <2>3, <3>2, <3>3, <3>4
  <2> QED BY <2>2, <2>3
<1>5. SavesTypeOK'
  <2>1. dbBind' \in [Players -> InstanceMaps \cup {0}] /\ bind' \in [Players -> InstanceMaps \cup {0}]
    BY <1>1, <1>4, <1>t
  <2>2. playerList' \in [InstanceMaps -> SUBSET Players] /\ saves' \in SUBSET InstanceMaps
    BY <1>4, <1>t
  <2>3. events' \in SUBSET (Nat \X (0 .. EventIdLimit - 1))
    BY <1>1, <1>t
  <2> QED BY <2>1, <2>2, <2>3, <1>1, <1>2, <1>3, <1>i DEF SavesTypeOK
<1>6. BindsMatchSaves'
  BY <1>0, <1>4, <1>t, <1>i, MapsOfInstances DEF BindsMatchSaves
<1>7. EveryBindExpires'
  <2>1. \A x : x # id /\ (\E f \in events : f[2] = x) => \E f \in events' : f[2] = x
    BY <1>1 DEF id
  <2>2. \A p \in Players : dbBind'[p] # 0 => dbBind'[p] = dbBind[p] /\ dbBind[p] # id
    BY <1>1
  <2>3. \A p \in Players : bind'[p] # 0 => bind'[p] = bind[p] /\ bind[p] # id
    BY <1>4
  <2> QED BY <2>1, <2>2, <2>3, <1>i DEF EveryBindExpires, Expires
<1>8. SavesAreScheduled'
  BY <1>1, <1>4, <1>i DEF SavesAreScheduled, Expires, id
<1>9. OfflineIsUnbound'
  BY <1>2, <1>4, <1>i DEF OfflineIsUnbound
<1>10. IdsAreInRange'
  <2>1. \A p \in Players : InRange(bind'[p]) /\ InRange(dbBind'[p])
    BY <1>1, <1>4, <1>i, <1>t DEF IdsAreInRange, InRange, IdTypeOK
  <2> QED BY <2>1, <1>1, <1>2, <1>3, <1>4, <1>i DEF IdsAreInRange, InRange
<1> QED BY <1>5, <1>6, <1>7, <1>8, <1>9, <1>10 DEF SavesIInv

(* Nobody online and no save. *)
LEMMA SavesInitially == InstInit => SavesIInv
<1> SUFFICES ASSUME InstInit PROVE SavesIInv
  OBVIOUS
<1>1. stopping \in BOOLEAN
  BY Zenon DEF InstInit
<1>2. IdTypeOK /\ InRange(nextId) /\ i_maps = {}
  BY <1>1, RaidIdAssumption DEF InstInit, IdTypeOK, InRange, MapInit
<1>3. MapTypeOK
  BY DEF InstInit, MapInit, MapTypeOK
<1>4. SavesTypeOK
  BY <1>2, <1>3 DEF InstInit, SavesTypeOK
<1>5. BindsMatchSaves /\ EveryBindExpires /\ OfflineIsUnbound /\ SavesAreScheduled
  BY MapsOfInstances DEF InstInit, BindsMatchSaves, EveryBindExpires, Expires, OfflineIsUnbound, SavesAreScheduled
<1>6. IdsAreInRange
  BY <1>2 DEF InstInit, IdsAreInRange, InRange, IdTypeOK
<1> QED BY <1>4, <1>5, <1>6 DEF SavesIInv

(* Every step keeps the invariant. *)
LEMMA SavesStep == SavesIInv /\ [InstNext]_instVars => SavesIInv'
<1> SUFFICES ASSUME SavesIInv, [InstNext]_instVars PROVE SavesIInv'
  OBVIOUS
<1>1. CASE UNCHANGED instVars
  <2>1. UNCHANGED mapVars /\ UNCHANGED idVars /\ UNCHANGED saveVars /\ now' = now
    BY <1>1 DEF instVars
  <2>2. MapTypeOK /\ IdTypeOK /\ InRange(nextId) /\ now \in Nat /\ capacity \in Nat
    BY DEF SavesIInv, SavesTypeOK, IdsAreInRange, IdTypeOK
  <2>3. MapTypeOK' /\ mapOf' = mapOf /\ i_maps' = i_maps
    BY <2>1, <2>2 DEF mapVars, MapTypeOK
  <2>4. IdTypeOK' /\ InRange(nextId)' /\ capacity' >= capacity
    BY <2>1, <2>2 DEF idVars, IdTypeOK, InRange
  <2> QED BY <2>1, <2>2, <2>3, <2>4, SavesUntouched
<1>2. CASE InstNext
  BY <1>2, EnteringKeeps, MapStepsKeep, LogoutKeeps, KillKeeps, ResetInstancesKeeps, ResetInstanceKeeps
  DEF InstNext
<1> QED BY <1>1, <1>2

(* The invariant of the instance saves holds for ever. *)
LEMMA SavesInvariant == InstSpec => []SavesIInv
  BY SavesInitially, SavesStep, PTL DEF InstSpec

(* Every id in memory and in the tables is an instance's, an event's fits in *)
(* its field, and every player is linked to an existing kind of map.         *)
THEOREM SavesTypeCorrect == InstSpec => []SavesTypeOK
<1>1. SavesIInv => SavesTypeOK
  BY DEF SavesIInv
<1> QED BY <1>1, SavesInvariant, PTL

(* Whoever logs in or out, resets or is reset, the bind a player holds and   *)
(* the player list of the save name each other, and the save exists: the     *)
(* pointer in Player::m_boundInstances never dangles.                        *)
THEOREM BindsNeverDangle == InstSpec => []BindsMatchSaves
<1>1. SavesIInv => BindsMatchSaves
  BY DEF SavesIInv
<1> QED BY <1>1, SavesInvariant, PTL

(* As long as anybody is bound to an instance, online or in the table        *)
(* character_instance, a reset of it is scheduled in m_resetTimeQueue, if    *)
(* the id is one that an InstResetEvent can keep, whatever instances with    *)
(* larger ids come and go.                                                   *)
THEOREM BindsExpire == InstSpec => []EveryBindExpires
<1>1. SavesIInv => EveryBindExpires
  BY DEF SavesIInv
<1> QED BY <1>1, SavesInvariant, PTL

(* A player that comes into a dungeon is bound to that very instance once it *)
(* is in: the ASSERT of InstanceMap::AddPlayerToMap cannot fail.             *)
THEOREM PlayersEnterTheirOwnInstance == InstSpec => EntersItsOwnInstance
<1> DEFINE Own == \A p \in Players :
             (mapOf'[p] # mapOf[p] /\ mapOf'[p] \in InstanceMaps) => bind'[p] = mapOf'[p]
<1>1. ASSUME SavesIInv, InstNext PROVE Own
  <2>t. /\ mapOf \in [Players -> Maps \cup {NoMap}]
        /\ bind \in [Players -> InstanceMaps \cup {0}]
        /\ 0 \notin InstanceMaps /\ NoMap \notin InstanceMaps
    BY <1>1, MapsOfInstances, NoMapIsNoMap DEF SavesIInv, SavesTypeOK, MapTypeOK
  <2>1. ASSUME NEW p \in Players, NEW m, NEW b, AddPlayerToMap(p, m, b), b # 0 => m \in {0, b}
        PROVE  Own
    <3>1. mapOf' = [mapOf EXCEPT ![p] = m]
      BY <2>1 DEF AddPlayerToMap, EnterMap
    <3>2. m \in InstanceMaps => bind'[p] = m
      BY <2>1, <2>t DEF AddPlayerToMap, BindToInstance, Outside
    <3> QED BY <3>1, <3>2, <2>t
  <2>2. ASSUME mapOf' = mapOf PROVE Own
    BY <2>2
  <2>3. ASSUME NEW p \in Players, LoadFromDB(p) PROVE Own
    <3>1. AddPlayerToMap(p, LoginMap(p), dbBind[p])
      BY <2>3 DEF LoadFromDB
    <3>2. dbBind[p] # 0 => LoginMap(p) \in {0, dbBind[p]}
      BY DEF LoginMap, Outside
    <3> QED BY <2>1, <3>1, <3>2
  <2>4. ASSUME NEW p \in Players, AckBound(p) \/ AckUnbound(p) \/ AckOutside(p) PROVE Own
    <3>1. CASE AckBound(p)
      BY <2>1, <3>1 DEF AckBound
    <3>2. CASE AckUnbound(p)
      BY <2>1, <3>2 DEF AckUnbound
    <3>3. CASE AckOutside(p)
      BY <2>1, <3>3 DEF AckOutside, Outside
    <3> QED BY <2>4, <3>1, <3>2, <3>3
  <2>5. ASSUME NEW p \in Players, Logout(p) PROVE Own
    <3>1. mapOf' = [mapOf EXCEPT ![p] = NoMap]
      BY <2>5 DEF Logout, LogoutPlayer
    <3> QED BY <3>1, <2>t
  <2>6. ASSUME NEW p \in Players, AckRefused(p) \/ TeleportAway(p) \/ KillCreature(p) \/ ResetInstances(p)
        PROVE  mapOf' = mapOf
    BY <2>6 DEF AckRefused, HandleMoveWorldportAckFails, TeleportAway, TeleportTo, KillCreature,
       ResetInstances, ResetEmpty, mapVars
  <2>7. ASSUME NEW e \in events, ResetInstance(e) PROVE mapOf' = mapOf
    BY <2>7 DEF ResetInstance, ResetEmpty, ResetOccupied, mapVars
  <2>8. ASSUME NEW m \in InstanceMaps, UpdateMap(m) PROVE mapOf' = mapOf
    BY <2>8 DEF UpdateMap, DestroyMap, DestroyMapRefused
  <2>9. ASSUME Tick PROVE mapOf' = mapOf
    BY <2>9 DEF Tick, mapVars
  <2> HIDE DEF Own
  <2> QED BY <1>1, <2>2, <2>3, <2>4, <2>5, <2>6, <2>7, <2>8, <2>9 DEF InstNext
<1>2. SavesIInv /\ [InstNext]_instVars =>
        [ \A p \in Players :
            (mapOf'[p] # mapOf[p] /\ mapOf'[p] \in InstanceMaps) => bind'[p] = mapOf'[p] ]_instVars
  BY <1>1
<1> QED BY <1>2, SavesInvariant, PTL DEF InstSpec, EntersItsOwnInstance
=============================================================================
