----------------------------- MODULE InstanceIds -----------------------------
(***************************************************************************)
(* The allocator of instance ids in src/server/game/Maps/MapManager.cpp     *)
(* (InitInstanceIds ... FreeInstanceId): a growing bitset of free ids and   *)
(* _nextInstanceId, the id the next new instance gets.                      *)
(***************************************************************************)
EXTENDS Naturals

CONSTANT MaxInstanceId    \* 0xFFFFFFFF in the code

ASSUME MaxInstanceIdAssumption == MaxInstanceId \in Nat \ {0}

VARIABLES freeIds,        \* the set bits of _freeInstanceIds
          capacity,       \* its size
          nextId,         \* _nextInstanceId
          freedIds,       \* the set bits of _freedInstanceIds
          stopping        \* World::StopNow after an id overflow

idVars == <<freeIds, capacity, nextId, freedIds, stopping>>

IdTypeOK ==
  /\ capacity \in Nat
  /\ freeIds \in SUBSET (0 .. capacity - 1)
  /\ nextId \in Nat
  /\ freedIds \in SUBSET Nat
  /\ stopping \in BOOLEAN

(* InitInstanceIds: room for one id above the highest one in the database,   *)
(* and id 0 is never handed out.                                             *)
InitInstanceIds(highest) ==
  /\ freeIds = 1 .. highest + 1
  /\ capacity = highest + 2
  /\ nextId = 1
  /\ freedIds = {}
  /\ stopping = FALSE

(* The next id is not advanced past a registered one: a plausible slip. *)
RegisterInstanceIdOnly(id) ==
  /\ freeIds' = freeIds \ {id}
  /\ UNCHANGED <<capacity, nextId, freedIds, stopping>>

RegisterInstanceId(id) ==
  /\ freeIds' = freeIds \ {id}
  /\ nextId' = IF nextId = id THEN nextId + 1 ELSE nextId
  /\ UNCHANGED <<capacity, freedIds, stopping>>

(* The new bit is set past the end of the bitset: a plausible slip. *)
AdvanceNextIdWithoutGrowing(taken) ==
  LET higher == {i \in taken : i > nextId} IN
  \/ /\ higher = {}
     /\ nextId' = capacity
     /\ freeIds' = taken \cup {capacity}
     /\ UNCHANGED capacity
  \/ \E n \in higher :
     /\ \A i \in higher : n <= i
     /\ nextId' = n
     /\ freeIds' = taken
     /\ UNCHANGED capacity

(* _freeInstanceIds->find_next: the lowest set bit above the id just taken,  *)
(* or one new bit when there is none.                                        *)
AdvanceNextId(taken) ==
  LET higher == {i \in taken : i > nextId} IN
  \/ /\ higher = {}
     /\ nextId' = capacity
     /\ capacity' = capacity + 1
     /\ freeIds' = taken \cup {capacity}
  \/ \E n \in higher :
     /\ \A i \in higher : n <= i
     /\ nextId' = n
     /\ freeIds' = taken
     /\ UNCHANGED capacity

(* The id handed out stays free: a plausible slip. *)
GenerateInstanceIdUnmarked ==
  /\ nextId # MaxInstanceId
  /\ AdvanceNextId(freeIds)
  /\ UNCHANGED <<freedIds, stopping>>

(* Hands out nextId. *)
GenerateInstanceId ==
  /\ nextId # MaxInstanceId
  /\ AdvanceNextId(freeIds \ {nextId})
  /\ UNCHANGED <<freedIds, stopping>>

(* The overflow branch: the server is told to stop, nothing is marked.  The  *)
(* id returned, MaxInstanceId itself, is not followed further.               *)
GenerateInstanceIdOverflows ==
  /\ nextId = MaxInstanceId
  /\ stopping' = TRUE
  /\ UNCHANGED <<freeIds, capacity, nextId, freedIds>>

(* The freed id is remembered but stays taken: a plausible slip. *)
FreeInstanceIdKeepsBit(id) ==
  /\ nextId' = IF id < nextId THEN id ELSE nextId
  /\ freedIds' = freedIds \cup {id}
  /\ UNCHANGED <<freeIds, capacity, stopping>>

(* The freed id is not remembered: a plausible slip. *)
FreeInstanceIdForgets(id) ==
  /\ nextId' = IF id < nextId THEN id ELSE nextId
  /\ freeIds' = freeIds \cup {id}
  /\ UNCHANGED <<capacity, freedIds, stopping>>

FreeInstanceId(id) ==
  /\ nextId' = IF id < nextId THEN id ELSE nextId
  /\ freeIds' = freeIds \cup {id}
  /\ freedIds' = freedIds \cup {id}
  /\ UNCHANGED <<capacity, stopping>>

-----------------------------------------------------------------------------
(* Properties. *)

(* "Find the lowest available id starting from the current NextInstanceId    *)
(* (which should be the lowest according to the logic in FreeInstanceId()":  *)
(* the next id is free, inside the bitset, and no lower id is free.          *)
NextIdIsLowestFree ==
  /\ nextId \in freeIds
  /\ nextId < capacity
  /\ \A i \in freeIds : nextId <= i /\ i < capacity
=============================================================================
