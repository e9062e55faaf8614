------------------------- MODULE InstanceIdAllocation -------------------------
(***************************************************************************)
(* The instance id allocator with the calls the server makes: at startup    *)
(* the ids of the instance table are registered in ascending order, then    *)
(* new instances and battlegrounds take ids and give them back.             *)
(* Sources: MapManager.cpp, InstanceSaveMgr.cpp (LoadResetTimes).           *)
(***************************************************************************)
EXTENDS InstanceIds

CONSTANT HighestDbId      \* SELECT IFNULL(MAX(id), 0) FROM instance

ASSUME HighestDbIdAssumption == HighestDbId \in Nat

VARIABLES loading,        \* ids of the instance table still to be registered
          live,           \* ids in use: registered or handed out, not freed
          used            \* ids ever registered or handed out in this process

allocVars == <<idVars, loading, live, used>>

AllocTypeOK ==
  /\ IdTypeOK /\ 0 \notin freeIds
  /\ loading \in SUBSET (1 .. HighestDbId)
  /\ live \in SUBSET (1 .. capacity - 1)
  /\ used \in SUBSET (1 .. capacity - 1)

AllocInit ==
  /\ InitInstanceIds(HighestDbId)
  /\ loading \in SUBSET (1 .. HighestDbId)
  /\ HighestDbId # 0 => HighestDbId \in loading
  /\ live = {}
  /\ used = {}

(* LoadResetTimes: SELECT id ... ORDER BY id ASC. *)
LoadNext(id) ==
  /\ id \in loading
  /\ \A i \in loading : id <= i
  /\ RegisterInstanceId(id)
  /\ loading' = loading \ {id}
  /\ live' = live \cup {id}
  /\ used' = used \cup {id}

Generate ==
  /\ loading = {}
  /\ GenerateInstanceId
  /\ live' = live \cup {nextId}
  /\ used' = used \cup {nextId}
  /\ UNCHANGED loading

GenerateOverflows ==
  /\ loading = {}
  /\ GenerateInstanceIdOverflows
  /\ UNCHANGED <<loading, live, used>>

Free(id) ==
  /\ loading = {}
  /\ id \in live
  /\ FreeInstanceId(id)
  /\ live' = live \ {id}
  /\ UNCHANGED <<loading, used>>

AllocNext ==
  \/ \E id \in loading : LoadNext(id)
  \/ Generate
  \/ GenerateOverflows
  \/ \E id \in live : Free(id)

AllocSpec == AllocInit /\ [][AllocNext]_allocVars

-----------------------------------------------------------------------------
(* Properties. *)

(* No id that is in use is free, so none is handed out twice, whatever the   *)
(* order in which instances come and go.                                     *)
LiveIdsAreNotFree ==
  live \cap freeIds = {}

(* Once the instance table is loaded, every id handed out is new.            *)
HandedOutIdIsNew ==
  [][ Generate => nextId \notin live ]_allocVars

(* No id is lost: every id below the capacity is free or in use.             *)
NoIdIsLost ==
  \A i \in 1 .. capacity - 1 : i \in freeIds \/ i \in live

(* WasInstanceIdFreed tells a used id from a clean one: an id on offer that  *)
(* was never freed has had no owner whose delayed deletes could hit the next *)
(* one (what AllocateInstanceId in BotRaidLockoutSeeder.cpp relies on).      *)
UnfreedIdIsUnused ==
  freeIds \cap used \subseteq freedIds

(* The allocator is sound in every order of registrations, allocations,      *)
(* growth and releases.                                                      *)
IdsAreSound == NextIdIsLowestFree /\ LiveIdsAreNotFree /\ NoIdIsLost /\ UnfreedIdIsUnused
=============================================================================
