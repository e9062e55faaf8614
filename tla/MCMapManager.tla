---------------------------- MODULE MCMapManager ----------------------------
(* MapManager for TLC: small sets of players, maps and workers. *)
EXTENDS MapManager

MCMaps == WorldMaps \cup InstanceMaps \cup BattlegroundMaps
=============================================================================
