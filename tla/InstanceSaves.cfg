SPECIFICATION InstSpec
CONSTANTS
  Players = {p1, p2}
  WorldMaps = {0}
  InstanceMaps = {1, 3}
  BattlegroundMaps = {}
  NoMap = NoMap
  UnloadDelay = 1
  MaxInstanceId = 9
  ResetDelay = 1
  EventIdLimit = 2
  RaidId = 2
  MaxTime = 3
INVARIANTS
  SavesTypeOK
  BindsMatchSaves
  EveryBindExpires
PROPERTIES
  EntersItsOwnInstance
SYMMETRY MCSymmetry
