SPECIFICATION FairSpec
CONSTANTS
  Consumers = {w1, w2}
  Null = null
  Players = {p1, p2}
  WorldMaps = {}
  InstanceMaps = {i1}
  BattlegroundMaps = {b1}
  Values <- MCMaps
  NoMap = nomap
  UnloadDelay = 2
INVARIANTS
  TypeOK
  WorkConserving
  PendingIsExact
  UpdatesAreSafe
  PlayersKeepTheirMaps
PROPERTIES
  TickEnds
  EmptyInstanceGoes
  ShutdownEnds
