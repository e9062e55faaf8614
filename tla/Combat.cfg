SPECIFICATION CombatSpec
CONSTANTS
  c = c
  d = d
  p = p
  q = q
  None = None
  Creatures = {c, d}
  Players = {p, q}
  Enemies <- MCEnemies
  MayHide = {p, q}
  MaxActs = 2
  Missiles <- MCMissiles
  Mortals = {p, c}
INVARIANTS
  CombatTypeOK
  InCombatIffReferenced
  ThreatImpliesCombat
  NoDanglingReference
  AbsentUnitsAreForgotten
