SPECIFICATION AllocSpec
CONSTANTS
  MaxInstanceId = 6
  HighestDbId = 4
INVARIANTS
  AllocTypeOK
  IdsAreSound
