SPECIFICATION WorldSpec
CONSTANTS
  a = a b = b staff = staff
  Accounts = {a, b, staff}
  Staff = {staff}
  Connections <- MCConnections
  PlayerLimits = {0, 1, 2}
  Tolerance = 1
  None = None
SYMMETRY MCSymmetry
INVARIANTS WorldTypeOK QueueIsSound
PROPERTIES FreeSlotIsFilled LimitIsRespected NoOvertaking
