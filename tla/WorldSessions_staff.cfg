SPECIFICATION WorldSpec
CONSTANTS
  a = a b = b staff = staff
  Accounts = {a, b, staff}
  Staff = {staff}
  Connections <- MCConnections
  PlayerLimits = {1}
  Tolerance = 1
  None = None
INVARIANT StaffTakesNoSlot
