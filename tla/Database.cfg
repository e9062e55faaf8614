SPECIFICATION DbSpec
CONSTANTS
  save = save other = other empty = empty single = single
  Consumers = {w1, w2}
  SyncConns = {s1}
  Values = {save, other, empty, single}
  Singles = {single}
  Null = Null
  Size <- MCSize
  SyncRetries = 1
  AsyncRetries = 2
  Faults = {"deadlock", "error", "commit"}
  MaxFaults = 3
SYMMETRY MCSymmetry
INVARIANTS DbTypeOK SettledInOrder
PROPERTY ImplementsAtomicStore
