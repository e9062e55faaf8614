SPECIFICATION DbSpec
CONSTANTS
  save = save other = other empty = empty single = single
  Consumers = {w1}
  SyncConns = {s1}
  Values = {save}
  Singles = {}
  Null = Null
  Size <- MCSize
  SyncRetries = 5
  AsyncRetries = 2
  Faults = {"lost"}
  MaxFaults = 1
INVARIANT Atomic
