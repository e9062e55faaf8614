SPECIFICATION DbFairSpec
CONSTANTS
  save = save other = other empty = empty single = single
  Consumers = {w1, w2}
  SyncConns = {s1}
  Values = {save, other}
  Singles = {}
  Null = Null
  Size <- MCSize
  SyncRetries = 1
  AsyncRetries = 2
  Faults = {"deadlock", "begin", "lost", "unreachable"}
  MaxFaults = 2
PROPERTIES EverySubmissionSettles CloseEnds
