SPECIFICATION SocketFairSpec
CONSTANTS
  World = world MapWorker = worker Net = net
  Producers = {world, worker, net}
  Challenge = challenge Response = response Pong = pong Initializer = initializer
  w1 = w1 m1 = m1
  Nodes <- MCNodes
  Outgoing <- MCOutgoing
  Size <- MCSize
  Dummy = dummy
  Null = null
  SendBufferSize = 2
  MaxStalls = 1
INVARIANT RefusalIsSent
