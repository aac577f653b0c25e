SPECIFICATION FairSpec
CONSTANTS
  NumLoops = 3
  NoLoop = noloop
  MaxRoundRobin = 2
  Fd = {fd1, fd2}
  AcceptFd = acceptfd
  Acceptor = acceptor
  MaxConns = 3
  NoConn = noconn
  NoEntry = noentry
  NullEntry = nullentry
CHECK_DEADLOCK FALSE
INVARIANTS LoopsAreLive NoDanglingHandler MapHoldsOpenConnections
PROPERTIES StartReturns ClosedConnectionFreed PoolStops
