SPECIFICATION FairSpec
CONSTANTS
  user = user m1 = m1 m2 = m2
  User = {user}
  LoopUsers = {user}
  ThreadUsers = {user}
  ThreadOps = {"send", "shutdown", "forceClose"}
  LoopOps = {"shutdown"}
  CallbackOps = {"send"}
  Data <- MCData
  NoData = nodata
  Large = {m2}
  Filling = {m1}
  NulPart <- MCNulPart
  ConnFd = connfd
  Handler = handler
  NoEntry = noentry
  NullEntry = nullentry
  WritingGarbage = {TRUE, FALSE}
  MaxInbound = 1
CHECK_DEADLOCK FALSE
INVARIANTS NoDanglingHandler SentInOrder FinAfterData
PROPERTIES ClosedConnectionRemoved ShutdownCompletes
