SPECIFICATION Spec
CONSTANTS
  user = user m1 = m1 m2 = m2
  User = {}
  LoopUsers = {}
  ThreadUsers = {}
  ThreadOps = {}
  LoopOps = {}
  CallbackOps = {"forceClose"}
  Data <- MCData
  NoData = nodata
  Large = {m2}
  Filling = {m1}
  NulPart <- MCNulPart
  ConnFd = connfd
  Handler = handler
  NoEntry = noentry
  NullEntry = nullentry
  WritingGarbage = {FALSE}
  MaxInbound = 1
CHECK_DEADLOCK FALSE
INVARIANT NoNullEntry
