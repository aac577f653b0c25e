SPECIFICATION ClientSpec
CONSTANTS
  Fd = {fd1, fd2, fd3}
  NoFd = nofd
  Handler = {h1, h2}
  NoHandler = nohandler
  NoEntry = noentry
  NullEntry = nullentry
  Threads = {t1, t2}
  InitRetryDelay = 1
  MaxRetryDelay = 3
  MaxTasks = 3
  Careful = FALSE
INVARIANT NoDanglingConnection
