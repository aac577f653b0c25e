SPECIFICATION Spec
CONSTANTS
  timer = timer wakeup = wakeup conn1 = conn1 conn2 = conn2
  Fd = {0, 1, 2, 3}
  Handler <- MCHandler
  EventType = {kRead, kWrite}
  Read = kRead
  TimerHandler = timer TimerFd = 0
  WakeupHandler = wakeup WakeupFd = 1
  Owner = {"connector", "server", "client"}
  NoFd = nofd
  NoHandler = nohandler
  NoEntry = noentry
  NullEntry = nullentry
  Garbage <- MCGarbage
  MaxInt = 7
INVARIANTS TableMatchesClients NoDanglingHandler MaxFdCovers FlagsFollowReports
CHECK_DEADLOCK FALSE
SYMMETRY Symmetry
