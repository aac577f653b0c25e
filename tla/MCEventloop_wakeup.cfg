SPECIFICATION Spec
CONSTANTS
  t1 = t1 t2 = t2
  foreign1 = foreign1 foreign2 = foreign2 own1 = own1 own2 = own2 setup1 = setup1
  Threads <- MCThreads
  LoopThread = loop
  WakeupHandler = wakeup
  Handlers = {conn}
  Task <- MCTask
  OwnTasks <- MCOwnTasks
  SetupTasks <- MCSetupTasks
  NoThread = none
  NoTask = notask
CHECK_DEADLOCK FALSE
INVARIANT NoLostWakeup
