SPECIFICATION FairSpec
CONSTANTS
  w1 = w1 w2 = w2 p1 = p1 p2 = p2
  Worker <- MCWorker
  Thread <- MCThread
  Task = {f1, f2, f3, f4}
  NoTask = notask
  NoThread = nothread
  Size <- MCSize
  MaxChanges = 2
CHECK_DEADLOCK FALSE
INVARIANTS EachTaskOnce NoForgottenConsumer NoForgottenProducer WithinLimit
PROPERTIES TasksRun PutsReturn
